-------------------------- MODULE SystemUdpProofs --------------------------
(***************************************************************************)
(* Proofs about SystemUdp, for any flows, channels, connections and        *)
(* capacities: replies keep their task and their client, whatever GC, the  *)
(* network reset and the application do, and hijacked queries stay out of  *)
(* the session table.                                                      *)
(***************************************************************************)
EXTENDS SystemUdp, SequenceTheorems, TLAPS

LEMMA Capacities == ReplyCap \in Nat /\ UdpTxCap \in Nat /\ DnsTxCap \in Nat
  BY UdpAssumption

LEMMA NoneIsNone == None \notin Chan /\ None \notin Flow
  BY UdpAssumption

LEMMA Askers == "tun" \in Asker /\ DnsConn \subseteq Asker
  BY DEF Asker

LEMMA UdpInvInit == Init => UdpInv
  BY UdpAssumption DEF Init, UdpInv, TypeOK, HandInv, SenderHasTask, HasSender,
     SessionAnswersItsClient, Asker

-----------------------------------------------------------------------------

\* Type correctness, one step per action.
LEMMA TypeStep == TypeOK /\ HandInv /\ [Next]_vars => TypeOK'
  <1> SUFFICES ASSUME TypeOK, HandInv, [Next]_vars PROVE TypeOK'
    OBVIOUS
  <1> USE DEF TypeOK, table, channel, app, dns, tun, bridge
  <1>1. ASSUME NEW f \in Flow, Datagram(f) PROVE TypeOK'
    BY <1>1 DEF Datagram
  <1>2. CASE DnsSend
    <2>1. ASSUME Enqueue("tun") PROVE dns_tx' \in Seq(Asker) /\ Len(dns_tx') <= DnsTxCap
      BY <2>1, Askers, Capacities DEF Enqueue
    <2>2. CASE Enqueue("tun") /\ pc' = "dns_wait"
      BY <1>2, <2>1, <2>2, Askers DEF DnsSend, Enqueue
    <2>3. CASE dns_rx = "closed" /\ pc' = "lookup" /\ UNCHANGED <<dns_tx, reply_rx>>
      BY <1>2, <2>3 DEF DnsSend
    <2> QED
      BY <1>2, <2>2, <2>3 DEF DnsSend
  <1>3. CASE DnsAnswered
    BY <1>3, Askers DEF DnsAnswered, Receive, Finish
  <1>4. CASE Lookup
    <2>1. flow \in Flow
      BY <1>4 DEF Lookup, HandInv
    <2>2. CASE SessionOf(flow) # None
      BY <1>4, <2>1, <2>2 DEF Lookup, SessionOf
    <2>3. CASE SessionOf(flow) = None
      <3>1. PICK c \in Chan \ live :
               /\ sessions' = [sessions EXCEPT ![flow] = c]
               /\ live' = live \cup {c}
               /\ client' = [client EXCEPT ![c] = flow]
               /\ chan' = c
        BY <1>4, <2>3 DEF Lookup
      <3>2. /\ UNCHANGED <<now, flow, replies, udp_tx, app, dns>>
            /\ pc' = "udp_send"
            /\ last_seen' = [last_seen EXCEPT ![flow] = now]
        BY <1>4, <2>3 DEF Lookup
      <3>3. sessions' \in [Flow -> Chan \cup {None}] /\ client' \in [Chan -> Flow \cup {None}]
        BY <2>1, <3>1
      <3> QED
        BY <2>1, <3>1, <3>2, <3>3
    <2> QED
      BY <2>2, <2>3
  <1>5. CASE UdpSend
    <2>1. flow \in Flow /\ chan \in Chan
      BY <1>5 DEF UdpSend, HandInv
    <2>2. CASE udp_tx' = Append(udp_tx, [flow |-> flow, chan |-> chan])
                 /\ Len(udp_tx) < UdpTxCap
      <3>1. udp_tx' \in Seq([flow : Flow, chan : Chan]) /\ Len(udp_tx') <= UdpTxCap
        BY <2>1, <2>2, Capacities
      <3> QED
        BY <1>5, <3>1 DEF UdpSend, Finish
    <2>3. CASE UNCHANGED udp_tx
      BY <1>5, <2>3 DEF UdpSend, Finish
    <2> QED
      BY <1>5, <2>2, <2>3 DEF UdpSend
  <1>6. ASSUME NEW c \in Chan, ReplyTask(c) PROVE TypeOK'
    BY <1>6, Capacities DEF ReplyTask
  <1>7. ASSUME NEW c \in Chan, ReplyTaskEnds(c) PROVE TypeOK'
    BY <1>7 DEF ReplyTaskEnds
  <1>8. ASSUME NEW c \in Chan, LateReply(c) PROVE TypeOK'
    BY <1>8, Capacities DEF LateReply, SendReply
  <1>9. ASSUME NEW c \in Chan, DropSession(c) PROVE TypeOK'
    BY <1>9 DEF DropSession
  <1>10. ASSUME NEW S, Forget(S) PROVE TypeOK'
    BY <1>10 DEF Forget
  <1>11. CASE Tick
    BY <1>11 DEF Tick
  <1>12. ASSUME NEW d \in DnsConn, ConnRead(d) \/ ConnAccept(d) PROVE TypeOK'
    BY <1>12 DEF ConnRead, ConnAccept
  <1>13. ASSUME NEW d \in DnsConn, ConnSend(d) PROVE TypeOK'
    <2>1. ASSUME Enqueue(d) PROVE dns_tx' \in Seq(Asker) /\ Len(dns_tx') <= DnsTxCap
      BY <2>1, Askers, Capacities DEF Enqueue
    <2>2. CASE Enqueue(d) /\ conn' = [conn EXCEPT ![d] = "wait"]
      BY <1>13, <2>1, <2>2, Askers DEF ConnSend, Enqueue
    <2>3. CASE conn' = [conn EXCEPT ![d] = "closed"] /\ UNCHANGED <<dns_tx, reply_rx>>
      BY <1>13, <2>3 DEF ConnSend
    <2> QED
      BY <1>13, <2>2, <2>3 DEF ConnSend
  <1>14. ASSUME NEW d \in DnsConn, ConnAnswered(d) PROVE TypeOK'
    <2>1. reply_rx' \in [Asker -> {"empty", "response", "dropped"}]
      BY <1>14, Askers DEF ConnAnswered, Receive
    <2>2. conn' \in [DnsConn -> {"read", "send", "wait", "closed"}]
      BY <1>14 DEF ConnAnswered
    <2> QED
      BY <1>14, <2>1, <2>2 DEF ConnAnswered
  <1>15. CASE BridgeUdp
    <2>1. /\ Head(udp_tx) \in [flow : Flow, chan : Chan]
          /\ Tail(udp_tx) \in Seq([flow : Flow, chan : Chan])
          /\ Len(Tail(udp_tx)) = Len(udp_tx) - 1
      BY <1>15, HeadTailProperties DEF BridgeUdp
    <2>2. Len(udp_tx) \in Nat
      BY LenProperties
    <2>3. session' \in Chan /\ call' = "begin"
      BY <1>15, <2>1 DEF BridgeUdp
    <2>4. udp_tx' \in Seq([flow : Flow, chan : Chan]) /\ Len(udp_tx') <= UdpTxCap
      BY <1>15, <2>1, <2>2, Capacities DEF BridgeUdp
    <2> QED
      BY <1>15, <2>3, <2>4 DEF BridgeUdp
  <1>16. CASE NewPacket
    BY <1>16 DEF NewPacket
  <1>17. CASE PacketReply
    BY <1>17, Capacities DEF PacketReply, SendReply, HandInv
  <1>18. CASE PacketDone
    BY <1>18 DEF PacketDone, HandInv
  <1>19. CASE NewDnsQuery
    <2>1. /\ Head(dns_tx) \in Asker
          /\ Tail(dns_tx) \in Seq(Asker)
          /\ Len(Tail(dns_tx)) = Len(dns_tx) - 1
      BY <1>19, HeadTailProperties DEF NewDnsQuery
    <2>2. Len(dns_tx) \in Nat
      BY LenProperties
    <2>3. dns_tx' \in Seq(Asker) /\ Len(dns_tx') <= DnsTxCap
      BY <1>19, <2>1, <2>2, Capacities DEF NewDnsQuery
    <2>4. asked' \subseteq Asker /\ reply_rx' \in [Asker -> {"empty", "response", "dropped"}]
      BY <1>19, <2>1 DEF NewDnsQuery
    <2> QED
      BY <1>19, <2>3, <2>4 DEF NewDnsQuery
  <1>20. ASSUME NEW a \in Asker, Answer(a) PROVE TypeOK'
    BY <1>20 DEF Answer
  <1>21. CASE DnsClose
    BY <1>21, Capacities DEF DnsClose
  <1>22. CASE UdpClose
    BY <1>22, Capacities DEF UdpClose
  <1>23. CASE UNCHANGED vars
    BY <1>23 DEF vars
  <1> HIDE DEF TypeOK, table, channel, app, dns, tun, bridge
  <1> QED
    BY <1>1, <1>2, <1>3, <1>4, <1>5, <1>6, <1>7, <1>8, <1>9, <1>10, <1>11, <1>12,
       <1>13, <1>14, <1>15, <1>16, <1>17, <1>18, <1>19, <1>20, <1>21, <1>22, <1>23
       DEF Next, TunLoop, Handler, Gc, Reset
-----------------------------------------------------------------------------
(* The packets in udp_tx.                                                   *)

LEMMA PacketTypes ==
  ASSUME TypeOK
  PROVE  \A i \in DOMAIN udp_tx : udp_tx[i] \in [flow : Flow, chan : Chan]
  <1> DEFINE Packet == [flow : Flow, chan : Chan]
  <1>1. udp_tx \in Seq(Packet)
    BY DEF TypeOK
  <1> HIDE DEF Packet
  <1>2. \A i \in DOMAIN udp_tx : udp_tx[i] \in Packet
    BY <1>1, LenProperties, ElementOfSeq
  <1> QED
    BY <1>2 DEF Packet

\* UdpSend adds at most the packet in hand.
LEMMA PacketAppended ==
  ASSUME TypeOK, HandInv, UdpSend
  PROVE  \A i \in DOMAIN udp_tx' :
            \/ i \in DOMAIN udp_tx /\ udp_tx'[i] = udp_tx[i]
            \/ udp_tx'[i] = [flow |-> flow, chan |-> chan]
  <1>1. CASE udp_tx' = Append(udp_tx, [flow |-> flow, chan |-> chan])
    <2>1. [flow |-> flow, chan |-> chan] \in [flow : Flow, chan : Chan]
      BY DEF UdpSend, HandInv
    <2>2. udp_tx \in Seq([flow : Flow, chan : Chan])
      BY DEF TypeOK
    <2>3. /\ DOMAIN udp_tx = 1 .. Len(udp_tx) /\ Len(udp_tx) \in Nat
          /\ DOMAIN udp_tx' = 1 .. (Len(udp_tx) + 1)
      BY <1>1, <2>1, <2>2, AppendProperties, LenProperties
    <2>4. /\ \A i \in 1 .. Len(udp_tx) : udp_tx'[i] = udp_tx[i]
          /\ udp_tx'[Len(udp_tx) + 1] = [flow |-> flow, chan |-> chan]
      BY <1>1, <2>1, <2>2, AppendProperties
    <2> QED
      BY <2>3, <2>4
  <1> QED
    BY <1>1 DEF UdpSend

\* BridgeUdp takes the first packet and keeps the others.
LEMMA PacketTaken ==
  ASSUME TypeOK, BridgeUdp
  PROVE  /\ Head(udp_tx) = udp_tx[1] /\ 1 \in DOMAIN udp_tx
         /\ \A i \in DOMAIN Tail(udp_tx) : i + 1 \in DOMAIN udp_tx
                                           /\ Tail(udp_tx)[i] = udp_tx[i + 1]
         /\ udp_tx[1].chan \in Chan
  <1> DEFINE Packet == [flow : Flow, chan : Chan]
  <1>1. udp_tx \in Seq(Packet) /\ udp_tx # <<>>
    BY DEF BridgeUdp, TypeOK
  <1> HIDE DEF Packet
  <1>2. DOMAIN udp_tx = 1 .. Len(udp_tx) /\ Len(udp_tx) \in Nat \ {0}
    BY <1>1, LenProperties, EmptySeq
  <1>3. /\ DOMAIN Tail(udp_tx) = 1 .. (Len(udp_tx) - 1)
        /\ \A i \in 1 .. (Len(udp_tx) - 1) : Tail(udp_tx)[i] = udp_tx[i + 1]
    BY <1>1, HeadTailProperties, LenProperties
  <1>4. udp_tx[1] \in Packet /\ Head(udp_tx) = udp_tx[1]
    BY <1>1, <1>2, ElementOfSeq
  <1>5. udp_tx[1].chan \in Chan
    BY <1>4 DEF Packet
  <1> QED
    BY <1>2, <1>3, <1>4, <1>5

-----------------------------------------------------------------------------

\* What leaves sessions, replies and packets alone, and gives the TUN loop no
\* new session, keeps the invariant.
LEMMA OtherSteps ==
  ASSUME UdpInv, TypeOK', HandInv', UNCHANGED <<table, channel, udp_tx, bridge, kept>>,
         chan' \in {chan, None}
  PROVE  UdpInv'
  BY NoneIsNone DEF UdpInv, SenderHasTask, HasSender, SessionAnswersItsClient, table,
     channel, bridge

\* Every step keeps the tasks and the clients of the sessions in use.
LEMMA UdpInvStep == UdpInv /\ [Next]_vars => UdpInv'
  <1> SUFFICES ASSUME UdpInv, [Next]_vars PROVE UdpInv'
    OBVIOUS
  <1>t. TypeOK /\ HandInv /\ SenderHasTask /\ SessionAnswersItsClient /\ TypeOK'
    BY TypeStep DEF UdpInv
  <1> USE DEF table, channel, app, dns, tun, bridge
  <1>1. ASSUME NEW f \in Flow, Datagram(f) PROVE UdpInv'
    <2>1. HandInv'
      BY <1>1, <1>t DEF Datagram, HandInv
    <2> QED
      BY <1>1, <1>t, <2>1, OtherSteps DEF Datagram
  <1>2. CASE DnsSend
    <2>1. HandInv'
      BY <1>2, <1>t DEF DnsSend, HandInv
    <2> QED
      BY <1>2, <1>t, <2>1, OtherSteps DEF DnsSend
  <1>3. CASE DnsAnswered
    <2>1. HandInv'
      BY <1>3, <1>t DEF DnsAnswered, Finish, HandInv
    <2> QED
      BY <1>3, <1>t, <2>1, OtherSteps DEF DnsAnswered, Finish
  <1>4. CASE Lookup
    <2>1. flow \in Flow
      BY <1>4, <1>t DEF Lookup, HandInv
    <2>2. CASE SessionOf(flow) # None
      <3>1. /\ chan' = sessions[flow] /\ pc' = "udp_send"
            /\ UNCHANGED <<sessions, channel, flow, udp_tx, bridge, kept>>
        BY <1>4, <2>2 DEF Lookup, SessionOf
      <3>2. HandInv'
        BY <3>1, <2>1, <2>2, <1>t DEF HandInv, TypeOK, SessionOf, SessionAnswersItsClient
      <3>3. SenderHasTask' /\ SessionAnswersItsClient'
        BY <3>1, <2>1, <1>t DEF SenderHasTask, HasSender, SessionAnswersItsClient
      <3> QED
        BY <3>2, <3>3, <1>t DEF UdpInv
    <2>3. CASE SessionOf(flow) = None
      <3>1. PICK c \in Chan \ live :
               /\ sessions' = [sessions EXCEPT ![flow] = c]
               /\ live' = live \cup {c}
               /\ client' = [client EXCEPT ![c] = flow]
               /\ chan' = c
        BY <1>4, <2>3 DEF Lookup
      <3>2. UNCHANGED <<flow, replies, udp_tx, bridge, kept>> /\ pc' = "udp_send"
        BY <1>4, <2>3 DEF Lookup
      <3>3. ~HasSender(c)
        BY <3>1, <1>t DEF SenderHasTask
      <3>4. HandInv'
        BY <3>1, <3>2, <2>1, <1>t DEF TypeOK, HandInv
      <3>5. \A f \in Flow : sessions'[f] # None => client'[sessions'[f]] = f
        BY <3>1, <3>3, <2>1, <1>t DEF TypeOK, HasSender, SessionAnswersItsClient
      <3>6. \A i \in DOMAIN udp_tx' : client'[udp_tx'[i].chan] = udp_tx'[i].flow
        <4>1. \A i \in DOMAIN udp_tx : udp_tx[i].chan # c /\ udp_tx[i].chan \in Chan
          <5>1. \A i \in DOMAIN udp_tx : udp_tx[i] \in [flow : Flow, chan : Chan]
            BY <1>t, PacketTypes
          <5> QED
            BY <3>3, <5>1 DEF HasSender
        <4> QED
          BY <3>1, <3>2, <4>1, <1>t DEF TypeOK, SessionAnswersItsClient
      <3>7. SenderHasTask'
        BY <3>1, <3>2, <2>1, <1>t DEF TypeOK, SenderHasTask, HasSender
      <3> QED
        BY <3>4, <3>5, <3>6, <3>7, <1>t DEF UdpInv, SessionAnswersItsClient
    <2> QED
      BY <2>2, <2>3
  <1>5. CASE UdpSend
    <2>1. flow \in Flow /\ chan \in Chan /\ client[chan] = flow /\ HasSender(chan)
      BY <1>5, <1>t DEF UdpSend, HandInv, HasSender
    <2>2. UNCHANGED <<table, channel, bridge, kept>> /\ chan' = None /\ pc' = "idle"
      BY <1>5 DEF UdpSend, Finish
    <2>3. HandInv'
      BY <2>2, <1>t DEF HandInv
    <2>4. \A i \in DOMAIN udp_tx' :
             \/ i \in DOMAIN udp_tx /\ udp_tx'[i] = udp_tx[i]
             \/ udp_tx'[i] = [flow |-> flow, chan |-> chan]
      BY <1>5, <1>t, PacketAppended
    <2>5. SessionAnswersItsClient'
      BY <2>1, <2>2, <2>4, <1>t DEF SessionAnswersItsClient
    <2>6. SenderHasTask'
      BY <2>1, <2>2, <2>4, <1>t, NoneIsNone DEF SenderHasTask, HasSender
    <2> QED
      BY <2>3, <2>5, <2>6, <1>t DEF UdpInv
  <1>6. ASSUME NEW c \in Chan, ReplyTask(c) PROVE UdpInv'
    <2>1. HandInv' /\ SessionAnswersItsClient'
      BY <1>6, <1>t DEF ReplyTask, HandInv, SessionAnswersItsClient
    <2>2. SenderHasTask'
      BY <1>6, <1>t, Capacities DEF ReplyTask, TypeOK, SenderHasTask, HasSender
    <2> QED
      BY <2>1, <2>2, <1>t DEF UdpInv
  <1>7. ASSUME NEW c \in Chan, ReplyTaskEnds(c) PROVE UdpInv'
    <2>1. ~HasSender(c) /\ UNCHANGED <<table, replies, tun, udp_tx, bridge, kept>>
      BY <1>7 DEF ReplyTaskEnds
    <2>2. live' = live \ {c} /\ replies[c] = 0 /\ client' = [client EXCEPT ![c] = None]
      BY <1>7 DEF ReplyTaskEnds
    <2>3. HandInv'
      BY <2>1, <2>2, <1>t DEF HandInv, HasSender, TypeOK
    <2>4. SessionAnswersItsClient'
      BY <2>1, <2>2, <1>t DEF SessionAnswersItsClient, HasSender, TypeOK
    <2>5. SenderHasTask'
      BY <2>1, <2>2, <1>t DEF SenderHasTask, HasSender
    <2> QED
      BY <2>3, <2>4, <2>5, <1>t DEF UdpInv
  <1>8. ASSUME NEW c \in Chan, LateReply(c) PROVE UdpInv'
    <2>1. HandInv' /\ SessionAnswersItsClient'
      BY <1>8, <1>t DEF LateReply, SendReply, HandInv, SessionAnswersItsClient
    <2>2. SenderHasTask'
      BY <1>8, <1>t DEF LateReply, SendReply, TypeOK, SenderHasTask, HasSender
    <2> QED
      BY <2>1, <2>2, <1>t DEF UdpInv
  <1>9. ASSUME NEW c \in Chan, DropSession(c) PROVE UdpInv'
    BY <1>9, <1>t DEF DropSession, UdpInv, HandInv, SessionAnswersItsClient, SenderHasTask,
       HasSender
  <1>10. ASSUME NEW S, Forget(S) PROVE UdpInv'
    <2>1. UNCHANGED <<channel, tun, udp_tx, bridge, kept>>
      BY <1>10 DEF Forget
    <2>2. \A f \in Flow : sessions'[f] \in {sessions[f], None}
      BY <1>10 DEF Forget
    <2> QED
      BY <2>1, <2>2, <1>t, NoneIsNone DEF UdpInv, HandInv, SessionAnswersItsClient,
         SenderHasTask, HasSender
  <1>11. CASE Tick
    BY <1>11, <1>t, OtherSteps DEF Tick, HandInv
  <1>12. ASSUME NEW d \in DnsConn,
                ConnRead(d) \/ ConnSend(d) \/ ConnAnswered(d) \/ ConnAccept(d)
         PROVE  UdpInv'
    <2>1. UNCHANGED <<table, channel, tun, udp_tx, bridge, kept>>
      BY <1>12 DEF ConnRead, ConnSend, ConnAnswered, ConnAccept
    <2> QED
      BY <2>1, <1>t, OtherSteps DEF HandInv
  <1>13. CASE BridgeUdp
    <2>1. /\ Head(udp_tx) = udp_tx[1] /\ 1 \in DOMAIN udp_tx
          /\ \A i \in DOMAIN Tail(udp_tx) : i + 1 \in DOMAIN udp_tx
                                            /\ Tail(udp_tx)[i] = udp_tx[i + 1]
          /\ udp_tx[1].chan \in Chan
      BY <1>13, <1>t, PacketTaken
    <2>2. /\ UNCHANGED <<table, channel, tun, kept>> /\ call = "idle"
          /\ session' = udp_tx[1].chan /\ udp_tx' = Tail(udp_tx)
      BY <1>13, <2>1 DEF BridgeUdp
    <2>3. HandInv'
      BY <2>1, <2>2, <1>t DEF HandInv
    <2>4. SessionAnswersItsClient'
      BY <2>1, <2>2, <1>t DEF SessionAnswersItsClient
    <2>5. \A c \in Chan : HasSender(c)' => HasSender(c)
      BY <2>1, <2>2 DEF HasSender
    <2>6. SenderHasTask'
      BY <2>2, <2>5, <1>t DEF SenderHasTask
    <2> QED
      BY <2>3, <2>4, <2>6, <1>t DEF UdpInv
  <1>14. CASE NewPacket
    BY <1>14, <1>t, OtherSteps DEF NewPacket, UdpInv, HandInv, SessionAnswersItsClient,
       SenderHasTask, HasSender
  <1>15. CASE PacketReply
    <2>1. session \in Chan
      BY <1>15, <1>t DEF PacketReply, HandInv
    <2>2. HandInv' /\ SessionAnswersItsClient'
      BY <1>15, <2>1, <1>t DEF PacketReply, SendReply, HandInv, SessionAnswersItsClient
    <2>3. SenderHasTask'
      BY <1>15, <2>1, <1>t DEF PacketReply, SendReply, TypeOK, SenderHasTask, HasSender
    <2> QED
      BY <2>2, <2>3, <1>t DEF UdpInv
  <1>16. CASE PacketDone
    <2>1. HandInv' /\ SessionAnswersItsClient'
      BY <1>16, <1>t DEF PacketDone, HandInv, SessionAnswersItsClient
    <2>2. \A c \in Chan : HasSender(c)' => HasSender(c)
      BY <1>16, NoneIsNone DEF PacketDone, HasSender
    <2>3. SenderHasTask'
      BY <1>16, <2>2, <1>t DEF PacketDone, SenderHasTask
    <2> QED
      BY <2>1, <2>3, <1>t DEF UdpInv
  <1>17. CASE NewDnsQuery \/ DnsClose
    <2>1. UNCHANGED <<table, channel, tun, udp_tx, bridge, kept>>
      BY <1>17 DEF NewDnsQuery, DnsClose
    <2> QED
      BY <2>1, <1>t, OtherSteps DEF HandInv
  <1>18. ASSUME NEW a \in Asker, Answer(a) PROVE UdpInv'
    BY <1>18, <1>t, OtherSteps DEF Answer, HandInv
  <1>19. CASE UdpClose
    BY <1>19, <1>t DEF UdpClose, UdpInv, HandInv, SessionAnswersItsClient, SenderHasTask,
       HasSender
  <1>20. CASE UNCHANGED vars
    BY <1>20, <1>t, OtherSteps DEF vars, HandInv
  <1> HIDE DEF table, channel, app, dns, tun, bridge
  <1> QED
    BY <1>1, <1>2, <1>3, <1>4, <1>5, <1>6, <1>7, <1>8, <1>9, <1>10, <1>11, <1>12, <1>13,
       <1>14, <1>15, <1>16, <1>17, <1>18, <1>19, <1>20 DEF Next, TunLoop, Handler, Gc, Reset

LEMMA UdpInvariant == Spec => []UdpInv
  BY UdpInvInit, UdpInvStep, PTL DEF Spec

\* Type correctness of the UDP and DNS path.
THEOREM UdpTypeCorrect == Spec => []TypeOK
  <1>1. UdpInv => TypeOK
    BY DEF UdpInv
  <1> QED
    BY <1>1, UdpInvariant, PTL

\* Where dispatch_udp's reply channel can still be sent on, or holds replies,
\* its task runs.
THEOREM RepliesKeepTheirTask == Spec => []SenderHasTask
  <1>1. UdpInv => SenderHasTask
    BY DEF UdpInv
  <1> QED
    BY <1>1, UdpInvariant, PTL

\* The session dispatch_udp gives away with a packet leads to its own client.
THEOREM RepliesKeepTheirClient == Spec => []SessionAnswersItsClient
  <1>1. UdpInv => SessionAnswersItsClient
    BY DEF UdpInv
  <1> QED
    BY <1>1, UdpInvariant, PTL

\* While the resolver takes queries, dispatch_udp makes no session of a hijacked
\* query and hands none to the handler as a packet.
THEOREM DnsStaysOut == Spec => []DnsBypassesSessions
  <1> DEFINE Inv == DnsBypassesSessions /\ DnsHandInv
  <1>1. Init => Inv
    BY UdpAssumption DEF Init, DnsBypassesSessions, DnsHandInv
  <1>2. UdpInv /\ Inv /\ [Next]_vars => Inv'
    <2> SUFFICES ASSUME UdpInv, Inv, [Next]_vars PROVE Inv'
      OBVIOUS
    <2>t. TypeOK /\ HandInv
      BY DEF UdpInv
    <2> USE DEF DnsBypassesSessions, DnsHandInv, table, channel, app, dns, tun, bridge
    <2>1. ASSUME NEW f \in Flow, Datagram(f) PROVE Inv'
      BY <2>1 DEF Datagram
    <2>2. CASE DnsSend \/ DnsAnswered
      BY <2>2 DEF DnsSend, DnsAnswered, Enqueue, Finish
    <2>3. CASE Lookup
      <3>1. /\ UNCHANGED <<flow, udp_tx, dns_rx>> /\ pc = "lookup"
            /\ \A f \in Flow : f # flow => sessions'[f] = sessions[f]
        BY <2>3, <2>t DEF Lookup, TypeOK
      <3> QED
        BY <3>1, UdpAssumption
    <2>4. CASE UdpSend
      <3>1. UNCHANGED <<sessions, dns_rx>> /\ pc = "udp_send" /\ pc' = "idle"
        BY <2>4 DEF UdpSend, Finish
      <3> QED
        BY <2>4, <2>t, <3>1, PacketAppended
    <2>5. ASSUME NEW S, Forget(S) PROVE Inv'
      BY <2>5, UdpAssumption DEF Forget
    <2>6. CASE BridgeUdp
      <3>1. UNCHANGED <<sessions, dns_rx, tun>> /\ udp_tx' = Tail(udp_tx)
        BY <2>6 DEF BridgeUdp
      <3> QED
        BY <2>6, <2>t, <3>1, PacketTaken
    <2>7. CASE UdpClose \/ DnsClose
      BY <2>7 DEF UdpClose, DnsClose
    <2>8. CASE UNCHANGED <<sessions, udp_tx, tun, dns_rx>>
      BY <2>8
    <2>9. ASSUME NEW c \in Chan,
                 ReplyTask(c) \/ ReplyTaskEnds(c) \/ LateReply(c) \/ DropSession(c)
          PROVE  UNCHANGED <<sessions, udp_tx, tun, dns_rx>>
      BY <2>9 DEF ReplyTask, ReplyTaskEnds, LateReply, DropSession, SendReply
    <2>10. ASSUME NEW d \in DnsConn,
                  ConnRead(d) \/ ConnSend(d) \/ ConnAnswered(d) \/ ConnAccept(d)
           PROVE  UNCHANGED <<sessions, udp_tx, tun, dns_rx>>
      BY <2>10 DEF ConnRead, ConnSend, ConnAnswered, ConnAccept
    <2>11. CASE NewPacket \/ PacketReply \/ PacketDone \/ NewDnsQuery \/ Tick
      BY <2>11, <2>8 DEF NewPacket, PacketReply, SendReply, PacketDone, NewDnsQuery, Tick
    <2>12. ASSUME NEW a \in Asker, Answer(a)
           PROVE  UNCHANGED <<sessions, udp_tx, tun, dns_rx>>
      BY <2>12 DEF Answer
    <2>13. CASE UNCHANGED vars
      BY <2>13, <2>8 DEF vars
    <2> HIDE DEF Inv, table, channel, app, dns, tun, bridge
    <2> QED
      BY <2>1, <2>2, <2>3, <2>4, <2>5, <2>6, <2>7, <2>8, <2>9, <2>10, <2>11, <2>12, <2>13
         DEF Next, TunLoop, Handler, Gc, Reset
  <1>3. Inv => DnsBypassesSessions
    OBVIOUS
  <1> QED
    BY <1>1, <1>2, <1>3, UdpInvariant, PTL DEF Spec

-----------------------------------------------------------------------------
(* The queries on their way.                                                *)

Waits(a)  == IF a = "tun" THEN pc = "dns_wait" ELSE conn[a] = "wait"
Queued(a) == \E i \in DOMAIN dns_tx : dns_tx[i] = a
Done(a)   == reply_rx[a] # "empty"

\* No asker has two queries in the queue.
Distinct == \A i, j \in DOMAIN dns_tx : dns_tx[i] = dns_tx[j] => i = j

\* An asker waits iff its query is somewhere, and it is nowhere else.
OnePlace(a) ==
    /\ Waits(a) <=> Queued(a) \/ a \in asked \/ Done(a)
    /\ ~(Queued(a) /\ a \in asked)
    /\ ~(Queued(a) /\ Done(a))
    /\ ~(a \in asked /\ Done(a))

QueryInv == Distinct /\ \A a \in Asker : OnePlace(a)

LEMMA QueryInvStates == ASSUME QueryInv PROVE QueryInOnePlace
  <1> DEFINE queued(a) == {i \in DOMAIN dns_tx : dns_tx[i] = a}
             places(a) == {q \in {"queued", "asked", "done"} :
                             \/ q = "queued" /\ queued(a) # {}
                             \/ q = "asked" /\ a \in asked
                             \/ q = "done" /\ reply_rx[a] # "empty"}
  <1> SUFFICES ASSUME NEW a \in Asker
               PROVE  /\ \A i, j \in queued(a) : i = j
                      /\ IF Waits(a) THEN \E q \in places(a) : places(a) = {q}
                         ELSE places(a) = {}
    BY DEF QueryInOnePlace, Waits
  <1>1. OnePlace(a)
    BY DEF QueryInv
  <1>2. \A i, j \in queued(a) : i = j
    BY DEF QueryInv, Distinct
  <1>3. queued(a) # {} <=> Queued(a)
    BY DEF Queued
  <1>4. places(a) = {q \in {"queued", "asked", "done"} :
                       \/ q = "queued" /\ Queued(a)
                       \/ q = "asked" /\ a \in asked
                       \/ q = "done" /\ Done(a)}
    BY <1>3 DEF Done
  <1> HIDE DEF queued, places, Waits, Queued, Done
  <1>5. CASE Queued(a)
    <2>1. places(a) = {"queued"} /\ Waits(a)
      BY <1>1, <1>4, <1>5 DEF OnePlace
    <2> QED
      BY <1>2, <2>1
  <1>6. CASE a \in asked
    <2>1. places(a) = {"asked"} /\ Waits(a)
      BY <1>1, <1>4, <1>6 DEF OnePlace
    <2> QED
      BY <1>2, <2>1
  <1>7. CASE Done(a)
    <2>1. places(a) = {"done"} /\ Waits(a)
      BY <1>1, <1>4, <1>7 DEF OnePlace
    <2> QED
      BY <1>2, <2>1
  <1>8. CASE ~Queued(a) /\ a \notin asked /\ ~Done(a)
    <2>1. places(a) = {} /\ ~Waits(a)
      BY <1>1, <1>4, <1>8 DEF OnePlace
    <2> QED
      BY <1>2, <2>1
  <1> QED
    BY <1>5, <1>6, <1>7, <1>8

\* tx.send puts the asker's query in the queue and changes nobody else's place.
LEMMA QueryQueued ==
  ASSUME TypeOK, NEW a \in Asker, Enqueue(a)
  PROVE  /\ \A b \in Asker : Queued(b)' <=> Queued(b) \/ b = a
         /\ Distinct /\ ~Queued(a) => Distinct'
         /\ ~Done(a)' /\ \A b \in Asker : b # a => (Done(b)' <=> Done(b))
  <1>1. dns_tx \in Seq(Asker)
    BY DEF TypeOK
  <1>2. /\ DOMAIN dns_tx = 1 .. Len(dns_tx) /\ Len(dns_tx) \in Nat
        /\ DOMAIN dns_tx' = 1 .. (Len(dns_tx) + 1)
    BY <1>1, AppendProperties, LenProperties DEF Enqueue
  <1>3. /\ \A i \in 1 .. Len(dns_tx) : dns_tx'[i] = dns_tx[i]
        /\ dns_tx'[Len(dns_tx) + 1] = a
    BY <1>1, AppendProperties DEF Enqueue
  <1>4. ~Done(a)' /\ \A b \in Asker : b # a => (Done(b)' <=> Done(b))
    BY DEF Enqueue, Done, TypeOK
  <1> QED
    BY <1>2, <1>3, <1>4 DEF Queued, Distinct

\* The handler takes the first query and no other.
LEMMA QueryTaken ==
  ASSUME TypeOK, Distinct, dns_tx # <<>>, dns_tx' = Tail(dns_tx)
  PROVE  /\ Head(dns_tx) \in Asker /\ Queued(Head(dns_tx))
         /\ \A b \in Asker : Queued(b)' <=> Queued(b) /\ b # Head(dns_tx)
         /\ Distinct'
  <1>1. dns_tx \in Seq(Asker)
    BY DEF TypeOK
  <1>2. DOMAIN dns_tx = 1 .. Len(dns_tx) /\ Len(dns_tx) \in Nat \ {0}
    BY <1>1, LenProperties, EmptySeq
  <1>3. /\ DOMAIN dns_tx' = 1 .. (Len(dns_tx) - 1)
        /\ \A i \in 1 .. (Len(dns_tx) - 1) : dns_tx'[i] = dns_tx[i + 1]
    BY <1>1, HeadTailProperties, LenProperties
  <1>4. Head(dns_tx) = dns_tx[1] /\ Head(dns_tx) \in Asker
    BY <1>1, <1>2, ElementOfSeq
  <1>5. Distinct'
    BY <1>2, <1>3 DEF Distinct
  <1>6. ASSUME NEW b \in Asker PROVE Queued(b)' <=> Queued(b) /\ b # Head(dns_tx)
    <2>1. ASSUME Queued(b)' PROVE Queued(b) /\ b # Head(dns_tx)
      BY <1>2, <1>3, <1>4, <2>1 DEF Queued, Distinct
    <2>2. ASSUME Queued(b), b # Head(dns_tx) PROVE Queued(b)'
      <3>1. PICK i \in 1 .. Len(dns_tx) : dns_tx[i] = b
        BY <1>2, <2>2 DEF Queued
      <3>2. i # 1 /\ i - 1 \in 1 .. (Len(dns_tx) - 1) /\ (i - 1) + 1 = i
        BY <1>2, <1>4, <2>2, <3>1
      <3> QED
        BY <1>3, <3>1, <3>2 DEF Queued
    <2> QED
      BY <2>1, <2>2
  <1> QED
    BY <1>2, <1>4, <1>5, <1>6 DEF Queued

\* A step that leaves the queue, the answers and the waiting alone.
LEMMA QueryElsewhere ==
  ASSUME QueryInv, UNCHANGED <<dns_tx, asked, reply_rx>>,
         \A a \in Asker : Waits(a)' <=> Waits(a)
  PROVE  QueryInv'
  BY DEF QueryInv, OnePlace, Distinct, Queued, Done

LEMMA QueryInvInit == Init => QueryInv
  BY DEF Init, QueryInv, OnePlace, Distinct, Queued, Done, Waits, Asker

LEMMA QueryInvStep == TypeOK /\ QueryInv /\ [Next]_vars => QueryInv'
  <1> SUFFICES ASSUME TypeOK, QueryInv, [Next]_vars PROVE QueryInv'
    OBVIOUS
  <1>0. "tun" \notin DnsConn /\ Asker = {"tun"} \cup DnsConn
    BY UdpAssumption DEF Asker
  <1> USE DEF QueryInv, OnePlace
  <1>1. ASSUME NEW a \in Asker, Enqueue(a), ~Waits(a), Waits(a)', UNCHANGED asked,
               \A b \in Asker : b # a => (Waits(b)' <=> Waits(b))
        PROVE  QueryInv'
    BY <1>1, QueryQueued
  <1>2. ASSUME NEW a \in Asker, NEW r \in {"response", "dropped"}, Receive(a, r),
               ~Waits(a)', UNCHANGED <<dns_tx, asked>>,
               \A b \in Asker : b # a => (Waits(b)' <=> Waits(b))
        PROVE  QueryInv'
    <2>1. /\ Done(a) /\ ~Done(a)' /\ Distinct'
          /\ \A b \in Asker : Queued(b)' <=> Queued(b)
          /\ \A b \in Asker : b # a => (Done(b)' <=> Done(b))
      BY <1>2 DEF Receive, Done, Queued, Distinct, TypeOK
    <2> QED
      BY <1>2, <2>1
  <1>3. CASE DnsSend
    <2>1. CASE Enqueue("tun") /\ pc' = "dns_wait"
      <3>1. "tun" \in Asker /\ ~Waits("tun") /\ Waits("tun")'
            /\ UNCHANGED asked /\ \A b \in Asker : b # "tun" => (Waits(b)' <=> Waits(b))
        BY <1>3, <2>1, <1>0 DEF DnsSend, Waits
      <3> QED
        BY <2>1, <3>1, <1>1
    <2>2. CASE pc' = "lookup" /\ UNCHANGED <<dns_tx, reply_rx>>
      BY <1>3, <2>2, QueryElsewhere DEF DnsSend, Waits
    <2> QED
      BY <1>3, <2>1, <2>2 DEF DnsSend
  <1>4. CASE DnsAnswered
    <2>1. "tun" \in Asker /\ ~Waits("tun")' /\ UNCHANGED <<dns_tx, asked>>
          /\ \A b \in Asker : b # "tun" => (Waits(b)' <=> Waits(b))
      BY <1>4, <1>0 DEF DnsAnswered, Finish, Waits
    <2> QED
      BY <1>4, <2>1, <1>2 DEF DnsAnswered
  <1>5. ASSUME NEW d \in DnsConn, ConnSend(d) PROVE QueryInv'
    <2>1. CASE Enqueue(d) /\ conn' = [conn EXCEPT ![d] = "wait"]
      <3>1. d \in Asker /\ ~Waits(d) /\ Waits(d)' /\ UNCHANGED asked
            /\ \A b \in Asker : b # d => (Waits(b)' <=> Waits(b))
        BY <1>5, <2>1, <1>0 DEF ConnSend, Waits, TypeOK, tun
      <3> QED
        BY <2>1, <3>1, <1>1
    <2>2. CASE conn' = [conn EXCEPT ![d] = "closed"] /\ UNCHANGED <<dns_tx, reply_rx>>
      <3>1. \A b \in Asker : Waits(b)' <=> Waits(b)
        BY <1>5, <2>2, <1>0 DEF ConnSend, Waits, TypeOK, tun
      <3> QED
        BY <1>5, <2>2, <3>1, QueryElsewhere DEF ConnSend
    <2> QED
      BY <1>5, <2>1, <2>2 DEF ConnSend
  <1>6. ASSUME NEW d \in DnsConn, ConnAnswered(d) PROVE QueryInv'
    <2>1. d \in Asker /\ ~Waits(d)' /\ UNCHANGED <<dns_tx, asked>>
          /\ \A b \in Asker : b # d => (Waits(b)' <=> Waits(b))
      BY <1>6, <1>0 DEF ConnAnswered, Waits, TypeOK, tun
    <2> QED
      BY <1>6, <2>1, <1>2 DEF ConnAnswered
  <1>7. ASSUME NEW d \in DnsConn, ConnRead(d) \/ ConnAccept(d) PROVE QueryInv'
    <2>1. \A b \in Asker : Waits(b)' <=> Waits(b)
      BY <1>7, <1>0 DEF ConnRead, ConnAccept, Waits, TypeOK, tun
    <2> QED
      BY <1>7, <2>1, QueryElsewhere DEF ConnRead, ConnAccept
  <1>8. CASE NewDnsQuery
    <2>1. PICK h \in Asker :
             /\ h = Head(dns_tx) /\ Queued(h) /\ Distinct'
             /\ \A b \in Asker : Queued(b)' <=> Queued(b) /\ b # h
      BY <1>8, QueryTaken DEF NewDnsQuery
    <2>2. \A b \in Asker : Waits(b)' <=> Waits(b)
      BY <1>8 DEF NewDnsQuery, Waits, tun
    <2>3. CASE asked' = asked \cup {h} /\ UNCHANGED reply_rx
      BY <2>1, <2>2, <2>3 DEF Done
    <2>4. CASE reply_rx' = [reply_rx EXCEPT ![h] = "dropped"] /\ UNCHANGED asked
      <3>1. Done(h)' /\ \A b \in Asker : b # h => (Done(b)' <=> Done(b))
        BY <2>1, <2>4 DEF Done, TypeOK
      <3> QED
        BY <2>1, <2>2, <2>4, <3>1
    <2> QED
      BY <1>8, <2>1, <2>3, <2>4 DEF NewDnsQuery
  <1>9. ASSUME NEW a \in Asker, Answer(a) PROVE QueryInv'
    <2>1. \A b \in Asker : (Waits(b)' <=> Waits(b)) /\ (Queued(b)' <=> Queued(b))
      BY <1>9 DEF Answer, Waits, Queued, tun
    <2>2. Done(a)' /\ \A b \in Asker : b # a => (Done(b)' <=> Done(b))
      BY <1>9 DEF Answer, Done, TypeOK
    <2> QED
      BY <1>9, <2>1, <2>2 DEF Answer, Distinct
  <1>10. CASE DnsClose
    <2>1. \A b \in Asker : Waits(b)' <=> Waits(b)
      BY <1>10 DEF DnsClose, Waits, tun
    <2>2. \A b \in Asker : ~Queued(b)' /\ (Done(b)' <=> Queued(b) \/ Done(b))
      BY <1>10 DEF DnsClose, Queued, Done
    <2> QED
      BY <1>10, <2>1, <2>2 DEF DnsClose, Distinct
  <1>11. CASE UNCHANGED dns /\ (pc' = "dns_wait" <=> pc = "dns_wait")
    BY <1>11, QueryElsewhere DEF dns, Waits
  <1>12. ASSUME NEW f \in Flow, Datagram(f) PROVE QueryInv'
    BY <1>11, <1>12 DEF Datagram
  <1>13. CASE Lookup \/ UdpSend
    BY <1>11, <1>13 DEF Lookup, UdpSend, Finish
  <1>14. ASSUME NEW c \in Chan,
                ReplyTask(c) \/ ReplyTaskEnds(c) \/ LateReply(c) \/ DropSession(c)
         PROVE  QueryInv'
    BY <1>11, <1>14 DEF ReplyTask, ReplyTaskEnds, LateReply, SendReply, DropSession, tun
  <1>15. CASE Gc \/ Reset \/ Tick \/ UdpClose
    BY <1>11, <1>15 DEF Gc, Reset, Forget, Tick, UdpClose, tun
  <1>16. CASE Handler
    BY <1>11, <1>16 DEF Handler, BridgeUdp, NewPacket, PacketReply, SendReply, PacketDone, tun
  <1>17. CASE UNCHANGED vars
    BY <1>11, <1>17 DEF vars, tun
  <1> HIDE DEF QueryInv
  <1> QED
    BY <1>3, <1>4, <1>5, <1>6, <1>7, <1>8, <1>9, <1>10, <1>12, <1>13, <1>14, <1>15,
       <1>16, <1>17 DEF Next, TunLoop

\* Whoever waits for a DNS answer, dispatch_udp or a connection of
\* tcp_dns_accept_loop, has exactly one query, in one place: queued, with the
\* handler, or answered; whoever does not wait has none, so an answer never
\* reaches a later query.
THEOREM QueriesInOnePlace == Spec => []QueryInOnePlace
  <1>1. Spec => []TypeOK
    BY UdpTypeCorrect
  <1>2. Spec => []QueryInv
    BY <1>1, QueryInvInit, QueryInvStep, PTL DEF Spec
  <1>3. QueryInv => QueryInOnePlace
    BY QueryInvStates
  <1> QED
    BY <1>2, <1>3, PTL
=============================================================================
