---------------------------- MODULE NetstackProofs ----------------------------
(***************************************************************************)
(* Theorems about the user-space stack, for any frames, connections and    *)
(* channels: datagrams that enter it are served, no acceptor sleeps beside *)
(* a stream, no frame is lost and no SYN misses the socket made for it.    *)
(***************************************************************************)
EXTENDS MCNetstack, SequenceTheorems, WellFoundedInduction, TLAPS

\* A behaviour is of one part, but what holds of each part holds of all.
LEMMA PartSteps ==
    [Next]_vars => /\ [PacketsNext \/ SocketsNext \/ AcceptorNext]_listenerVars
                   /\ [GvisorNext]_gvisorVars
  BY DEF Next, vars

-----------------------------------------------------------------------------
(* The functions of gvisor.rs                                               *)

LEMMA ServedInvInit == GvisorInit => ServedInv
  BY EmptySeq DEF GvisorInit, ServedInv, GvisorTypeOK, DatagramsServed

LEMMA ServedInvStep == ServedInv /\ [GvisorNext]_gvisorVars => ServedInv'
  <1> SUFFICES ASSUME ServedInv, [GvisorNext]_gvisorVars PROVE ServedInv'
    OBVIOUS
  <1>1. Len(udp_inbound) \in Nat
    BY LenProperties DEF ServedInv, GvisorTypeOK
  <1> USE DEF ServedInv, GvisorTypeOK, DatagramsServed
  <1>2. CASE ReadPacket
    BY <1>2 DEF ReadPacket, dataVars
  <1>3. CASE SinkSend
    <2>1. /\ reading \in Packets /\ reader' # "send"
          /\ UNCHANGED <<udp_dispatch, served>>
      BY <1>3 DEF SinkSend
    <2>2. \/ /\ udp_inbound' = Append(udp_inbound, reading) /\ entered' = entered + 1
          \/ UNCHANGED <<udp_inbound, entered>>
      BY <1>3 DEF SinkSend
    <2>3. udp_inbound' = Append(udp_inbound, reading) =>
            udp_inbound' \in Seq(Packets) /\ Len(udp_inbound') = Len(udp_inbound) + 1
      BY <2>1, AppendProperties
    <2> QED BY <1>1, <2>1, <2>2, <2>3
  <1>4. CASE Recv
    <2>1. /\ udp_dispatch = "recv" /\ udp_dispatch' \in {"hijack", "ended"}
          /\ UNCHANGED <<reader, reading, entered, served>>
          /\ udp_dispatch' = "hijack" => udp_inbound # <<>>
          /\ (udp_inbound' = Tail(udp_inbound) /\ udp_inbound # <<>>) \/ UNCHANGED udp_inbound
          /\ udp_dispatch' = "hijack" => udp_inbound' = Tail(udp_inbound)
      BY <1>4 DEF Recv, DispatchRest
    <2>2. udp_inbound # <<>> => /\ Tail(udp_inbound) \in Seq(Packets)
                               /\ Len(Tail(udp_inbound)) = Len(udp_inbound) - 1
      BY HeadTailProperties
    <2> QED BY <1>1, <2>1, <2>2
  <1>5. CASE Hijack \/ Session \/ Resolved \/ Send
    <2>1. CASE Hijack \/ Session
      BY <1>1, <2>1 DEF Hijack, Session, DispatchRest
    <2>2. CASE Resolved
      BY <1>1, <2>2 DEF Resolved, DispatchRest
    <2>3. CASE Send
      BY <1>1, <2>3 DEF Send, DispatchRest
    <2> QED BY <1>5, <2>1, <2>2, <2>3
  <1>6. CASE ReaderEof
    BY <1>6 DEF ReaderEof, dataVars, countVars
  <1>7. CASE \/ Bind \/ DeviceCloses \/ SessionGc \/ HandlerDrops \/ HandlersClose
            \/ AcceptStream \/ CopyEnds \/ AcceptEnds \/ StackEmits \/ WriteOut \/ Return
            \/ UNCHANGED gvisorVars
    <2>1. UNCHANGED <<reader, reading, udp_dispatch, udp_inbound, entered, served>>
      BY <1>7 DEF Bind, DeviceCloses, SessionGc, HandlerDrops, HandlersClose, AcceptStream,
         CopyEnds, AcceptEnds, StackEmits, WriteOut, Return, gvisorVars, taskVars, dataVars,
         countVars, SessionRest, TcpRest
    <2> QED BY <2>1
  <1> QED BY <1>2, <1>3, <1>4, <1>5, <1>6, <1>7 DEF GvisorNext

\* The sink, the dispatch loop and the hijacking hand every datagram on: while the loop
\* runs none is dropped, also when the resolver goes away between two queries.
THEOREM DatagramsAreServed == Spec => []DatagramsServed
  <1>1. Init => ServedInv
    BY ServedInvInit DEF Init
  <1>2. ServedInv => DatagramsServed
    BY DEF ServedInv
  <1> QED BY <1>1, <1>2, ServedInvStep, PartSteps, PTL DEF Spec

-----------------------------------------------------------------------------
(* The acceptor                                                             *)

LEMMA AcceptorInvStep ==
    AcceptorInv /\ [PacketsNext \/ SocketsNext \/ AcceptorNext]_listenerVars => AcceptorInv'
  <1> SUFFICES ASSUME AcceptorInv, [PacketsNext \/ SocketsNext \/ AcceptorNext]_listenerVars
               PROVE  AcceptorInv'
    OBVIOUS
  <1> USE DEF AcceptorInv, NoAcceptorSleeps
  <1>1. CASE PollPackets
    <2>1. /\ UNCHANGED acceptorVars
          /\ wakeDue' = (wakeDue \/ emitted' # emitted)
      BY <1>1 DEF PollPackets
    <2> QED BY <2>1 DEF acceptorVars
  <1>2. CASE TtlPasses \/ SocketsNext \/ UNCHANGED listenerVars
    <2>1. UNCHANGED <<acceptor, waker, emitted, wakeDue>>
      BY <1>2 DEF TtlPasses, SocketsNext, PollSockets, NotifierEvent, PollDelayEnds, TxTaken,
         listenerVars, acceptorVars
    <2> QED BY <2>1
  <1>3. CASE WakeAcceptor
    BY <1>3 DEF WakeAcceptor
  <1>4. CASE PollNext \/ RegisterWaker \/ Recheck \/ AcceptorWoken
    BY <1>4 DEF PollNext, RegisterWaker, Recheck, AcceptorWoken, TryRecv
  <1> QED BY <1>1, <1>2, <1>3, <1>4 DEF PacketsNext, AcceptorNext

\* TcpListener::poll_next looks again after it has registered its waker: whatever
\* poll_packets emits in between, the acceptor does not go to sleep on it.
THEOREM NoStreamIsSleptOn == Spec => []NoAcceptorSleeps
  <1>1. Init => AcceptorInv
    BY DEF Init, ListenerInit, AcceptorInv, NoAcceptorSleeps
  <1>2. AcceptorInv => NoAcceptorSleeps
    BY DEF AcceptorInv
  <1> QED BY <1>1, <1>2, AcceptorInvStep, PartSteps, PTL DEF Spec
-----------------------------------------------------------------------------
(* Loops over a sequence, and the smallest of a set                         *)

\* Induction up to n, on a set.
LEMMA UpTo ==
    ASSUME NEW n \in Nat, NEW T, 0 \in T, \A i \in 0 .. n : i \in T /\ i < n => i + 1 \in T
    PROVE  \A i \in 0 .. n : i \in T
  <1> DEFINE missing == {i \in Nat : i <= n /\ i \notin T}
  <1>1. SUFFICES ASSUME missing # {} PROVE FALSE
    OBVIOUS
  <1>2. PICK m \in missing : \A j \in missing : ~(<<j, m>> \in OpToRel(<, Nat))
    <2>1. missing \subseteq Nat
      OBVIOUS
    <2> HIDE DEF missing
    <2> QED BY <1>1, <2>1, NatLessThanWellFounded, WFMin
  <1>3. \A j \in missing : ~(j < m)
    BY <1>2 DEF OpToRel
  <1>4. m \in Nat /\ m <= n /\ m # 0 /\ m - 1 \in 0 .. n
    OBVIOUS
  <1>5. m - 1 \in T
    BY <1>3, <1>4
  <1> QED BY <1>4, <1>5

LEMMA Smallest ==
    ASSUME NEW T \in SUBSET Nat, T # {}
    PROVE  \E i \in T : \A j \in T : i <= j
  <1>1. PICK m \in T : \A j \in T : ~(<<j, m>> \in OpToRel(<, Nat))
    BY NatLessThanWellFounded, WFMin
  <1>2. T \subseteq Nat /\ \A j \in T : ~(j < m)
    BY <1>1 DEF OpToRel
  <1>3. \A j \in T : m <= j
    BY <1>2
  <1> QED BY <1>3

\* What the loops do for each element.
Each(op, s, x) == IF op = "frame" THEN TakeFrame(s, x)
                  ELSE IF op = "event" THEN HandleEvent(s, x) ELSE Receive(s, x)

\* The recursive functions of InOrder exist.
LEMMA OneByOne ==
    ASSUME NEW op, NEW start, NEW q, Len(q) \in Nat
    PROVE  \E f : f = [i \in 0 .. Len(q) |-> IF i = 0 THEN start ELSE Each(op, f[i - 1], q[i])]
  <1> DEFINE Step(f, i) == IF i = 0 THEN start ELSE Each(op, f[i - 1], q[i])
             Is(f, n) == f = [i \in 0 .. n |-> Step(f, i)]
             T == {n \in Nat : \E f : Is(f, n)}
  <1>1. 0 \in T
    <2>1. Is([i \in 0 .. 0 |-> start], 0)
      OBVIOUS
    <2> QED BY <2>1
  <1>2. ASSUME NEW n \in Nat, n \in T PROVE n + 1 \in T
    <2>1. PICK f : Is(f, n)
      BY <1>2
    <2> DEFINE g == [i \in 0 .. n + 1 |-> IF i = n + 1 THEN Each(op, f[n], q[n + 1]) ELSE f[i]]
    <2>2. ASSUME NEW i \in 0 .. n + 1 PROVE g[i] = Step(g, i)
      <3>1. CASE i = n + 1
        BY <3>1
      <3>2. CASE i \in 0 .. n
        <4>1. f[i] = Step(f, i)
          BY <2>1, <3>2
        <4>2. g[i] = f[i] /\ (i # 0 => g[i - 1] = f[i - 1])
          BY <3>2
        <4> QED BY <4>1, <4>2
      <3> QED BY <3>1, <3>2
    <2>3. Is(g, n + 1)
      BY <2>2
    <2> HIDE DEF g, Is
    <2>4. \E f_ : Is(f_, n + 1)
      BY <2>3
    <2> QED BY <2>4
  <1>3. Len(q) \in T
    <2> HIDE DEF T
    <2>1. \A n \in 0 .. Len(q) : n \in T /\ n < Len(q) => n + 1 \in T
      BY <1>2
    <2>2. \A n \in 0 .. Len(q) : n \in T
      BY <1>1, <2>1, UpTo
    <2> QED BY <2>2
  <1> QED BY <1>3

\* So each loop is a sequence of states, from its start to its result.
LEMMA ReceiveAll ==
    ASSUME NEW start, NEW q, Len(q) \in Nat
    PROVE  \E st : /\ st[0] = start /\ ReceiveFrames(start, q) = st[Len(q)]
                   /\ \A i \in 1 .. Len(q) : st[i] = Receive(st[i - 1], q[i])
  <1> DEFINE Is(f) == f = [i \in 0 .. Len(q) |-> IF i = 0 THEN start ELSE Receive(f[i - 1], q[i])]
  <1>1. PICK f : f = [i \in 0 .. Len(q) |->
                        IF i = 0 THEN start ELSE Each("receive", f[i - 1], q[i])]
    BY OneByOne
  <1>2. Is(f)
    BY <1>1 DEF Each
  <1> DEFINE after == CHOOSE g : Is(g)
  <1>3. Is(after) /\ ReceiveFrames(start, q) = after[Len(q)]
    BY <1>2 DEF InOrder, ReceiveFrames
  <1> HIDE DEF after
  <1>4. after[0] = start /\ \A i \in 1 .. Len(q) : after[i] = Receive(after[i - 1], q[i])
    BY <1>3
  <1> QED BY <1>3, <1>4

LEMMA HandleAll ==
    ASSUME NEW start, NEW q, Len(q) \in Nat
    PROVE  \E st : /\ st[0] = start /\ DrainNotifier(start, q) = st[Len(q)]
                   /\ \A i \in 1 .. Len(q) : st[i] = HandleEvent(st[i - 1], q[i])
  <1> DEFINE Is(f) == f = [i \in 0 .. Len(q) |-> IF i = 0 THEN start ELSE HandleEvent(f[i - 1], q[i])]
  <1>1. PICK f : f = [i \in 0 .. Len(q) |->
                        IF i = 0 THEN start ELSE Each("event", f[i - 1], q[i])]
    BY OneByOne
  <1>2. Is(f)
    BY <1>1 DEF Each
  <1> DEFINE after == CHOOSE g : Is(g)
  <1>3. Is(after) /\ DrainNotifier(start, q) = after[Len(q)]
    BY <1>2 DEF InOrder, DrainNotifier
  <1> HIDE DEF after
  <1>4. after[0] = start /\ \A i \in 1 .. Len(q) : after[i] = HandleEvent(after[i - 1], q[i])
    BY <1>3
  <1> QED BY <1>3, <1>4

LEMMA TakeAll ==
    ASSUME NEW start, NEW q, Len(q) \in Nat
    PROVE  \E st : /\ st[0] = start /\ TakeFrames(start, q) = st[Len(q)]
                   /\ \A i \in 1 .. Len(q) : st[i] = TakeFrame(st[i - 1], q[i])
  <1> DEFINE Is(f) == f = [i \in 0 .. Len(q) |-> IF i = 0 THEN start ELSE TakeFrame(f[i - 1], q[i])]
  <1>1. PICK f : f = [i \in 0 .. Len(q) |->
                        IF i = 0 THEN start ELSE Each("frame", f[i - 1], q[i])]
    BY OneByOne
  <1>2. Is(f)
    BY <1>1 DEF Each
  <1> DEFINE after == CHOOSE g : Is(g)
  <1>3. Is(after) /\ TakeFrames(start, q) = after[Len(q)]
    BY <1>2 DEF InOrder, TakeFrames
  <1> HIDE DEF after
  <1>4. after[0] = start /\ \A i \in 1 .. Len(q) : after[i] = TakeFrame(after[i - 1], q[i])
    BY <1>3
  <1> QED BY <1>3, <1>4

-----------------------------------------------------------------------------
(* What holds of the frames, sockets and events                             *)
Frame_ == {f \in [conn : Conn, kind : {"syn", "ack", "rst"}, fresh : BOOLEAN] :
             f.fresh => f.kind = "syn"}
Slot == {Free} \cup [listen : Conn, peer : Conn,
                     state : {"Listen", "SynReceived", "Established", "Closed"}]
Event_ == {DeviceReady} \cup {TcpSocketCreated(c) : c \in Conn}

\* A socket made for c listens, or the SYN of c has it.
SocketOf(c, s) == s # Free /\ IF s.state = "Listen" THEN s.listen = c ELSE s.peer = c

ListenerTypeOK ==
    /\ rx_queue \in Seq(Frame_) /\ tx \in Nat /\ notifier \in Seq(Event_)
    /\ sockets \in Seq(Slot) /\ syn_tracker \in [Conn -> {"none", "recent", "expired"}]
    /\ processed \in Nat /\ refused \in BOOLEAN /\ stalled \in BOOLEAN /\ stolen \in BOOLEAN

\* Every new SYN of the frames rx has a socket in ss or its event.
Awaited(rx, ss, events) ==
    \A i \in 1 .. Len(rx) : rx[i].fresh =>
        \/ \E k \in 1 .. Len(ss) : SocketOf(rx[i].conn, ss[k])
        \/ \E k \in 1 .. Len(events) : events[k] = TcpSocketCreated(rx[i].conn)

\* Until the channel was full or a socket was taken, every new SYN can count on its socket.
SocketsAwaitSyns == ~stalled /\ ~stolen => Awaited(rx_queue, sockets, notifier)

\* SynMeetsListener, inductive.
ListenerInv == ListenerTypeOK /\ SynMeetsListener /\ SocketsAwaitSyns

\* What iface.poll works on.
PassState == [ss : Seq(Slot), rx : Seq(Frame_), tx : Nat, processed : Nat,
              refused : BOOLEAN, stolen : BOOLEAN]

\* A SYN with a socket of its own finds one.
LEMMA SocketFound ==
    ASSUME NEW ss \in Seq(Slot), NEW p \in Frame_
    PROVE  /\ SocketFor(ss, p) \in 0 .. Len(ss)
           /\ SocketFor(ss, p) # 0 => ss[SocketFor(ss, p)] # Free
           /\ (SocketFor(ss, p) = 0 /\ p.kind = "syn") =>
                \A k \in 1 .. Len(ss) : ~SocketOf(p.conn, ss[k])
  <1> DEFINE own == {i \in 1 .. Len(ss) : /\ ss[i] # Free /\ ss[i].state # "Listen"
                                          /\ ss[i].peer = p.conn}
             listening == {i \in 1 .. Len(ss) : /\ ss[i] # Free /\ ss[i].state = "Listen"
                                                /\ ss[i].listen.dst = p.conn.dst
                                                /\ p.kind = "syn"}
             fit == IF own # {} THEN own ELSE listening
  <1>1. Len(ss) \in Nat
    BY LenProperties
  <1>2. fit \subseteq {i \in 1 .. Len(ss) : ss[i] # Free}
    OBVIOUS
  <1>3. p.kind = "syn" => \A k \in 1 .. Len(ss) : SocketOf(p.conn, ss[k]) => k \in own \cup listening
    BY DEF SocketOf
  <1>4. p.kind = "syn" /\ fit = {} => \A k \in 1 .. Len(ss) : ~SocketOf(p.conn, ss[k])
    BY <1>3
  <1>5. SocketFor(ss, p) = IF fit = {} THEN 0 ELSE CHOOSE i \in fit : \A j \in fit : i <= j
    BY DEF SocketFor
  <1> HIDE DEF fit
  <1>6. fit # {} => SocketFor(ss, p) \in fit
    <2>1. fit \subseteq Nat
      BY <1>1, <1>2
    <2> QED BY <1>5, <2>1, Smallest
  <1>7. fit = {} => SocketFor(ss, p) = 0
    BY <1>5
  <1>8. fit # {} => SocketFor(ss, p) \in 1 .. Len(ss)
    BY <1>2, <1>6
  <1> QED BY <1>1, <1>2, <1>4, <1>6, <1>7, <1>8

\* No segment takes the socket of another, or `stolen` says so.
LEMMA SegmentStep ==
    ASSUME NEW st \in PassState, NEW p \in Frame_
    PROVE  LET r == Segment(st, p) IN
           /\ r \in PassState /\ r.rx = st.rx /\ r.processed = st.processed
           /\ Len(r.ss) = Len(st.ss)
           /\ st.stolen => r.stolen
           /\ ~r.stolen => \A c \in Conn, k \in 1 .. Len(st.ss) :
                             SocketOf(c, st.ss[k]) => SocketOf(c, r.ss[k])
           /\ (r.refused /\ p.fresh) => st.refused \/ SocketFor(st.ss, p) = 0
           /\ (r.refused /\ ~p.fresh) => st.refused
  <1> DEFINE i == SocketFor(st.ss, p)
             s == st.ss[i]
             r == Segment(st, p)
  <1>0. /\ st.ss \in Seq(Slot) /\ st.rx \in Seq(Frame_) /\ st.tx \in Nat
        /\ st.processed \in Nat /\ st.refused \in BOOLEAN /\ st.stolen \in BOOLEAN
        /\ Len(st.ss) \in Nat /\ \A k \in 1 .. Len(st.ss) : st.ss[k] \in Slot
    BY ElementOfSeq, LenProperties DEF PassState
  <1>1. /\ i \in 0 .. Len(st.ss)
        /\ i # 0 => s # Free /\ s \in Slot
    BY <1>0, SocketFound
  <1>2. p.kind \in {"syn", "ack", "rst"} /\ p.fresh \in BOOLEAN /\ p.conn \in Conn
        /\ (p.fresh => p.kind = "syn")
    BY DEF Frame_
  <1>3. CASE i = 0
    <2>1. r = [st EXCEPT !.tx = IF p.kind = "rst" THEN @ ELSE @ + 1,
                         !.refused = @ \/ p.fresh]
      BY <1>3 DEF Segment
    <2> HIDE DEF r, i, s
    <2>2. /\ r.ss = st.ss /\ r.rx = st.rx /\ r.processed = st.processed
          /\ r.stolen = st.stolen /\ r.refused = (st.refused \/ p.fresh)
          /\ r.tx \in Nat /\ DOMAIN r = DOMAIN st
      BY <1>0, <1>2, <2>1 DEF PassState
    <2>3. r = [ss |-> st.ss, rx |-> st.rx, tx |-> r.tx, processed |-> st.processed,
               refused |-> (st.refused \/ p.fresh), stolen |-> st.stolen]
      BY <2>1, <2>2 DEF PassState
    <2>4. r \in PassState
      BY <1>0, <1>2, <2>2, <2>3 DEF PassState
    <2> QED BY <1>3, <2>2, <2>4 DEF r, i
  <1>4. CASE i # 0 /\ s.state = "Listen"
    <2> DEFINE new == [listen |-> s.listen, peer |-> p.conn, state |-> "SynReceived"]
    <2>1. r = [st EXCEPT !.ss[i] = new, !.tx = @ + 1, !.stolen = @ \/ s.listen # p.conn]
      BY <1>4 DEF Segment
    <2>2. new \in Slot /\ new # Free /\ i \in 1 .. Len(st.ss)
      <3>1. s.listen \in Conn
        BY <1>1, <1>4 DEF Slot
      <3>2. new \in Slot
        BY <1>2, <3>1 DEF Slot
      <3>3. new.state # Free.state
        BY DEF Free
      <3>4. i \in 1 .. Len(st.ss)
        BY <1>0, <1>1, <1>4
      <3> QED BY <3>2, <3>3, <3>4
    <2>3. [st.ss EXCEPT ![i] = new] \in Seq(Slot) /\ Len([st.ss EXCEPT ![i] = new]) = Len(st.ss)
      BY <1>0, <2>2, ExceptSeq
    <2> HIDE DEF r, i, s, new
    <2> DEFINE ss == [st.ss EXCEPT ![i] = new]
               taken == st.stolen \/ s.listen # p.conn
    <2>6. r = [ss |-> ss, rx |-> st.rx, tx |-> st.tx + 1, processed |-> st.processed,
               refused |-> st.refused, stolen |-> taken]
      BY <1>0, <2>1 DEF PassState
    <2>7. ss \in Seq(Slot) /\ taken \in BOOLEAN
      BY <1>0, <2>3
    <2> HIDE DEF ss, taken
    <2>4. r \in PassState /\ r.ss = [st.ss EXCEPT ![i] = new] /\ r.rx = st.rx
          /\ r.processed = st.processed
          /\ r.stolen = (st.stolen \/ s.listen # p.conn) /\ r.refused = st.refused
      BY <1>0, <2>6, <2>7 DEF PassState, ss, taken
    <2>5. ASSUME ~r.stolen, NEW c \in Conn, NEW k \in 1 .. Len(st.ss), SocketOf(c, st.ss[k])
          PROVE  SocketOf(c, r.ss[k])
      <3>1. CASE k = i
        <4>1. c = p.conn
          BY <1>4, <2>4, <2>5, <3>1 DEF SocketOf, s
        <4>2. r.ss[k] = new
          BY <1>0, <2>2, <2>4, <3>1
        <4> QED BY <2>2, <4>1, <4>2 DEF SocketOf, new
      <3>2. CASE k # i
        <4>1. r.ss[k] = st.ss[k]
          BY <1>0, <2>2, <2>4, <3>2
        <4> QED BY <2>5, <4>1
      <3> QED BY <3>1, <3>2
    <2> QED BY <2>3, <2>4, <2>5 DEF r, i
  <1>5. ASSUME i # 0, s.state # "Listen", NEW state \in {"Established", "Closed"},
               r = [st EXCEPT !.ss[i].state = state]
        PROVE  /\ r \in PassState /\ r.rx = st.rx /\ r.processed = st.processed
               /\ Len(r.ss) = Len(st.ss) /\ r.stolen = st.stolen /\ r.refused = st.refused
               /\ \A c \in Conn, k \in 1 .. Len(st.ss) :
                    SocketOf(c, st.ss[k]) => SocketOf(c, r.ss[k])
    <2> DEFINE new == [s EXCEPT !.state = state]
    <2>2. /\ new \in Slot /\ new # Free /\ i \in 1 .. Len(st.ss)
          /\ new.peer = s.peer /\ new.state = state
      <3>1. s \in [listen : Conn, peer : Conn,
                   state : {"Listen", "SynReceived", "Established", "Closed"}]
        BY <1>1, <1>5 DEF Slot
      <3>2. new \in Slot /\ new.state = state /\ new.peer = s.peer
        BY <1>5, <3>1 DEF Slot
      <3>3. new.state # Free.state
        BY <1>5, <3>2 DEF Free
      <3>4. i \in 1 .. Len(st.ss)
        BY <1>0, <1>1, <1>5
      <3> QED BY <3>2, <3>3, <3>4
    <2>3. [st.ss EXCEPT ![i] = new] \in Seq(Slot) /\ Len([st.ss EXCEPT ![i] = new]) = Len(st.ss)
      BY <1>0, <2>2, ExceptSeq
    <2>1. r = [st EXCEPT !.ss = [st.ss EXCEPT ![i] = new]]
      BY <1>5
    <2> HIDE DEF r, i, s, new
    <2>4. r \in PassState /\ r.ss = [st.ss EXCEPT ![i] = new] /\ r.rx = st.rx
          /\ r.processed = st.processed
          /\ r.stolen = st.stolen /\ r.refused = st.refused
      BY <1>0, <1>2, <2>1, <2>3 DEF PassState
    <2>5. ASSUME NEW c \in Conn, NEW k \in 1 .. Len(st.ss), SocketOf(c, st.ss[k])
          PROVE  SocketOf(c, r.ss[k])
      <3>1. CASE k = i
        <4>1. c = s.peer
          BY <1>5, <2>5, <3>1 DEF SocketOf, s
        <4>2. r.ss[k] = new
          BY <1>0, <2>2, <2>4, <3>1
        <4> QED BY <2>2, <4>1, <4>2 DEF SocketOf
      <3>2. CASE k # i
        <4>1. r.ss[k] = st.ss[k]
          BY <1>0, <2>2, <2>4, <3>2
        <4> QED BY <2>5, <4>1
      <3> QED BY <3>1, <3>2
    <2> QED BY <2>3, <2>4, <2>5
  <1>6. CASE i # 0 /\ s.state # "Listen" /\ p.kind = "rst"
    <2>1. r = [st EXCEPT !.ss[i].state = "Closed"]
      BY <1>6 DEF Segment
    <2> HIDE DEF r, i, s
    <2> QED BY <1>5, <1>6, <2>1 DEF r, i
  <1>7. CASE i # 0 /\ s.state # "Listen" /\ p.kind = "ack"
    <2>1. r = [st EXCEPT !.ss[i].state = "Established"]
      BY <1>7 DEF Segment
    <2> HIDE DEF r, i, s
    <2> QED BY <1>5, <1>7, <2>1 DEF r, i
  <1>8. CASE i # 0 /\ s.state # "Listen" /\ p.kind = "syn"
    <2>1. r = [st EXCEPT !.tx = @ + 1]
      BY <1>8 DEF Segment
    <2> HIDE DEF r, i, s
    <2>2. r \in PassState /\ r.ss = st.ss /\ r.rx = st.rx /\ r.processed = st.processed
          /\ r.stolen = st.stolen /\ r.refused = st.refused
      BY <1>0, <2>1 DEF PassState
    <2> QED BY <2>2 DEF r, i
  <1> HIDE DEF r, i, s
  <1> QED BY <1>2, <1>3, <1>4, <1>6, <1>7, <1>8 DEF r, i

\* A pass over the queue processes a first part of it and leaves the rest.
LEMMA PassKeepsFrames ==
    ASSUME NEW start \in PassState, start.rx = <<>>, NEW q \in Seq(Frame_)
    PROVE  LET st == ReceiveFrames(start, q) IN
           /\ st \in PassState
           /\ \E n \in 0 .. Len(q) : /\ st.processed = start.processed + n
                                     /\ st.rx = SubSeq(q, n + 1, Len(q))
           /\ start.stolen => st.stolen
           /\ (\A j \in 1 .. Len(q) : q[j].fresh =>
                 \E k \in 1 .. Len(start.ss) : SocketOf(q[j].conn, start.ss[k]))
                => (st.refused => start.refused \/ st.stolen)
  <1>0. Len(q) \in Nat
    BY LenProperties
  <1>1. Len(q) \in Nat /\ \A i \in 1 .. Len(q) : q[i] \in Frame_
    BY LenProperties, ElementOfSeq
  <1>2. PICK st : /\ st[0] = start /\ ReceiveFrames(start, q) = st[Len(q)]
                  /\ \A i \in 1 .. Len(q) : st[i] = Receive(st[i - 1], q[i])
    BY <1>0, ReceiveAll
  <1> DEFINE Meets(s) == \A j \in 1 .. Len(q) : q[j].fresh =>
                            \E k \in 1 .. Len(s.ss) : SocketOf(q[j].conn, s.ss[k])
             Good(s, i) ==
               /\ s \in PassState
               /\ \E n \in 0 .. i : s.processed = start.processed + n /\ s.rx = SubSeq(q, n + 1, i)
               /\ start.stolen => s.stolen
               /\ Meets(start) /\ ~s.stolen => Meets(s) /\ (s.refused => start.refused)
  <1> DEFINE T == {i \in 0 .. Len(q) : Good(st[i], i)}
  <1>3. Good(st[0], 0)
    <2>1. start.processed \in Nat /\ SubSeq(q, 1, 0) = <<>>
      BY SubSeqEmpty DEF PassState
    <2>2. \E n \in 0 .. 0 : start.processed = start.processed + n /\ start.rx = SubSeq(q, n + 1, 0)
      BY <2>1
    <2> HIDE DEF Meets
    <2> QED BY <1>2, <2>2
  <1>4. ASSUME NEW i \in 0 .. Len(q), Good(st[i], i), i < Len(q) PROVE Good(st[i + 1], i + 1)
    <2> DEFINE s == st[i]
               p == q[i + 1]
               r == st[i + 1]
    <2>1. /\ i + 1 \in 1 .. Len(q) /\ i \in Nat /\ p \in Frame_
          /\ r = Receive(s, p)
      BY <1>1, <1>2, <1>4
    <2>2. /\ s.ss \in Seq(Slot) /\ s.rx \in Seq(Frame_) /\ s.tx \in Nat
          /\ s.processed \in Nat /\ start.processed \in Nat
          /\ s.refused \in BOOLEAN /\ s.stolen \in BOOLEAN
      BY <1>4 DEF PassState
    <2>3. PICK n \in 0 .. i : s.processed = start.processed + n /\ s.rx = SubSeq(q, n + 1, i)
      BY <1>4
    <2>4. \A m \in 0 .. i : /\ Len(SubSeq(q, m + 1, i)) = i - m
                            /\ SubSeq(q, m + 1, i + 1) = Append(SubSeq(q, m + 1, i), p)
      <3> TAKE m \in 0 .. i
      <3>1. \A j \in m + 1 .. i + 1 : q[j] \in Frame_
        BY <1>1, <2>1
      <3>2. /\ SubSeq(q, m + 1, i) \in Seq(Frame_)
            /\ Len(SubSeq(q, m + 1, i)) = IF m + 1 <= i THEN i - (m + 1) + 1 ELSE 0
        BY <2>1, <3>1, SubSeqProperties
      <3>3. SubSeq(q, m + 1, i + 1) = SubSeq(q, m + 1, i) \o <<p>>
        <4>1. m + 1 \in 1 .. Len(q) /\ i + 1 \in m + 1 .. Len(q) /\ (i + 1) - 1 = i
          BY <1>1, <2>1
        <4> QED BY <4>1, SubSeqRecursiveSecond
      <3>4. SubSeq(q, m + 1, i) \o <<p>> = Append(SubSeq(q, m + 1, i), p)
        BY <2>1, <3>2
      <3> QED BY <2>1, <3>2, <3>3, <3>4
    <2>5. CASE s.rx # <<>> \/ s.tx >= TxCap
      <3>1. r = [s EXCEPT !.rx = Append(@, p)]
        BY <2>1, <2>5 DEF Receive
      <3> HIDE DEF r, s, p
      <3>2. Append(s.rx, p) \in Seq(Frame_)
        BY <2>1, <2>2, AppendProperties
      <3>3. /\ r \in PassState /\ r.rx = Append(s.rx, p) /\ r.ss = s.ss /\ r.processed = s.processed
            /\ r.refused = s.refused /\ r.stolen = s.stolen
        BY <1>4, <3>1, <3>2 DEF PassState, s
      <3>4. \E m \in 0 .. i + 1 : /\ r.processed = start.processed + m
                                  /\ r.rx = SubSeq(q, m + 1, i + 1)
        <4>1. n \in 0 .. i + 1 /\ r.rx = SubSeq(q, n + 1, i + 1)
          BY <2>1, <2>3, <2>4, <3>3
        <4> QED BY <2>3, <3>3, <4>1
      <3>5. Meets(s) => Meets(r)
        BY <3>3
      <3> HIDE DEF Meets
      <3> QED BY <1>4, <3>3, <3>4, <3>5 DEF r, s
    <2>6. CASE ~(s.rx # <<>> \/ s.tx >= TxCap)
      <3> DEFINE g == Segment(s, p)
      <3>1. r = [g EXCEPT !.processed = @ + 1]
        BY <2>1, <2>6 DEF Receive
      <3>2. /\ g \in PassState /\ g.rx = s.rx /\ g.processed = s.processed
            /\ Len(g.ss) = Len(s.ss)
            /\ s.stolen => g.stolen
            /\ ~g.stolen => \A c \in Conn, k \in 1 .. Len(s.ss) :
                             SocketOf(c, s.ss[k]) => SocketOf(c, g.ss[k])
            /\ (g.refused /\ p.fresh) => s.refused \/ SocketFor(s.ss, p) = 0
            /\ (g.refused /\ ~p.fresh) => s.refused
        BY <1>4, <2>1, SegmentStep
      <3>3. SocketFor(s.ss, p) = 0 /\ p.kind = "syn" =>
                \A k \in 1 .. Len(s.ss) : ~SocketOf(p.conn, s.ss[k])
        BY <2>1, <2>2, SocketFound
      <3>4. p.fresh \in BOOLEAN /\ (p.fresh => p.kind = "syn")
            /\ \A j \in 1 .. Len(q) : q[j].conn \in Conn
        BY <1>1, <2>1 DEF Frame_
      <3>5. n = i
        <4>1. Len(<<>>) = 0
          BY EmptySeq
        <4>2. i - n = 0
          BY <2>3, <2>4, <2>6, <4>1
        <4> QED BY <2>1, <4>2
      <3> HIDE DEF r, s, p, g
      <3>6. /\ r \in PassState /\ r.rx = s.rx /\ r.processed = s.processed + 1 /\ r.ss = g.ss
            /\ r.refused = g.refused /\ r.stolen = g.stolen
        <4>1. r = [ss |-> g.ss, rx |-> g.rx, tx |-> g.tx, processed |-> g.processed + 1,
                   refused |-> g.refused, stolen |-> g.stolen]
          BY <3>1, <3>2 DEF PassState
        <4>2. g.processed + 1 \in Nat
          BY <2>2, <3>2
        <4> QED BY <3>2, <4>1, <4>2 DEF PassState
      <3>7. \E m \in 0 .. i + 1 : /\ r.processed = start.processed + m
                                  /\ r.rx = SubSeq(q, m + 1, i + 1)
        <4>1. SubSeq(q, (i + 1) + 1, i + 1) = <<>>
          BY <2>1, SubSeqEmpty
        <4>2. r.processed = start.processed + (i + 1) /\ r.rx = <<>>
          BY <2>1, <2>2, <2>3, <2>6, <3>5, <3>6
        <4> QED BY <2>1, <4>1, <4>2
      <3>8. Meets(s) /\ ~g.stolen => Meets(r)
        BY <3>2, <3>4, <3>6
      <3>9. Meets(s) /\ p.fresh => SocketFor(s.ss, p) # 0
        BY <2>1, <3>3, <3>4 DEF p
      <3> HIDE DEF Meets
      <3>10. start.stolen => r.stolen
        BY <1>4, <3>2, <3>6 DEF s
      <3>11. Meets(start) /\ ~r.stolen => Meets(r) /\ (r.refused => start.refused)
        <4>1. ASSUME Meets(start), ~r.stolen PROVE Meets(r) /\ (r.refused => start.refused)
          <5>1. ~g.stolen /\ ~s.stolen
            BY <3>2, <3>6, <4>1
          <5>2. Meets(s) /\ (s.refused => start.refused)
            BY <1>4, <4>1, <5>1 DEF s
          <5> QED BY <3>2, <3>4, <3>6, <3>8, <3>9, <5>1, <5>2
        <4> QED BY <4>1
      <3> QED BY <3>6, <3>7, <3>10, <3>11 DEF r
    <2> QED BY <2>5, <2>6
  <1>5. Len(q) \in T
    <2> HIDE DEF Good
    <2>1. 0 \in T
      BY <1>1, <1>3
    <2>2. \A i \in 0 .. Len(q) : i \in T /\ i < Len(q) => i + 1 \in T
      BY <1>1, <1>4
    <2> HIDE DEF T
    <2>3. \A i \in 0 .. Len(q) : i \in T
      BY <1>1, <2>1, <2>2, UpTo
    <2> QED BY <1>1, <2>3
  <1>6. Good(st[Len(q)], Len(q))
    BY <1>5
  <1> HIDE DEF Meets
  <1>7. Meets(start) => (st[Len(q)].refused => start.refused \/ st[Len(q)].stolen)
    BY <1>6
  <1> QED BY <1>2, <1>6, <1>7 DEF Meets

\* A socket that is added is there, and so are those that were.
LEMMA SocketAdded ==
    ASSUME NEW ss \in Seq(Slot), NEW c \in Conn
    PROVE  LET r == AddSocket(ss, c) IN
           /\ r \in Seq(Slot)
           /\ \E k \in 1 .. Len(r) : SocketOf(c, r[k])
           /\ \A d \in Conn : (\E k \in 1 .. Len(ss) : SocketOf(d, ss[k]))
                               => \E k \in 1 .. Len(r) : SocketOf(d, r[k])
  <1> DEFINE new == [listen |-> c, peer |-> c, state |-> "Listen"]
             slots == {i \in 1 .. Len(ss) : ss[i] = Free}
             r == AddSocket(ss, c)
  <1>1. Len(ss) \in Nat
    BY LenProperties
  <1>2. new \in Slot /\ SocketOf(c, new)
    <2>1. new.state # Free.state
      BY DEF Free
    <2>2. new # Free
      BY <2>1
    <2> QED BY <2>2 DEF Slot, SocketOf
  <1> HIDE DEF new
  <1>3. CASE slots = {}
    <2>1. r = Append(ss, new)
      BY <1>3 DEF AddSocket, new
    <2>2. /\ r \in Seq(Slot) /\ Len(r) = Len(ss) + 1 /\ r[Len(ss) + 1] = new
          /\ \A k \in 1 .. Len(ss) : r[k] = ss[k]
      BY <1>1, <1>2, <2>1, AppendProperties
    <2> HIDE DEF r
    <2>3. \E k \in 1 .. Len(r) : SocketOf(c, r[k])
      BY <1>1, <1>2, <2>2
    <2>4. ASSUME NEW d \in Conn, NEW k \in 1 .. Len(ss), SocketOf(d, ss[k])
          PROVE  \E j \in 1 .. Len(r) : SocketOf(d, r[j])
      <3>1. k \in 1 .. Len(r) /\ SocketOf(d, r[k])
        BY <1>1, <2>2, <2>4
      <3> QED BY <3>1
    <2> QED BY <2>2, <2>3, <2>4 DEF r
  <1>4. CASE slots # {}
    <2> DEFINE i == CHOOSE i \in slots : \A j \in slots : i <= j
    <2>1. i \in slots
      <3>1. slots \in SUBSET Nat
        BY <1>1
      <3> HIDE DEF slots
      <3> QED BY <1>4, <3>1, Smallest
    <2>2. r = [ss EXCEPT ![i] = new]
      BY <1>4 DEF AddSocket, new
    <2> HIDE DEF i
    <2>3. /\ r \in Seq(Slot) /\ Len(r) = Len(ss)
          /\ \A k \in 1 .. Len(ss) : r[k] = IF k = i THEN new ELSE ss[k]
      BY <1>2, <2>1, <2>2, ExceptSeq
    <2> HIDE DEF r
    <2>4. \E k \in 1 .. Len(r) : SocketOf(c, r[k])
      BY <1>2, <2>1, <2>3
    <2>5. ASSUME NEW d \in Conn, NEW k \in 1 .. Len(ss), SocketOf(d, ss[k])
          PROVE  \E j \in 1 .. Len(r) : SocketOf(d, r[j])
      <3>1. ss[k] # Free
        BY <2>5 DEF SocketOf
      <3>2. k \in 1 .. Len(r) /\ r[k] = ss[k]
        BY <2>1, <2>3, <3>1
      <3> QED BY <2>5, <3>2
    <2> QED BY <2>3, <2>4, <2>5 DEF r
  <1> QED BY <1>3, <1>4

\* After one event, and after all of them.
LEMMA EventHandled ==
    ASSUME NEW ss \in Seq(Slot), NEW e \in Event_
    PROVE  LET r == HandleEvent(ss, e) IN
           /\ r \in Seq(Slot)
           /\ \A c \in Conn : (e = TcpSocketCreated(c) \/ \E k \in 1 .. Len(ss) : SocketOf(c, ss[k]))
                               => \E k \in 1 .. Len(r) : SocketOf(c, r[k])
  <1>1. \A c : TcpSocketCreated(c) # DeviceReady /\ TcpSocketCreated(c).conn = c
    <2> TAKE c
    <2>1. TcpSocketCreated(c).event # DeviceReady.event /\ TcpSocketCreated(c).conn = c
      BY DEF TcpSocketCreated, DeviceReady
    <2> QED BY <2>1
  <1>2. CASE e = DeviceReady
    BY <1>1, <1>2 DEF HandleEvent
  <1>3. ASSUME NEW c \in Conn, e = TcpSocketCreated(c)
        PROVE  HandleEvent(ss, e) = AddSocket(ss, c) /\ \A d \in Conn : e = TcpSocketCreated(d) => d = c
    BY <1>1, <1>3 DEF HandleEvent
  <1>4. CASE \E c \in Conn : e = TcpSocketCreated(c)
    <2>1. PICK c \in Conn : e = TcpSocketCreated(c)
      BY <1>4
    <2> DEFINE r == AddSocket(ss, c)
    <2>2. /\ r \in Seq(Slot)
          /\ \E k \in 1 .. Len(r) : SocketOf(c, r[k])
          /\ \A d \in Conn : (\E k \in 1 .. Len(ss) : SocketOf(d, ss[k]))
                              => \E k \in 1 .. Len(r) : SocketOf(d, r[k])
      BY SocketAdded
    <2>3. HandleEvent(ss, e) = r /\ \A d \in Conn : e = TcpSocketCreated(d) => d = c
      BY <1>3, <2>1
    <2> HIDE DEF r
    <2> QED BY <2>2, <2>3
  <1> QED BY <1>2, <1>4 DEF Event_

LEMMA EventsHandled ==
    ASSUME NEW ss \in Seq(Slot), NEW q \in Seq(Event_)
    PROVE  LET r == DrainNotifier(ss, q) IN
           /\ r \in Seq(Slot)
           /\ \A c \in Conn : ((\E k \in 1 .. Len(q) : q[k] = TcpSocketCreated(c))
                                  \/ (\E k \in 1 .. Len(ss) : SocketOf(c, ss[k])))
                               => \E k \in 1 .. Len(r) : SocketOf(c, r[k])
  <1>0. Len(q) \in Nat
    BY LenProperties
  <1>1. Len(q) \in Nat /\ \A i \in 1 .. Len(q) : q[i] \in Event_
    BY LenProperties, ElementOfSeq
  <1>2. PICK st : /\ st[0] = ss /\ DrainNotifier(ss, q) = st[Len(q)]
                  /\ \A i \in 1 .. Len(q) : st[i] = HandleEvent(st[i - 1], q[i])
    BY <1>0, HandleAll
  <1> DEFINE Has(s, c) == \E k \in 1 .. Len(s) : SocketOf(c, s[k])
             Good(s, i) ==
               /\ s \in Seq(Slot)
               /\ \A c \in Conn : Has(ss, c) => Has(s, c)
               /\ \A c \in Conn, k \in 1 .. i : q[k] = TcpSocketCreated(c) => Has(s, c)
  <1> DEFINE T == {i \in 0 .. Len(q) : Good(st[i], i)}
  <1>3. Good(st[0], 0)
    BY <1>2
  <1>4. ASSUME NEW i \in 0 .. Len(q), Good(st[i], i), i < Len(q) PROVE Good(st[i + 1], i + 1)
    <2>1. i + 1 \in 1 .. Len(q) /\ q[i + 1] \in Event_ /\ st[i + 1] = HandleEvent(st[i], q[i + 1])
      BY <1>1, <1>2, <1>4
    <2>2. /\ st[i + 1] \in Seq(Slot)
          /\ \A c \in Conn : q[i + 1] = TcpSocketCreated(c) \/ Has(st[i], c) => Has(st[i + 1], c)
      BY <1>4, <2>1, EventHandled
    <2> HIDE DEF Has
    <2>3. \A k \in 1 .. i + 1 : k \in 1 .. i \/ k = i + 1
      BY <1>1
    <2> QED BY <1>4, <2>2, <2>3
  <1>5. Len(q) \in T
    <2> HIDE DEF Good
    <2>1. 0 \in T
      BY <1>1, <1>3
    <2>2. \A i \in 0 .. Len(q) : i \in T /\ i < Len(q) => i + 1 \in T
      BY <1>1, <1>4
    <2> HIDE DEF T
    <2>3. \A i \in 0 .. Len(q) : i \in T
      BY <1>1, <2>1, <2>2, UpTo
    <2> QED BY <1>1, <2>3
  <1>6. Good(st[Len(q)], Len(q))
    BY <1>5
  <1> HIDE DEF Has
  <1>7. \A c \in Conn : (\E k \in 1 .. Len(q) : q[k] = TcpSocketCreated(c)) \/ Has(ss, c)
                          => Has(st[Len(q)], c)
    BY <1>6
  <1> QED BY <1>2, <1>6, <1>7 DEF Has

-----------------------------------------------------------------------------
BatchState == [tracker : [Conn -> {"none", "recent", "expired"}], rx : Seq(Frame_),
               events : Seq(Event_)]

\* Of what poll_packets changes, what the sockets are given.
Given(s) == [tracker |-> s.tracker, rx |-> s.rx, events |-> s.events]

Continues(s, t) == Len(s) <= Len(t) /\ \A i \in 1 .. Len(s) : t[i] = s[i]

LEMMA EventAppended ==
    ASSUME NEW events \in Seq(Event_), NEW e \in Event_
    PROVE  /\ Append(events, e) \in Seq(Event_)
           /\ \E k \in 1 .. Len(Append(events, e)) : Append(events, e)[k] = e
           /\ \A k \in 1 .. Len(events) : /\ k \in 1 .. Len(Append(events, e))
                                          /\ Append(events, e)[k] = events[k]
  <1>1. /\ Append(events, e) \in Seq(Event_) /\ Len(Append(events, e)) = Len(events) + 1
        /\ Append(events, e)[Len(events) + 1] = e /\ Len(events) \in Nat
        /\ \A k \in 1 .. Len(events) : Append(events, e)[k] = events[k]
    BY AppendProperties, LenProperties
  <1> QED BY <1>1

LEMMA FrameTaken ==
    ASSUME NEW s, Given(s) \in BatchState, NEW p \in [conn : Conn, kind : {"syn", "ack", "rst"}]
    PROVE  LET r == TakeFrame(s, p) IN
           /\ Given(r) \in BatchState
           /\ Continues(s.rx, r.rx)
           /\ \A ss : Awaited(s.rx, ss, s.events) => Awaited(r.rx, ss, r.events)
  <1> DEFINE fresh == p.kind = "syn" /\ s.tracker[p.conn] # "recent"
             full == Cardinality({c \in Conn : s.tracker[c] # "none"}) >= SYN_TRACK_MAX
             frame == [conn |-> p.conn, kind |-> p.kind, fresh |-> fresh]
             r == TakeFrame(s, p)
             tracker == [s.tracker EXCEPT ![p.conn] = IF p.kind = "syn" THEN "recent" ELSE "none"]
  <1>1. /\ s.tracker \in [Conn -> {"none", "recent", "expired"}]
        /\ s.rx \in Seq(Frame_) /\ s.events \in Seq(Event_)
        /\ Len(s.rx) \in Nat
    BY LenProperties DEF BatchState, Given
  <1>2. CASE fresh /\ full
    <2>1. r = s
      BY <1>2 DEF TakeFrame
    <2> HIDE DEF r
    <2>2. Continues(s.rx, s.rx)
      BY <1>1 DEF Continues
    <2> QED BY <2>1, <2>2 DEF r
  <1>3. CASE ~(fresh /\ full)
    <2>1. /\ r.tracker = tracker /\ r.rx = Append(s.rx, frame)
          /\ r.events = IF fresh THEN Append(s.events, TcpSocketCreated(p.conn)) ELSE s.events
      BY <1>3 DEF TakeFrame
    <2>2. /\ frame \in Frame_ /\ tracker \in [Conn -> {"none", "recent", "expired"}]
          /\ TcpSocketCreated(p.conn) \in Event_ /\ frame.conn = p.conn /\ frame.fresh = fresh
      BY <1>1 DEF Frame_, Event_
    <2> HIDE DEF r, frame, tracker, fresh, full
    <2>3. /\ r.rx \in Seq(Frame_) /\ Len(r.rx) = Len(s.rx) + 1 /\ r.rx[Len(s.rx) + 1] = frame
          /\ \A k \in 1 .. Len(s.rx) : r.rx[k] = s.rx[k]
      BY <1>1, <2>1, <2>2, AppendProperties
    <2>4. /\ r.events \in Seq(Event_)
          /\ fresh => \E k \in 1 .. Len(r.events) : r.events[k] = TcpSocketCreated(p.conn)
          /\ \A k \in 1 .. Len(s.events) : k \in 1 .. Len(r.events) /\ r.events[k] = s.events[k]
      BY <1>1, <2>1, <2>2, EventAppended
    <2>5. Given(r) \in BatchState
      BY <2>1, <2>2, <2>3, <2>4 DEF Given, BatchState
    <2>6. Continues(s.rx, r.rx)
      BY <1>1, <2>3 DEF Continues
    <2>7. ASSUME NEW ss, Awaited(s.rx, ss, s.events), NEW i \in 1 .. Len(r.rx), r.rx[i].fresh
          PROVE  \/ \E k \in 1 .. Len(ss) : SocketOf(r.rx[i].conn, ss[k])
                 \/ \E k \in 1 .. Len(r.events) : r.events[k] = TcpSocketCreated(r.rx[i].conn)
      <3>1. CASE i = Len(s.rx) + 1
        BY <2>2, <2>3, <2>4, <2>7, <3>1
      <3>2. CASE i # Len(s.rx) + 1
        <4>1. i \in 1 .. Len(s.rx) /\ r.rx[i] = s.rx[i]
          BY <1>1, <2>3, <3>2
        <4> QED BY <2>4, <2>7, <4>1 DEF Awaited
      <3> QED BY <3>1, <3>2
    <2>8. \A ss : Awaited(s.rx, ss, s.events) => Awaited(r.rx, ss, r.events)
      BY <2>7 DEF Awaited
    <2> QED BY <2>5, <2>6, <2>8 DEF r
  <1> QED BY <1>2, <1>3

LEMMA FramesTaken ==
    ASSUME NEW start, Given(start) \in BatchState, NEW batch, Len(batch) \in Nat,
           \A i \in 1 .. Len(batch) : batch[i] \in [conn : Conn, kind : {"syn", "ack", "rst"}]
    PROVE  LET r == TakeFrames(start, batch) IN
           /\ Given(r) \in BatchState
           /\ Continues(start.rx, r.rx)
           /\ \A ss : Awaited(start.rx, ss, start.events) => Awaited(r.rx, ss, r.events)
  <1>2. PICK st : /\ st[0] = start /\ TakeFrames(start, batch) = st[Len(batch)]
                  /\ \A i \in 1 .. Len(batch) : st[i] = TakeFrame(st[i - 1], batch[i])
    BY TakeAll
  <1> DEFINE Good(s) ==
               /\ Given(s) \in BatchState
               /\ Continues(start.rx, s.rx)
               /\ \A ss : Awaited(start.rx, ss, start.events) => Awaited(s.rx, ss, s.events)
  <1> DEFINE T == {i \in 0 .. Len(batch) : Good(st[i])}
  <1>0. \A s : Given(s) \in BatchState => Len(s.rx) \in Nat
    BY LenProperties DEF BatchState, Given
  <1>3. Good(st[0])
    BY <1>0, <1>2 DEF Continues
  <1>4. ASSUME NEW i \in 0 .. Len(batch), Good(st[i]), i < Len(batch) PROVE Good(st[i + 1])
    <2>1. i + 1 \in 1 .. Len(batch) /\ st[i + 1] = TakeFrame(st[i], batch[i + 1])
      BY <1>2, <1>4
    <2>2. /\ Given(st[i + 1]) \in BatchState
          /\ Continues(st[i].rx, st[i + 1].rx)
          /\ \A ss : Awaited(st[i].rx, ss, st[i].events) => Awaited(st[i + 1].rx, ss, st[i + 1].events)
      BY <1>4, <2>1, FrameTaken
    <2>3. Continues(start.rx, st[i + 1].rx)
      BY <1>0, <1>4, <2>2 DEF Continues
    <2> QED BY <1>4, <2>2, <2>3
  <1>5. Len(batch) \in T
    <2> HIDE DEF Good
    <2>1. 0 \in T
      BY <1>3
    <2>2. \A i \in 0 .. Len(batch) : i \in T /\ i < Len(batch) => i + 1 \in T
      BY <1>4
    <2> HIDE DEF T
    <2>3. \A i \in 0 .. Len(batch) : i \in T
      BY <2>1, <2>2, UpTo
    <2> QED BY <2>3
  <1>6. Good(st[Len(batch)])
    BY <1>5
  <1> QED BY <1>2, <1>6

-----------------------------------------------------------------------------
\* poll_packets adds behind what is queued, with an event for every new SYN.
LEMMA PollPacketsStep ==
    ASSUME ListenerInv, PollPackets
    PROVE  /\ ListenerInv' /\ UNCHANGED processed
           /\ Continues(rx_queue, rx_queue')
  <1>0. PICK n \in 1 .. BatchMax : \E batch \in [1 .. n -> Frames], prune \in BOOLEAN :
          LET start == [tracker |-> [c \in Conn |->
                                       IF prune /\ syn_tracker[c] = "expired" THEN "none"
                                       ELSE syn_tracker[c]],
                        rx |-> rx_queue, events |-> notifier, streams |-> emitted]
              st == TakeFrames(start, batch)
          IN  /\ syn_tracker' = st.tracker /\ rx_queue' = st.rx
              /\ notifier' = Notify_(st.events, DeviceReady)
    BY DEF PollPackets
  <1>1. PICK batch \in [1 .. n -> Frames], prune \in BOOLEAN :
          LET start == [tracker |-> [c \in Conn |->
                                       IF prune /\ syn_tracker[c] = "expired" THEN "none"
                                       ELSE syn_tracker[c]],
                        rx |-> rx_queue, events |-> notifier, streams |-> emitted]
              st == TakeFrames(start, batch)
          IN  /\ syn_tracker' = st.tracker /\ rx_queue' = st.rx
              /\ notifier' = Notify_(st.events, DeviceReady)
    BY <1>0
  <1> DEFINE start == [tracker |-> [c \in Conn |->
                                      IF prune /\ syn_tracker[c] = "expired" THEN "none"
                                      ELSE syn_tracker[c]],
                       rx |-> rx_queue, events |-> notifier, streams |-> emitted]
             st == TakeFrames(start, batch)
  <1>2. /\ UNCHANGED <<tx, sockets, processed, refused, stalled, stolen>>
        /\ syn_tracker' = st.tracker /\ rx_queue' = st.rx
        /\ notifier' = Notify_(st.events, DeviceReady)
    BY <1>1 DEF PollPackets
  <1>3. Given(start) \in BatchState /\ start.rx = rx_queue /\ start.events = notifier
    BY DEF ListenerInv, ListenerTypeOK, Given, BatchState
  <1>4. Len(batch) \in Nat
        /\ \A i \in 1 .. Len(batch) : batch[i] \in [conn : Conn, kind : {"syn", "ack", "rst"}]
    <2>1. n \in Nat /\ Frames \subseteq [conn : Conn, kind : {"syn", "ack", "rst"}]
      BY ListenerAssumption
    <2>2. batch \in Seq(Frames)
      BY <2>1, SeqDef
    <2> QED BY <2>1, <2>2, LenProperties, ElementOfSeq
  <1> HIDE DEF start
  <1>5. /\ Given(st) \in BatchState /\ Continues(rx_queue, st.rx)
        /\ Awaited(rx_queue, sockets, notifier) => Awaited(st.rx, sockets, st.events)
    BY <1>3, <1>4, FramesTaken
  <1> HIDE DEF st
  <1>6. /\ st.tracker \in [Conn -> {"none", "recent", "expired"}]
        /\ st.rx \in Seq(Frame_) /\ st.events \in Seq(Event_)
    BY <1>5 DEF Given, BatchState
  <1>7. /\ notifier' \in Seq(Event_)
        /\ \A k \in 1 .. Len(st.events) : /\ k \in 1 .. Len(notifier')
                                         /\ notifier'[k] = st.events[k]
    <2>1. DeviceReady \in Event_
      BY DEF Event_
    <2>2. notifier' = st.events \/ notifier' = Append(st.events, DeviceReady)
      BY <1>2 DEF Notify_
    <2>3. CASE notifier' = st.events
      BY <1>6, <2>3
    <2>4. CASE notifier' = Append(st.events, DeviceReady)
      <3>1. /\ Append(st.events, DeviceReady) \in Seq(Event_)
            /\ \A k \in 1 .. Len(st.events) :
                  /\ k \in 1 .. Len(Append(st.events, DeviceReady))
                  /\ Append(st.events, DeviceReady)[k] = st.events[k]
        BY <1>6, <2>1, EventAppended
      <3> QED BY <2>4, <3>1
    <2> QED BY <2>2, <2>3, <2>4
  <1>8. ListenerTypeOK'
    BY <1>2, <1>6, <1>7 DEF ListenerInv, ListenerTypeOK
  <1>9. Awaited(st.rx, sockets, st.events) => Awaited(rx_queue', sockets', notifier')
    BY <1>2, <1>7 DEF Awaited
  <1>10. SocketsAwaitSyns'
    BY <1>2, <1>5, <1>9 DEF ListenerInv, SocketsAwaitSyns
  <1>11. SynMeetsListener'
    BY <1>2 DEF ListenerInv, SynMeetsListener
  <1> QED BY <1>2, <1>5, <1>8, <1>10, <1>11 DEF ListenerInv

\* poll_sockets processes a first part of the queue, all of it if the channel has room;
\* before, it turns every event into a socket.
LEMMA PollSocketsStep ==
    ASSUME ListenerInv, PollSockets
    PROVE  /\ ListenerInv'
           /\ \E n \in 0 .. Len(rx_queue) : /\ processed' = processed + n
                                            /\ rx_queue' = SubSeq(rx_queue, n + 1, Len(rx_queue))
  <1> DEFINE ss == DrainNotifier(sockets, notifier)
             start == [ss |-> ss, rx |-> <<>>, tx |-> tx,
                       processed |-> processed, refused |-> refused, stolen |-> stolen]
             st == ReceiveFrames(start, rx_queue)
  <1>1. /\ sockets' = [i \in 1 .. Len(st.ss) |-> IF Active(st.ss[i]) THEN st.ss[i] ELSE Free]
        /\ rx_queue' = st.rx /\ tx' = st.tx /\ processed' = st.processed
        /\ refused' = st.refused /\ stolen' = st.stolen
        /\ stalled' = (stalled \/ st.rx # <<>>)
        /\ notifier' = IF st.processed = processed THEN <<>> ELSE <<DeviceReady>>
        /\ UNCHANGED syn_tracker
    BY DEF PollSockets
  <1>2. /\ rx_queue \in Seq(Frame_) /\ tx \in Nat /\ notifier \in Seq(Event_)
        /\ sockets \in Seq(Slot) /\ processed \in Nat
        /\ refused \in BOOLEAN /\ stalled \in BOOLEAN /\ stolen \in BOOLEAN
        /\ syn_tracker \in [Conn -> {"none", "recent", "expired"}]
        /\ \A i \in 1 .. Len(rx_queue) : rx_queue[i].conn \in Conn
    <2>1. rx_queue \in Seq(Frame_)
      BY DEF ListenerInv, ListenerTypeOK
    <2>2. \A i \in 1 .. Len(rx_queue) : rx_queue[i] \in Frame_
      BY <2>1, ElementOfSeq
    <2>3. \A i \in 1 .. Len(rx_queue) : rx_queue[i].conn \in Conn
      BY <2>2 DEF Frame_
    <2> QED BY <2>1, <2>3 DEF ListenerInv, ListenerTypeOK
  <1>3. /\ ss \in Seq(Slot)
        /\ \A c \in Conn : ((\E k \in 1 .. Len(notifier) : notifier[k] = TcpSocketCreated(c))
                               \/ (\E k \in 1 .. Len(sockets) : SocketOf(c, sockets[k])))
                            => \E k \in 1 .. Len(ss) : SocketOf(c, ss[k])
    BY <1>2, EventsHandled
  <1> HIDE DEF ss
  <1>4. start \in PassState /\ start.rx = <<>> /\ start.ss = ss
        /\ start.processed = processed /\ start.refused = refused /\ start.stolen = stolen
    BY <1>2, <1>3, EmptySeq DEF PassState
  <1> HIDE DEF start
  <1>5. /\ st \in PassState
        /\ \E n \in 0 .. Len(rx_queue) : /\ st.processed = processed + n
                                         /\ st.rx = SubSeq(rx_queue, n + 1, Len(rx_queue))
        /\ stolen => st.stolen
        /\ (\A j \in 1 .. Len(rx_queue) : rx_queue[j].fresh =>
              \E k \in 1 .. Len(ss) : SocketOf(rx_queue[j].conn, ss[k]))
             => (st.refused => refused \/ st.stolen)
    BY <1>2, <1>4, PassKeepsFrames
  <1> HIDE DEF st
  <1>6. /\ st.ss \in Seq(Slot) /\ st.rx \in Seq(Frame_) /\ st.tx \in Nat
        /\ st.processed \in Nat /\ st.refused \in BOOLEAN /\ st.stolen \in BOOLEAN
    BY <1>5 DEF PassState
  <1>7. sockets' \in Seq(Slot)
    <2>1. Len(st.ss) \in Nat /\ \A i \in 1 .. Len(st.ss) : st.ss[i] \in Slot
      BY <1>6, LenProperties, ElementOfSeq
    <2>2. Free \in Slot
      BY DEF Slot
    <2>3. sockets' \in [1 .. Len(st.ss) -> Slot]
      BY <1>1, <2>1, <2>2
    <2> QED BY <2>1, <2>3, SeqDef
  <1>8. notifier' \in Seq(Event_)
    BY <1>1 DEF Event_
  <1>9. ListenerTypeOK'
    BY <1>1, <1>2, <1>6, <1>7, <1>8 DEF ListenerTypeOK
  <1>10. SynMeetsListener'
    <2> SUFFICES ASSUME st.refused, ~stalled, ~st.stolen PROVE FALSE
      BY <1>1 DEF SynMeetsListener
    <2>1. ~stolen /\ ~refused
      BY <1>5 DEF ListenerInv, SynMeetsListener
    <2>2. Awaited(rx_queue, sockets, notifier)
      BY <2>1 DEF ListenerInv, SocketsAwaitSyns
    <2>3. \A j \in 1 .. Len(rx_queue) : rx_queue[j].fresh =>
             \E k \in 1 .. Len(ss) : SocketOf(rx_queue[j].conn, ss[k])
      BY <1>2, <1>3, <2>2 DEF Awaited
    <2> QED BY <1>5, <2>1, <2>3
  <1>11. SocketsAwaitSyns'
    <2> SUFFICES ASSUME st.rx = <<>> PROVE Awaited(rx_queue', sockets', notifier')
      BY <1>1 DEF SocketsAwaitSyns
    <2> QED BY <1>1, EmptySeq DEF Awaited
  <1> QED BY <1>1, <1>5, <1>9, <1>10, <1>11 DEF ListenerInv

LEMMA NotifierEventStep ==
    ASSUME ListenerInv, NotifierEvent
    PROVE  ListenerInv' /\ UNCHANGED <<rx_queue, processed>>
  <1> DEFINE e == Head(notifier)
             ss == HandleEvent(sockets, e)
  <1>1. /\ notifier # <<>> /\ notifier' = Tail(notifier) /\ sockets' = ss
        /\ UNCHANGED <<rx_queue, tx, syn_tracker, processed, refused, stalled, stolen>>
    BY DEF NotifierEvent
  <1>2. /\ rx_queue \in Seq(Frame_) /\ notifier \in Seq(Event_) /\ sockets \in Seq(Slot)
    BY DEF ListenerInv, ListenerTypeOK
  <1>3. /\ e \in Event_ /\ e = notifier[1] /\ Tail(notifier) \in Seq(Event_)
        /\ Len(Tail(notifier)) = Len(notifier) - 1 /\ Len(notifier) \in Nat
        /\ \A i \in 1 .. Len(Tail(notifier)) : Tail(notifier)[i] = notifier[i + 1]
    BY <1>1, <1>2, HeadTailProperties, LenProperties
  <1>4. /\ ss \in Seq(Slot)
        /\ \A c \in Conn : (e = TcpSocketCreated(c) \/ \E k \in 1 .. Len(sockets) : SocketOf(c, sockets[k]))
                            => \E k \in 1 .. Len(ss) : SocketOf(c, ss[k])
    BY <1>2, <1>3, EventHandled
  <1>5. \A k \in 1 .. Len(notifier) : notifier[k] = e \/
             (k - 1 \in 1 .. Len(Tail(notifier)) /\ Tail(notifier)[k - 1] = notifier[k])
    BY <1>3
  <1> HIDE DEF e, ss
  <1>6. ListenerTypeOK'
    BY <1>1, <1>3, <1>4 DEF ListenerInv, ListenerTypeOK
  <1>7. Awaited(rx_queue, sockets, notifier) => Awaited(rx_queue, ss, Tail(notifier))
    <2> SUFFICES ASSUME Awaited(rx_queue, sockets, notifier),
                        NEW i \in 1 .. Len(rx_queue), rx_queue[i].fresh
                 PROVE  \/ \E k \in 1 .. Len(ss) : SocketOf(rx_queue[i].conn, ss[k])
                        \/ \E k \in 1 .. Len(Tail(notifier)) :
                               Tail(notifier)[k] = TcpSocketCreated(rx_queue[i].conn)
      BY DEF Awaited
    <2> DEFINE c == rx_queue[i].conn
    <2>1. c \in Conn
      <3>1. rx_queue[i] \in Frame_
        BY <1>2, ElementOfSeq
      <3> QED BY <3>1 DEF Frame_
    <2> HIDE DEF c
    <2>2. CASE \E k \in 1 .. Len(sockets) : SocketOf(c, sockets[k])
      BY <1>4, <2>1, <2>2 DEF c
    <2>3. CASE \E k \in 1 .. Len(notifier) : notifier[k] = TcpSocketCreated(c)
      <3>1. PICK k \in 1 .. Len(notifier) : notifier[k] = TcpSocketCreated(c)
        BY <2>3
      <3>2. CASE notifier[k] = e
        BY <1>4, <2>1, <3>1, <3>2 DEF c
      <3>3. CASE k - 1 \in 1 .. Len(Tail(notifier)) /\ Tail(notifier)[k - 1] = notifier[k]
        BY <3>1, <3>3 DEF c
      <3> QED BY <1>5, <3>2, <3>3
    <2> QED BY <2>2, <2>3 DEF Awaited, c
  <1>8. SocketsAwaitSyns'
    BY <1>1, <1>7 DEF ListenerInv, SocketsAwaitSyns
  <1>9. SynMeetsListener'
    BY <1>1 DEF ListenerInv, SynMeetsListener
  <1> QED BY <1>1, <1>6, <1>8, <1>9 DEF ListenerInv

LEMMA OtherSteps ==
    ASSUME ListenerInv,
           TtlPasses \/ PollDelayEnds \/ TxTaken \/ AcceptorNext \/ UNCHANGED listenerVars
    PROVE  ListenerInv' /\ UNCHANGED <<rx_queue, processed>>
  <1>1. /\ UNCHANGED <<rx_queue, notifier, sockets, processed, refused, stalled, stolen>>
        /\ syn_tracker' \in [Conn -> {"none", "recent", "expired"}] /\ tx' \in Nat
    <2> USE DEF ListenerInv, ListenerTypeOK
    <2>1. CASE TtlPasses
      BY <2>1 DEF TtlPasses
    <2>2. CASE PollDelayEnds
      BY <2>2 DEF PollDelayEnds
    <2>3. CASE TxTaken
      BY <2>3 DEF TxTaken
    <2>4. CASE AcceptorNext
      BY <2>4 DEF AcceptorNext, WakeAcceptor, PollNext, RegisterWaker, Recheck, AcceptorWoken,
         TryRecv, Rest
    <2>5. CASE UNCHANGED listenerVars
      BY <2>5 DEF listenerVars
    <2> QED BY <2>1, <2>2, <2>3, <2>4, <2>5
  <1>2. ListenerTypeOK'
    BY <1>1 DEF ListenerInv, ListenerTypeOK
  <1>3. SynMeetsListener' /\ SocketsAwaitSyns'
    BY <1>1 DEF ListenerInv, SynMeetsListener, SocketsAwaitSyns
  <1> QED BY <1>1, <1>2, <1>3 DEF ListenerInv

LEMMA ListenerInvStep ==
    ListenerInv /\ [PacketsNext \/ SocketsNext \/ AcceptorNext]_listenerVars => ListenerInv'
  BY PollPacketsStep, PollSocketsStep, NotifierEventStep, OtherSteps DEF PacketsNext, SocketsNext

LEMMA ListenerInvInit == ListenerInit => ListenerInv
  <1> SUFFICES ASSUME ListenerInit PROVE ListenerInv
    OBVIOUS
  <1>1. /\ \A S : <<>> \in Seq(S)
        /\ Len(<<>>) = 0
    BY EmptySeq
  <1>2. ListenerTypeOK
    BY <1>1 DEF ListenerInit, ListenerTypeOK
  <1>3. SocketsAwaitSyns
    BY <1>1 DEF ListenerInit, SocketsAwaitSyns, Awaited
  <1>4. SynMeetsListener
    BY DEF ListenerInit, SynMeetsListener
  <1> QED BY <1>2, <1>3, <1>4 DEF ListenerInv

LEMMA ListenerInvariant == Spec => []ListenerInv
  <1>1. Init => ListenerInv
    BY ListenerInvInit DEF Init
  <1> QED BY <1>1, ListenerInvStep, PartSteps, PTL DEF Spec

\* poll_sockets adds the sockets of all pending events before it polls, so a SYN for which
\* poll_packets made a socket is not refused: only after the transmit channel was full
\* can an inactive socket be dropped ahead of its SYN, or if another client's SYN took it.
THEOREM SynsMeetListeners == Spec => []SynMeetsListener
  <1>1. ListenerInv => SynMeetsListener
    BY DEF ListenerInv
  <1> QED BY <1>1, ListenerInvariant, PTL

LEMMA FramesKept ==
    ASSUME ListenerInv, PacketsNext \/ SocketsNext \/ AcceptorNext
    PROVE  LET n == processed' - processed
           IN  n <= Len(rx_queue) /\ IsPrefix(SubSeq(rx_queue, n + 1, Len(rx_queue)), rx_queue')
  <1>1. /\ rx_queue \in Seq(Frame_) /\ processed \in Nat /\ Len(rx_queue) \in Nat
        /\ rx_queue' \in Seq(Frame_) /\ Len(rx_queue') \in Nat
    <2>1. ListenerInv'
      BY ListenerInvStep
    <2> QED BY <2>1, LenProperties DEF ListenerInv, ListenerTypeOK
  <1>2. ASSUME UNCHANGED processed, Continues(rx_queue, rx_queue')
        PROVE  LET n == processed' - processed
               IN  n <= Len(rx_queue) /\ IsPrefix(SubSeq(rx_queue, n + 1, Len(rx_queue)), rx_queue')
    <2>1. processed' - processed = 0 /\ SubSeq(rx_queue, 1, Len(rx_queue)) = rx_queue
      BY <1>1, <1>2, SubSeqFull
    <2>2. SubSeq(rx_queue', 1, Len(rx_queue)) = rx_queue
      <3>1. \A i \in 1 .. Len(rx_queue) : rx_queue'[i] \in Frame_ /\ rx_queue'[i] = rx_queue[i]
        BY <1>1, <1>2, ElementOfSeq DEF Continues
      <3>2. /\ SubSeq(rx_queue', 1, Len(rx_queue)) \in Seq(Frame_)
            /\ Len(SubSeq(rx_queue', 1, Len(rx_queue))) = Len(rx_queue)
            /\ \A i \in 1 .. Len(rx_queue) : SubSeq(rx_queue', 1, Len(rx_queue))[i] = rx_queue'[i]
        BY <1>1, <3>1, SubSeqProperties
      <3> QED BY <1>1, <3>1, <3>2, SeqEqual
    <2> QED BY <1>1, <1>2, <2>1, <2>2 DEF IsPrefix, Continues
  <1>3. ASSUME NEW n \in 0 .. Len(rx_queue), processed' = processed + n,
               rx_queue' = SubSeq(rx_queue, n + 1, Len(rx_queue))
        PROVE  LET m == processed' - processed
               IN  m <= Len(rx_queue) /\ IsPrefix(SubSeq(rx_queue, m + 1, Len(rx_queue)), rx_queue')
    <2>1. processed' - processed = n /\ IsPrefix(rx_queue', rx_queue')
      BY <1>1, <1>3 DEF IsPrefix
    <2> QED BY <1>1, <1>3, <2>1
  <1>4. CASE PollPackets
    BY <1>2, <1>4, PollPacketsStep
  <1>5. CASE PollSockets
    BY <1>3, <1>5, PollSocketsStep
  <1>6. CASE TtlPasses \/ NotifierEvent \/ PollDelayEnds \/ TxTaken \/ AcceptorNext
    <2>1. UNCHANGED <<rx_queue, processed>>
      BY <1>6, NotifierEventStep, OtherSteps
    <2>2. Continues(rx_queue, rx_queue')
      BY <1>1, <2>1 DEF Continues
    <2> QED BY <1>2, <2>1, <2>2
  <1> QED BY <1>4, <1>5, <1>6 DEF PacketsNext, SocketsNext

\* NetstackDevice::receive reserves its place in the transmit channel before it takes a
\* frame: whatever the channel holds, frames are processed once and in order or wait.
THEOREM FramesAreKept == Spec => DeviceKeepsFrames
  <1>1. ListenerInv /\ [Next]_vars =>
          [LET n == processed' - processed
           IN  n <= Len(rx_queue) /\ IsPrefix(SubSeq(rx_queue, n + 1, Len(rx_queue)), rx_queue')
          ]_listenerVars
    BY FramesKept, PartSteps
  <1> QED BY <1>1, ListenerInvariant, PTL DEF Spec, DeviceKeepsFrames
=============================================================================
