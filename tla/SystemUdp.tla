----------------------------- MODULE SystemUdp -----------------------------
(***************************************************************************)
(* UDP and DNS in the system stack: dispatch_udp as the TUN read loop runs *)
(* it, the session table with its GC and network reset, the reply task of  *)
(* each session, the connections of tcp_dns_accept_loop, and the handler   *)
(* bridge (handler.rs) behind the channels udp_tx and dns_tx.              *)
(*                                                                         *)
(* A session is its reply channel: a queue, its senders (the table, every  *)
(* packet on its way to the handler, every clone the application keeps)    *)
(* and the task that writes its replies to the TUN.  The session lock is   *)
(* never held across an await, so what happens under it is one step.       *)
(***************************************************************************)
EXTENDS Integers, Sequences

CONSTANTS
    Flow,        \* the (src, dst) pairs of the datagrams that reach dispatch_udp
    DnsFlow,     \* those to port 53, with dns_hijack on
    DnsConn,     \* connections accepted by tcp_dns_accept_loop
    Chan,        \* reply channels: bounds the sessions alive at a time
    ReplyCap,    \* capacities of the channels: reply_tx, udp_tx, dns_tx
    UdpTxCap,
    DnsTxCap,
    Timeout,     \* udp_timeout
    MaxTime,     \* bound on the clock
    None

ASSUME UdpAssumption ==
    /\ DnsFlow \subseteq Flow
    /\ {ReplyCap, UdpTxCap, DnsTxCap} \subseteq Nat \ {0}
    /\ Timeout \in Nat /\ MaxTime \in Nat
    /\ None \notin Flow \cup Chan \cup DnsConn
    /\ "tun" \notin DnsConn

VARIABLES
    now,
    sessions,    \* [Flow -> channel or None], the table udp_sessions
    last_seen,   \* [Flow -> time]
    live,        \* channels whose reply task runs
    client,      \* [Chan -> flow whose client the reply task writes to]
    replies,     \* [Chan -> replies queued]
    pc,          \* where the TUN loop is in dispatch_udp
    flow, chan,  \* its datagram's flow and session
    udp_tx,      \* Seq of [flow, chan]
    udp_rx,      \* the receiver of udp_tx: "open", or "closed" once it is gone
    call,        \* where the handler's new_packet is
    session,     \* the session of its packet
    kept,        \* channels of which the application has kept a session
    conn,        \* [DnsConn -> where the connection is in its loop]
    dns_tx,      \* Seq of the askers whose query is queued
    asked,       \* the askers whose query the handler has
    reply_rx,    \* [Asker -> what the oneshot holds]
    dns_rx       \* the receiver of dns_tx, "closed" also where dns_tx is None

Asker == {"tun"} \cup DnsConn

table   == <<sessions, last_seen>>
channel == <<live, client, replies>>
tun     == <<pc, flow, chan>>
bridge  == <<call, session>>
app     == <<bridge, kept, udp_rx>>
dns     == <<conn, dns_tx, asked, reply_rx, dns_rx>>
vars    == <<now, table, channel, tun, udp_tx, app, dns>>

TypeOK ==
    /\ now \in Nat
    /\ sessions \in [Flow -> Chan \cup {None}]
    /\ last_seen \in [Flow -> Nat]
    /\ live \subseteq Chan
    /\ client \in [Chan -> Flow \cup {None}]
    /\ replies \in [Chan -> 0 .. ReplyCap]
    /\ pc \in {"idle", "dns_send", "dns_wait", "lookup", "udp_send"}
    /\ flow \in Flow \cup {None} /\ chan \in Chan \cup {None}
    /\ udp_tx \in Seq([flow : Flow, chan : Chan]) /\ Len(udp_tx) <= UdpTxCap
    /\ udp_rx \in {"open", "closed"}
    /\ call \in {"idle", "begin", "send", "return"} /\ session \in Chan \cup {None}
    /\ kept \subseteq Chan
    /\ conn \in [DnsConn -> {"read", "send", "wait", "closed"}]
    /\ dns_tx \in Seq(Asker) /\ Len(dns_tx) <= DnsTxCap
    /\ asked \subseteq Asker
    /\ reply_rx \in [Asker -> {"empty", "response", "dropped"}]
    /\ dns_rx \in {"open", "closed"}

Init ==
    /\ now = 0
    /\ sessions = [f \in Flow |-> None]
    /\ last_seen = [f \in Flow |-> 0]
    /\ live = {}
    /\ client = [c \in Chan |-> None]
    /\ replies = [c \in Chan |-> 0]
    /\ pc = "idle" /\ flow = None /\ chan = None
    /\ udp_tx = <<>>
    /\ udp_rx = "open"
    /\ call = "idle" /\ session = None
    /\ kept = {}
    /\ conn = [d \in DnsConn |-> "read"]
    /\ dns_tx = <<>>
    /\ asked = {}
    /\ reply_rx = [a \in Asker |-> "empty"]
    /\ dns_rx \in {"open", "closed"}

\* Somebody can still send on channel c.
HasSender(c) ==
    \/ \E f \in Flow : sessions[f] = c
    \/ chan = c
    \/ \E i \in DOMAIN udp_tx : udp_tx[i].chan = c
    \/ session = c
    \/ c \in kept

-----------------------------------------------------------------------------
(* The queries, from the UDP path ("tun") and from the TCP connections.     *)

\* tx.send(query) of asker a, waiting for room.
Enqueue(a) ==
    /\ dns_rx = "open" /\ Len(dns_tx) < DnsTxCap
    /\ dns_tx' = Append(dns_tx, a)
    /\ reply_rx' = [reply_rx EXCEPT ![a] = "empty"]

\* reply_rx.await of asker a returns r.
Receive(a, r) ==
    /\ reply_rx[a] = r
    /\ reply_rx' = [reply_rx EXCEPT ![a] = "empty"]

-----------------------------------------------------------------------------
(* dispatch_udp                                                             *)

\* dispatch_udp returns.
Finish == pc' = "idle" /\ flow' = None /\ chan' = None

Datagram(f) ==
    /\ pc = "idle"
    /\ live # Chan
    /\ pc' = IF f \in DnsFlow THEN "dns_send" ELSE "lookup"
    /\ flow' = f
    /\ UNCHANGED <<now, table, channel, chan, udp_tx, app, dns>>

DnsSend ==
    /\ pc = "dns_send"
    /\ \/ /\ Enqueue("tun")
          /\ pc' = "dns_wait"
       \/ /\ dns_rx = "closed"               \* fall back to the session path
          /\ pc' = "lookup"
          /\ UNCHANGED <<dns_tx, reply_rx>>
    /\ UNCHANGED <<now, table, channel, flow, chan, udp_tx, app, conn, asked, dns_rx>>

\* The return after the answer left out.
DnsAnsweredFallThrough ==
    /\ pc = "dns_wait"
    /\ Receive("tun", "response") \/ Receive("tun", "dropped")
    /\ pc' = "lookup"
    /\ UNCHANGED <<now, table, channel, flow, chan, udp_tx, app, conn, dns_tx, asked,
                   dns_rx>>

\* The answer is written to the TUN, or the query was given up: both end here.
DnsAnswered ==
    /\ pc = "dns_wait"
    /\ Receive("tun", "response") \/ Receive("tun", "dropped")
    /\ Finish
    /\ UNCHANGED <<now, table, channel, udp_tx, app, conn, dns_tx, asked, dns_rx>>

\* A table that is not keyed by the source of the datagram.
SessionOfAnyClient(f) ==
    IF \E g \in Flow : sessions[g] # None
    THEN sessions[CHOOSE g \in Flow : sessions[g] # None] ELSE None

SessionOf(f) == sessions[f]

\* The session of the flow, made with its channel and reply task if need be.
Lookup ==
    LET f == flow IN
    /\ pc = "lookup"
    /\ \/ /\ SessionOf(f) # None
          /\ chan' = SessionOf(f)
          /\ UNCHANGED <<sessions, channel>>
       \/ /\ SessionOf(f) = None
          /\ \E c \in Chan \ live :
              /\ sessions' = [sessions EXCEPT ![f] = c]
              /\ live' = live \cup {c}
              /\ client' = [client EXCEPT ![c] = f]
              /\ chan' = c
          /\ UNCHANGED replies
    /\ pc' = "udp_send"
    /\ last_seen' = [last_seen EXCEPT ![f] = now]
    /\ UNCHANGED <<now, flow, udp_tx, app, dns>>

UdpSend ==
    /\ pc = "udp_send"
    /\ \/ /\ udp_rx = "open" /\ Len(udp_tx) < UdpTxCap
          /\ udp_tx' = Append(udp_tx, [flow |-> flow, chan |-> chan])
       \/ /\ udp_rx = "closed"               \* the packet is dropped
          /\ UNCHANGED udp_tx
    /\ Finish
    /\ UNCHANGED <<now, table, channel, app, dns>>

-----------------------------------------------------------------------------
(* The reply task of a session.                                             *)

\* A task that ends when a reply cannot be built.
ReplyTaskStops(c) ==
    /\ c \in live /\ replies[c] > 0
    /\ replies' = [replies EXCEPT ![c] = @ - 1]
    /\ live' \in {live, live \ {c}}
    /\ UNCHANGED <<now, table, client, tun, udp_tx, app, dns>>

\* A reply goes to the client, within the MTU, in fragments or as an ICMP
\* notice; one that cannot be built is skipped.
ReplyTask(c) ==
    /\ c \in live /\ replies[c] > 0
    /\ replies' = [replies EXCEPT ![c] = @ - 1]
    /\ UNCHANGED <<now, table, live, client, tun, udp_tx, app, dns>>

\* recv returns None once the queue is empty and nobody can send.
ReplyTaskEnds(c) ==
    /\ c \in live /\ replies[c] = 0 /\ ~HasSender(c)
    /\ live' = live \ {c}
    /\ client' = [client EXCEPT ![c] = None]
    /\ UNCHANGED <<now, table, replies, tun, udp_tx, app, dns>>

-----------------------------------------------------------------------------
(* GC and network reset.                                                    *)

Forget(S) ==
    /\ sessions' = [f \in Flow |-> IF f \in S THEN None ELSE sessions[f]]
    /\ last_seen' = [f \in Flow |-> IF f \in S THEN 0 ELSE last_seen[f]]
    /\ UNCHANGED <<now, channel, tun, udp_tx, app, dns>>

Gc == Forget({f \in Flow : now - last_seen[f] >= Timeout})

Reset == Forget(Flow)

Tick ==
    /\ now < MaxTime
    /\ now' = now + 1
    /\ UNCHANGED <<table, channel, tun, udp_tx, app, dns>>

-----------------------------------------------------------------------------
(* tcp_dns_accept_loop: the task of one connection.                         *)

\* Two length octets and the message, or the end of the connection.
ConnRead(d) ==
    /\ conn[d] = "read"
    /\ conn' = [conn EXCEPT ![d] = "send"] \/ conn' = [conn EXCEPT ![d] = "closed"]
    /\ UNCHANGED <<now, table, channel, tun, udp_tx, app, dns_tx, asked, reply_rx, dns_rx>>

ConnSend(d) ==
    /\ conn[d] = "send"
    /\ \/ Enqueue(d) /\ conn' = [conn EXCEPT ![d] = "wait"]
       \/ dns_rx = "closed" /\ conn' = [conn EXCEPT ![d] = "closed"] /\ UNCHANGED <<dns_tx, reply_rx>>
    /\ UNCHANGED <<now, table, channel, tun, udp_tx, app, asked, dns_rx>>

\* The response is written, which fails if the client is gone; without a
\* response the connection is closed.
ConnAnswered(d) ==
    /\ conn[d] = "wait"
    /\ \/ Receive(d, "response") /\ \E l \in {"read", "closed"} : conn' = [conn EXCEPT ![d] = l]
       \/ Receive(d, "dropped") /\ conn' = [conn EXCEPT ![d] = "closed"]
    /\ UNCHANGED <<now, table, channel, tun, udp_tx, app, dns_tx, asked, dns_rx>>

\* Another client connects.
ConnAccept(d) ==
    /\ conn[d] = "closed"
    /\ conn' = [conn EXCEPT ![d] = "read"]
    /\ UNCHANGED <<now, table, channel, tun, udp_tx, app, dns_tx, asked, reply_rx, dns_rx>>

-----------------------------------------------------------------------------
(* spawn_handler_bridge, and the application behind it (external).          *)

BridgeUdp ==
    /\ call = "idle" /\ udp_tx # <<>>
    /\ call' = "begin" /\ session' = Head(udp_tx).chan
    /\ udp_tx' = Tail(udp_tx)
    /\ UNCHANGED <<now, table, channel, tun, kept, udp_rx, dns>>

\* new_packet decides to reply before it returns, or not.
NewPacket ==
    /\ call = "begin"
    /\ call' \in {"send", "return"}
    /\ UNCHANGED <<now, table, channel, tun, udp_tx, session, kept, udp_rx, dns>>

\* reply_tx.send, waiting for room.
SendReply(c) ==
    /\ replies[c] < ReplyCap
    /\ replies' = [replies EXCEPT ![c] = @ + 1]
    /\ UNCHANGED <<now, table, live, client, tun, udp_tx, kept, udp_rx, dns>>

PacketReply ==
    /\ call = "send"
    /\ SendReply(session)
    /\ call' = "return"
    /\ UNCHANGED session

\* new_packet returns; the application keeps the session or not.
PacketDone ==
    /\ call = "return"
    /\ kept' \in {kept, kept \cup {session}}
    /\ call' = "idle" /\ session' = None
    /\ UNCHANGED <<now, table, channel, tun, udp_tx, udp_rx, dns>>

\* A late reply, and the end of a kept session.
LateReply(c) ==
    /\ c \in kept
    /\ SendReply(c)
    /\ UNCHANGED bridge

DropSession(c) ==
    /\ c \in kept
    /\ kept' = kept \ {c}
    /\ UNCHANGED <<now, table, channel, tun, udp_tx, bridge, udp_rx, dns>>

\* A query the handler declines and nobody drops.
NewDnsQueryKept ==
    /\ dns_tx # <<>>
    /\ dns_tx' = Tail(dns_tx)
    /\ \/ asked' = asked \cup {Head(dns_tx)}
       \/ UNCHANGED asked
    /\ UNCHANGED <<now, table, channel, tun, udp_tx, app, conn, reply_rx, dns_rx>>

\* new_dns_query takes the query, or declines it: then the bridge drops it.
NewDnsQuery ==
    /\ dns_tx # <<>>
    /\ dns_tx' = Tail(dns_tx)
    /\ \/ /\ asked' = asked \cup {Head(dns_tx)}
          /\ UNCHANGED reply_rx
       \/ /\ reply_rx' = [reply_rx EXCEPT ![Head(dns_tx)] = "dropped"]
          /\ UNCHANGED asked
    /\ UNCHANGED <<now, table, channel, tun, udp_tx, app, conn, dns_rx>>

\* The handler answers a query it has taken, or gives it up.
Answer(a) ==
    /\ a \in asked
    /\ asked' = asked \ {a}
    /\ \E r \in {"response", "dropped"} : reply_rx' = [reply_rx EXCEPT ![a] = r]
    /\ UNCHANGED <<now, table, channel, tun, udp_tx, app, conn, dns_tx, dns_rx>>

\* The receiver of dns_tx goes, and the queued queries with it.
DnsClose ==
    /\ dns_rx = "open"
    /\ dns_rx' = "closed"
    /\ dns_tx' = <<>>
    /\ reply_rx' = [a \in Asker |-> IF \E i \in DOMAIN dns_tx : dns_tx[i] = a
                                    THEN "dropped" ELSE reply_rx[a]]
    /\ UNCHANGED <<now, table, channel, tun, udp_tx, app, conn, asked>>

\* The receiver of udp_tx goes, and the queued packets with their sessions.
UdpClose ==
    /\ udp_rx = "open"
    /\ udp_rx' = "closed"
    /\ udp_tx' = <<>>
    /\ UNCHANGED <<now, table, channel, tun, bridge, kept, dns>>

-----------------------------------------------------------------------------

TunLoop == DnsSend \/ DnsAnswered \/ Lookup \/ UdpSend

Handler == BridgeUdp \/ NewPacket \/ PacketReply \/ PacketDone

Next ==
    \/ \E f \in Flow : Datagram(f)
    \/ TunLoop
    \/ \E c \in Chan : ReplyTask(c) \/ ReplyTaskEnds(c) \/ LateReply(c) \/ DropSession(c)
    \/ Gc \/ Reset \/ Tick
    \/ \E d \in DnsConn : ConnRead(d) \/ ConnSend(d) \/ ConnAnswered(d) \/ ConnAccept(d)
    \/ Handler
    \/ NewDnsQuery
    \/ \E a \in Asker : Answer(a)
    \/ DnsClose \/ UdpClose

Spec == Init /\ [][Next]_vars

\* tokio runs every ready task and serves the senders of a full channel in
\* turn; the handler returns from every call and answers or drops every query.
Fairness ==
    /\ WF_vars(Lookup) /\ WF_vars(DnsAnswered) /\ SF_vars(DnsSend) /\ SF_vars(UdpSend)
    /\ \A c \in Chan : WF_vars(ReplyTask(c)) /\ WF_vars(ReplyTaskEnds(c))
    /\ WF_vars(BridgeUdp) /\ WF_vars(NewPacket) /\ SF_vars(PacketReply)
    /\ WF_vars(PacketDone) /\ WF_vars(NewDnsQuery)
    /\ \A d \in DnsConn : WF_vars(ConnAnswered(d))
    /\ \A a \in Asker : WF_vars(Answer(a))

FairSpec == Spec /\ Fairness

-----------------------------------------------------------------------------
(* What the theorems need beside the properties.                            *)

\* The TUN loop and the bridge know the flow and the session they work on.
HandInv ==
    /\ pc # "idle" => flow \in Flow
    /\ pc = "udp_send" => chan \in Chan /\ client[chan] = flow
    /\ call # "idle" => session \in Chan

\* A hijacked query takes the session path only when the resolver is gone.
DnsHandInv == dns_rx = "open" /\ pc \in {"lookup", "udp_send"} => flow \notin DnsFlow

-----------------------------------------------------------------------------
(* Properties                                                               *)

\* Where a reply can still be sent or waits to be written there is a task that
\* writes it: neither GC nor a reset takes the task from a session in use.
SenderHasTask == \A c \in Chan : HasSender(c) \/ replies[c] > 0 => c \in live

\* The session that goes with a packet leads to the client that sent it, also
\* when the flow has lost its table entry and got another one on the way.
SessionAnswersItsClient ==
    /\ \A f \in Flow : sessions[f] # None => client[sessions[f]] = f
    /\ \A i \in DOMAIN udp_tx : client[udp_tx[i].chan] = udp_tx[i].flow

UdpInv == TypeOK /\ HandInv /\ SenderHasTask /\ SessionAnswersItsClient

\* While the resolver takes queries no hijacked query gets a session or reaches
\* the handler as an ordinary packet.
DnsBypassesSessions ==
    dns_rx = "open" =>
        /\ \A f \in DnsFlow : sessions[f] = None
        /\ \A i \in DOMAIN udp_tx : udp_tx[i].flow \notin DnsFlow

\* A query is in one place at a time, and none is forgotten: whoever waits has
\* it in the queue, with the handler, or answered, and never two of these, so
\* no answer can reach a later query of the same asker.
QueryInOnePlace ==
    \A a \in Asker :
        LET waits  == IF a = "tun" THEN pc = "dns_wait" ELSE conn[a] = "wait"
            queued == {i \in DOMAIN dns_tx : dns_tx[i] = a}
            places == {q \in {"queued", "asked", "done"} :
                         \/ q = "queued" /\ queued # {}
                         \/ q = "asked" /\ a \in asked
                         \/ q = "done" /\ reply_rx[a] # "empty"}
        IN  /\ \A i, j \in queued : i = j
            /\ IF waits THEN \E q \in places : places = {q} ELSE places = {}

\* The TUN loop, which sends and waits inline, is held up only as long as the
\* handler is: full channels on all sides never make a circle.
TunLoopReturns == pc # "idle" ~> pc = "idle"
=============================================================================
