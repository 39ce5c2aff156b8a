--------------------------- MODULE NetstackListener ---------------------------
(***************************************************************************)
(* The TCP side of the user-space stack (netstack/tcp_listener.rs,         *)
(* device.rs).  One task runs poll_packets, which makes a listening socket *)
(* for every new SYN and hands the frames to the device, and poll_sockets, *)
(* which adds the sockets to smoltcp and polls it.  Between two awaits of  *)
(* the one the other does not run.  The acceptor (TcpListener::poll_next)  *)
(* is another task.  What sockets do after the handshake is                *)
(* NetstackStream's; smoltcp is external.                                  *)
(***************************************************************************)
EXTENDS Naturals, Sequences, SequencesExt, Loops

CONSTANTS
    Conn,                \* connections: [src, dst]
    Frames,              \* the frames tried: [conn, kind], the kind is syn, ack or rst
    BatchMax,            \* 32 packets of one recv_many
    TxCap,               \* 4096 packets of the transmit channel
    SYN_TRACK_MAX,
    MaxFrames            \* bound: frames that arrive

ASSUME ListenerAssumption == BatchMax \in Nat \ {0} /\ TxCap \in Nat \ {0}
                             /\ SYN_TRACK_MAX \in Nat /\ MaxFrames \in Nat
                             /\ Frames \subseteq [conn : Conn, kind : {"syn", "ack", "rst"}]

VARIABLES
    rx_queue,            \* frames for smoltcp; fresh: a socket was made for it
    tx,                  \* packets in the transmit channel
    notifier,            \* TcpSocketCreated and DeviceReady events
    sockets,             \* slots: [listen, peer, state], or Free
    syn_tracker,         \* connection -> none, recent, expired
    next_poll,           \* "none" or "some" delay
    emitted,             \* streams the acceptor has yet to take
    acceptor, waker, wakeDue,
    frames, processed, refused, stalled, stolen  \* history

listenerVars == <<rx_queue, tx, notifier, sockets, syn_tracker, next_poll, emitted,
                  acceptor, waker, wakeDue, frames, processed, refused,
                  stalled, stolen>>
acceptorVars == <<acceptor, waker>>

Free == [state |-> "free"]

\* The IfaceEvents of the notifier channel.
DeviceReady == [event |-> "DeviceReady"]
TcpSocketCreated(c) == [event |-> "TcpSocketCreated", conn |-> c]

ListenerInit ==
    /\ rx_queue = <<>> /\ tx = 0 /\ notifier = <<>>
    /\ sockets = <<>> /\ syn_tracker = [c \in Conn |-> "none"] /\ next_poll = "none"
    /\ emitted = 0
    /\ acceptor = "ready" /\ waker = "unset" /\ wakeDue = FALSE
    /\ frames = 0 /\ processed = 0 /\ refused = FALSE
    /\ stalled = FALSE /\ stolen = FALSE

\* An event tells no more than the same one before it.
Notify_(q, e) == IF q # <<>> /\ Last(q) = e THEN q ELSE Append(q, e)

-----------------------------------------------------------------------------
\* One frame of poll_packets.  A SYN that is tracked is injected only, and keeps its
\* entry; beyond SYN_TRACK_MAX a new one is dropped; anything else frees the entry.
TakeFrame(st, p) ==
    LET fresh == p.kind = "syn" /\ st.tracker[p.conn] # "recent"
        full == Cardinality({c \in Conn : st.tracker[c] # "none"}) >= SYN_TRACK_MAX
        frame == [conn |-> p.conn, kind |-> p.kind, fresh |-> fresh]
    IN  IF fresh /\ full THEN st
        ELSE [tracker |-> [st.tracker EXCEPT
                             ![p.conn] = IF p.kind = "syn" THEN "recent" ELSE "none"],
              rx |-> Append(st.rx, frame),
              events |-> IF fresh THEN Append(st.events, TcpSocketCreated(p.conn)) ELSE st.events,
              streams |-> IF fresh THEN st.streams + 1 ELSE st.streams]

\* for frame in packet_buf.drain(..)
TakeFrames(start, batch) == InOrder(TakeFrame, start, batch)

\* A batch of poll_packets: recv_many takes what the TUN reader has sent meanwhile.  Old
\* entries are pruned at most once per SYN_TRACK_TTL.
PollPackets ==
    /\ \E n \in 1 .. BatchMax : \E batch \in [1 .. n -> Frames], prune \in BOOLEAN :
        LET start == [tracker |-> [c \in Conn |->
                                     IF prune /\ syn_tracker[c] = "expired" THEN "none"
                                     ELSE syn_tracker[c]],
                      rx |-> rx_queue, events |-> notifier, streams |-> emitted]
            st == TakeFrames(start, batch)
        IN  /\ frames + n <= MaxFrames /\ frames' = frames + n
            /\ syn_tracker' = st.tracker /\ rx_queue' = st.rx
            /\ notifier' = Notify_(st.events, DeviceReady)
            /\ emitted' = st.streams
            /\ wakeDue' = (wakeDue \/ st.streams # emitted)
    /\ UNCHANGED <<tx, sockets, next_poll, acceptorVars, processed, refused, stalled, stolen>>

\* SYN_TRACK_TTL passes.
TtlPasses ==
    /\ \E c \in Conn : syn_tracker[c] = "recent"
    /\ syn_tracker' = [c \in Conn |-> IF syn_tracker[c] = "recent" THEN "expired"
                                      ELSE syn_tracker[c]]
    /\ UNCHANGED <<rx_queue, tx, notifier, sockets, next_poll, emitted,
                   acceptorVars, wakeDue, frames, processed, refused, stalled, stolen>>

-----------------------------------------------------------------------------
(* smoltcp *)

\* SocketSet::add takes the first free slot.
AddSocket(ss, c) ==
    LET new == [listen |-> c, peer |-> c, state |-> "Listen"]
        slots == {i \in 1 .. Len(ss) : ss[i] = Free}
    IN  IF slots = {} THEN Append(ss, new)
        ELSE [ss EXCEPT ![CHOOSE i \in slots : \A j \in slots : i <= j] = new]

\* The socket a segment is for: the connection's own, or the first that listens on its
\* destination, whoever it was made for.  0 if there is none.
SocketFor(ss, p) ==
    LET own == {i \in 1 .. Len(ss) : ss[i] # Free /\ ss[i].state # "Listen" /\ ss[i].peer = p.conn}
        listening == {i \in 1 .. Len(ss) : /\ ss[i] # Free /\ ss[i].state = "Listen"
                                           /\ ss[i].listen.dst = p.conn.dst /\ p.kind = "syn"}
        fit == IF own # {} THEN own ELSE listening
    IN  IF fit = {} THEN 0 ELSE CHOOSE i \in fit : \A j \in fit : i <= j

\* One segment: no socket, a reset is the answer; a listening socket answers the SYN.
Segment(st, p) ==
    LET i == SocketFor(st.ss, p)
        s == st.ss[i]
    IN  CASE i = 0 -> [st EXCEPT !.tx = IF p.kind = "rst" THEN @ ELSE @ + 1,
                                 !.refused = @ \/ p.fresh]
          [] i # 0 /\ s.state = "Listen" ->
                [st EXCEPT !.ss[i] = [listen |-> s.listen, peer |-> p.conn, state |-> "SynReceived"],
                           !.tx = @ + 1, !.stolen = @ \/ s.listen # p.conn]
          [] i # 0 /\ s.state # "Listen" /\ p.kind = "rst" -> [st EXCEPT !.ss[i].state = "Closed"]
          [] i # 0 /\ s.state # "Listen" /\ p.kind = "ack" -> [st EXCEPT !.ss[i].state = "Established"]
          [] i # 0 /\ s.state # "Listen" /\ p.kind = "syn" -> [st EXCEPT !.tx = @ + 1]

\* NetstackDevice::receive that takes the packet before it has a place for the answer.
ReceiveEagerly(st, p) ==
    IF st.tx >= TxCap THEN st
    ELSE [Segment(st, p) EXCEPT !.processed = @ + 1]

\* NetstackDevice::receive: without a place in the transmit channel the packet stays.
Receive(st, p) ==
    IF st.rx # <<>> \/ st.tx >= TxCap
    THEN [st EXCEPT !.rx = Append(@, p)]
    ELSE [Segment(st, p) EXCEPT !.processed = @ + 1]

\* iface.poll asks for one frame after the other.
ReceiveFrames(start, q) == InOrder(Receive, start, q)

\* One event of the notifier.
HandleEvent(ss, e) == IF e = DeviceReady THEN ss ELSE AddSocket(ss, e.conn)

\* poll_sockets that polls first and looks at the notifier later.
DrainNothing(ss, q) == ss

\* The sockets waiting in the notifier are added, all of them.
DrainNotifier(ss, q) == InOrder(HandleEvent, ss, q)

\* A socket that only listens is not active.
Active(s) == s # Free /\ s.state \in {"SynReceived", "Established"}

ShouldPollNow == next_poll = "none" /\ \E i \in 1 .. Len(sockets) : sockets[i] # Free

\* poll_sockets, should_poll_now: drain, poll, drop what is inactive.
PollSockets ==
    /\ ShouldPollNow
    /\ LET start == [ss |-> DrainNotifier(sockets, notifier), rx |-> <<>>, tx |-> tx,
                     processed |-> processed, refused |-> refused, stolen |-> stolen]
           st == ReceiveFrames(start, rx_queue)
       IN  /\ sockets' = [i \in 1 .. Len(st.ss) |->
                            IF Active(st.ss[i]) THEN st.ss[i] ELSE Free]
           /\ rx_queue' = st.rx /\ tx' = st.tx /\ processed' = st.processed
           /\ refused' = st.refused /\ stolen' = st.stolen
           /\ stalled' = (stalled \/ st.rx # <<>>)
           /\ notifier' = IF st.processed = processed THEN <<>> ELSE <<DeviceReady>>
    /\ next_poll' \in {"none", "some"}
    /\ UNCHANGED <<syn_tracker, emitted, acceptorVars, wakeDue, frames>>

\* notifier_rx.recv()
NotifierEvent ==
    /\ ~ShouldPollNow /\ notifier # <<>>
    /\ notifier' = Tail(notifier) /\ next_poll' = "none"
    /\ sockets' = HandleEvent(sockets, Head(notifier))
    /\ UNCHANGED <<rx_queue, tx, syn_tracker, emitted, acceptorVars, wakeDue,
                   frames, processed, refused, stalled, stolen>>

\* sleep(next_poll)
PollDelayEnds ==
    /\ next_poll = "some" /\ next_poll' = "none"
    /\ UNCHANGED <<rx_queue, tx, notifier, sockets, syn_tracker, emitted,
                   acceptorVars, wakeDue, frames, processed, refused, stalled, stolen>>

\* StackSplitStream takes a packet for the TUN.
TxTaken ==
    /\ tx > 0 /\ tx' = tx - 1
    /\ UNCHANGED <<rx_queue, notifier, sockets, syn_tracker, next_poll, emitted,
                   acceptorVars, wakeDue, frames, processed, refused, stalled, stolen>>

-----------------------------------------------------------------------------
(* TcpListener::poll_next and the waker *)

Rest == <<rx_queue, tx, notifier, sockets, syn_tracker, next_poll, frames, 
          processed, refused, stalled, stolen>>

\* tcp_stream_waker.wake()
WakeAcceptor ==
    /\ wakeDue /\ wakeDue' = FALSE
    /\ waker' = IF waker = "set" THEN "woken" ELSE waker
    /\ UNCHANGED <<emitted, acceptor, Rest>>

\* try_recv, and what becomes of the acceptor when there is nothing.
TryRecv(otherwise) ==
    /\ IF emitted > 0
       THEN emitted' = emitted - 1 /\ acceptor' = "ready"
       ELSE acceptor' = otherwise /\ UNCHANGED emitted
    /\ UNCHANGED <<waker, wakeDue, Rest>>

PollNext == acceptor = "ready" /\ TryRecv("empty")

RegisterWaker ==
    /\ acceptor = "empty" /\ acceptor' = "registered"
    /\ waker' = "set"
    /\ UNCHANGED <<emitted, wakeDue, Rest>>

\* poll_next without the second try_recv.
RecheckNothing ==
    /\ acceptor = "registered" /\ acceptor' = "pending"
    /\ UNCHANGED <<emitted, waker, wakeDue, Rest>>

Recheck == acceptor = "registered" /\ TryRecv("pending")

AcceptorWoken ==
    /\ acceptor = "pending" /\ waker = "woken"
    /\ acceptor' = "ready" /\ waker' = "unset"
    /\ UNCHANGED <<emitted, wakeDue, Rest>>

PacketsNext == PollPackets \/ TtlPasses
SocketsNext == PollSockets \/ NotifierEvent \/ PollDelayEnds \/ TxTaken
AcceptorNext == WakeAcceptor \/ PollNext \/ RegisterWaker \/ Recheck \/ AcceptorWoken

-----------------------------------------------------------------------------
\* A SYN that got a socket finds it listening, in whatever order the task's two loops
\* run: it is refused only after the transmit channel was full with frames waiting, or
\* after another client's SYN took a socket for the same destination.
SynMeetsListener == refused => stalled \/ stolen

\* Whatever the transmit channel holds, the frames given to the device are processed once
\* and in order, or are still waiting: no step loses, repeats or overtakes one.
DeviceKeepsFrames ==
    [][LET n == processed' - processed
       IN  n <= Len(rx_queue) /\ IsPrefix(SubSeq(rx_queue, n + 1, Len(rx_queue)), rx_queue')
      ]_listenerVars

\* The safety half of StreamsAccepted (MCNetstack): an acceptor that sleeps while there
\* is a stream for it is woken, or about to be.
NoAcceptorSleeps == (acceptor = "pending" /\ emitted > 0) => (wakeDue \/ waker = "woken")

\* With it inductive: an acceptor behind the registration has its waker in place.
AcceptorInv ==
    /\ NoAcceptorSleeps
    /\ acceptor \in {"registered", "pending"} => waker \in {"set", "woken"}
=============================================================================
