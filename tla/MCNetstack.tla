------------------------------ MODULE MCNetstack ------------------------------
(***************************************************************************)
(* The user-space stack: the TCP listener and the functions that run it.   *)
(* What passes between the two, frames and accepted streams, is free on    *)
(* either side.  Of the listener, poll_packets feeds both poll_sockets and *)
(* the acceptor and hears from neither.  So a behaviour is one of `part`:  *)
(* poll_packets with the sockets, poll_packets with the acceptor, or the   *)
(* functions of gvisor.rs.                                                 *)
(***************************************************************************)
EXTENDS NetstackListener, GvisorStack

VARIABLE part

\* Two clients of one server.
Conns == {[src |-> a, dst |-> "s"] : a \in {"a", "b"}}

MCFrames == [conn : Conns, kind : {"syn", "ack", "rst"}]

vars == <<part, listenerVars, gvisorVars>>

Init ==
    /\ part \in {"sockets", "acceptor", "gvisor"} /\ ListenerInit /\ GvisorInit
    /\ part # "gvisor" => mode = "gvisor" /\ dns_tx = "none"

Next ==
    \/ /\ part = "sockets" /\ UNCHANGED <<part, gvisorVars>>
       /\ PacketsNext \/ SocketsNext
    \/ /\ part = "acceptor" /\ UNCHANGED <<part, gvisorVars>>
       /\ PacketsNext \/ AcceptorNext
    \/ part = "gvisor" /\ GvisorNext /\ UNCHANGED <<part, listenerVars>>

Acceptor(A) == part = "acceptor" /\ A /\ UNCHANGED <<part, gvisorVars>>
Gvisor(A) == part = "gvisor" /\ A /\ UNCHANGED <<part, listenerVars>>

\* Tokio runs every task that was woken, and wake() returns.
Fairness ==
    /\ WF_vars(Acceptor(WakeAcceptor)) /\ WF_vars(Acceptor(PollNext))
    /\ WF_vars(Acceptor(RegisterWaker)) /\ WF_vars(Acceptor(Recheck))
    /\ WF_vars(Acceptor(AcceptorWoken))
    /\ WF_vars(Gvisor(SinkSend)) /\ WF_vars(Gvisor(ReaderEof)) /\ WF_vars(Gvisor(Return))

Spec == Init /\ [][Next]_vars /\ Fairness

\* Every stream poll_packets emits is accepted: the wake-up between the acceptor's look
\* at the channel (poll_next) and the registration of its waker is not lost.
StreamsAccepted == (part = "acceptor" /\ emitted > 0) ~> (emitted = 0)
=============================================================================
