--------------------------- MODULE NetstackStream ---------------------------
(***************************************************************************)
(* One TCP connection of the gvisor stack: the application side of a       *)
(* TcpStream (tcp_stream.rs) against the socket loop poll_sockets          *)
(* (tcp_listener.rs), which run on different threads and share only the    *)
(* TcpStreamHandle: two ring buffers, two AtomicWakers and five flags.     *)
(*                                                                         *)
(* Every atomic access is a step of its own.  The ring buffers are byte    *)
(* counts (RingBuffer shows that they are bounded byte streams and that    *)
(* is_empty and is_full are exact).  poll_read, poll_write, poll_shutdown  *)
(* and drop take the stream by &mut, so only one of them is under way, and *)
(* the bridge runs both directions in one task (join!), which either waker *)
(* wakes.  The smoltcp socket is external: its states are those its        *)
(* may_send, may_recv and is_active tell apart.                            *)
(***************************************************************************)
EXTENDS Naturals

CONSTANTS
    RecvCap, SendCap,    \* bytes the two ring buffers can hold
    RxCap, TxCap,        \* bytes the buffers of the smoltcp socket can hold
    MaxIn, MaxOut        \* bound: bytes the peer and the application send

ASSUME BufferAssumption ==
    /\ RecvCap \in Nat \ {0} /\ SendCap \in Nat \ {0}
    /\ RxCap \in Nat \ {0} /\ TxCap \in Nat \ {0}
    /\ MaxIn \in Nat /\ MaxOut \in Nat

VARIABLES
    recv, send,          \* bytes in recv_buffer and send_buffer
    recv_waker,          \* a waker is registered
    send_waker,
    flag,                \* socket_dropped, socket_closed, read_closed, write_closed,
                         \* write_shutdown
    event,               \* something is queued for the notifier of poll_sockets
    app,                 \* where the application is in a call on the stream
    reader, writer,      \* what the two directions of the bridge wait for
    woken,               \* the application task is scheduled
    loop, notify,        \* where poll_sockets is; its notify_read / notify_write
    st, rx, tx,          \* the smoltcp socket: state, unread and unacked bytes
    inLeft, outLeft      \* bytes the peer and the application have yet to send

handle == <<recv, send, recv_waker, send_waker, flag>>
task   == <<app, reader, writer, woken>>
socket == <<st, rx, tx>>
vars   == <<handle, event, task, loop, notify, socket, inLeft, outLeft>>

Flag == {"socket_dropped", "socket_closed", "read_closed", "write_closed",
         "write_shutdown"}

Init ==
    /\ recv = 0 /\ send = 0
    /\ recv_waker = FALSE /\ send_waker = FALSE
    /\ flag = [f \in Flag |-> FALSE]
    /\ event = TRUE
    /\ app = "idle" /\ reader = "ready" /\ writer = "ready" /\ woken = FALSE
    /\ loop = "drain" /\ notify = FALSE
    /\ st = "SynReceived" /\ rx = 0 /\ tx = 0
    /\ inLeft = MaxIn /\ outLeft = MaxOut

-----------------------------------------------------------------------------
(* The smoltcp socket, as poll_sockets sees it (external).  FinWait stands  *)
(* for FIN-WAIT-1 and 2, Closing for CLOSING and LAST-ACK; TIME-WAIT is     *)
(* inactive and counts as Closed.                                           *)

may_send == st \in {"Established", "CloseWait"}
can_send == may_send /\ tx < TxCap
may_recv == st \in {"Established", "FinWait"} \/ rx > 0
can_recv == rx > 0
is_active == st # "Closed"
past_handshake == st # "SynReceived"

\* socket.close(): the FIN follows what is in the transmit buffer.
AfterClose ==
    CASE st \in {"SynReceived", "Established"} -> "FinWait"
      [] st = "CloseWait" -> "Closing"
      [] OTHER -> st

\* AtomicWaker::wake takes the registered waker and schedules the task.
WakeReader == recv_waker' = FALSE /\ woken' = (woken \/ recv_waker)
WakeWriter == send_waker' = FALSE /\ woken' = (woken \/ send_waker)

-----------------------------------------------------------------------------
(* The application: the two directions of the bridge.                       *)

Goto(l) == app' = l

\* The task is polled again: both directions look once more.
TaskPoll ==
    /\ app = "idle" /\ woken
    /\ woken' = FALSE
    /\ reader' = IF reader = "pending" THEN "ready" ELSE reader
    /\ writer' = IF writer = "pending" THEN "ready" ELSE writer
    /\ UNCHANGED <<handle, event, app, loop, notify, socket, inLeft, outLeft>>

\* poll_read
Read ==
    /\ app = "idle" /\ reader = "ready"
    /\ Goto(IF recv = 0 THEN "r_register" ELSE "r_dequeue")
    /\ UNCHANGED <<handle, event, reader, writer, woken, loop, notify, socket, inLeft,
                   outLeft>>

\* Without the second look at the buffer and at the flags.
ReadRegisterAndWait ==
    /\ app = "r_register"
    /\ recv_waker' = TRUE
    /\ reader' = "pending" /\ Goto("idle")
    /\ UNCHANGED <<recv, send, send_waker, flag, event, writer, woken, loop, notify,
                   socket, inLeft, outLeft>>

ReadRegister ==
    /\ app = "r_register"
    /\ recv_waker' = TRUE
    /\ Goto("r_recheck")
    /\ UNCHANGED <<recv, send, send_waker, flag, event, reader, writer, woken, loop,
                   notify, socket, inLeft, outLeft>>

ReadRecheck ==
    /\ app = "r_recheck"
    /\ Goto(IF recv = 0 THEN "r_closed" ELSE "r_dequeue")
    /\ UNCHANGED <<handle, event, reader, writer, woken, loop, notify, socket, inLeft,
                   outLeft>>

\* The flags are loaded one after the other: end of stream, or wait.
ReadClosed ==
    /\ \/ /\ app = "r_closed" /\ ~flag["socket_closed"]
          /\ Goto("r_read_closed") /\ UNCHANGED reader
       \/ /\ app = "r_closed" /\ flag["socket_closed"]
          /\ Goto("idle") /\ reader' = "eof"
       \/ /\ app = "r_read_closed"
          /\ Goto("idle")
          /\ reader' = IF flag["read_closed"] THEN "eof" ELSE "pending"
    /\ UNCHANGED <<handle, event, writer, woken, loop, notify, socket, inLeft, outLeft>>

ReadDequeue ==
    /\ app = "r_dequeue"
    /\ \E n \in 1 .. recv : recv' = recv - n
    /\ event' = TRUE
    /\ Goto("idle")
    /\ UNCHANGED <<send, recv_waker, send_waker, flag, reader, writer, woken, loop,
                   notify, socket, inLeft, outLeft>>

\* poll_write.  (write_shutdown is only ever set by this side.)
Write ==
    /\ app = "idle" /\ writer = "ready" /\ outLeft > 0
    /\ \/ /\ flag["write_closed"] \/ flag["write_shutdown"]
          /\ writer' = "broken" /\ UNCHANGED app
       \/ /\ ~flag["write_closed"] /\ ~flag["write_shutdown"]
          /\ Goto("w_full") /\ UNCHANGED writer
    /\ UNCHANGED <<handle, event, reader, woken, loop, notify, socket, inLeft, outLeft>>

WriteFull ==
    /\ app = "w_full"
    /\ Goto(IF send = SendCap THEN "w_register" ELSE "w_enqueue")
    /\ UNCHANGED <<handle, event, reader, writer, woken, loop, notify, socket, inLeft,
                   outLeft>>

WriteRegister ==
    /\ app = "w_register"
    /\ send_waker' = TRUE
    /\ Goto("w_recheck")
    /\ UNCHANGED <<recv, send, recv_waker, flag, event, reader, writer, woken, loop,
                   notify, socket, inLeft, outLeft>>

WriteRecheck ==
    /\ app = "w_recheck"
    /\ \/ /\ send = SendCap
          /\ event' = TRUE
          /\ Goto("idle") /\ writer' = "pending"
       \/ /\ send # SendCap
          /\ Goto("w_enqueue") /\ UNCHANGED <<event, writer>>
    /\ UNCHANGED <<handle, reader, woken, loop, notify, socket, inLeft, outLeft>>

WriteEnqueue ==
    /\ app = "w_enqueue"
    /\ \E n \in 1 .. outLeft :
        /\ send + n <= SendCap
        /\ send' = send + n
        /\ outLeft' = outLeft - n
    /\ event' = TRUE
    /\ Goto("idle")
    /\ UNCHANGED <<recv, recv_waker, send_waker, flag, reader, writer, woken, loop,
                   notify, socket, inLeft>>

\* The source of the writing direction has ended: poll_flush ...
Finish ==
    /\ app = "idle" /\ writer = "ready"
    /\ writer' = "done"
    /\ event' = TRUE
    /\ UNCHANGED <<handle, app, reader, woken, loop, notify, socket, inLeft, outLeft>>

\* ... or poll_shutdown, which notifies the loop before it sets the flag.
Shutdown ==
    /\ \/ /\ app = "idle" /\ writer = "ready"
          /\ event' = TRUE
          /\ Goto("s_flag")
          /\ UNCHANGED <<flag, writer, send_waker, woken>>
       \/ /\ app = "s_flag"
          /\ flag' = [flag EXCEPT !["write_shutdown"] = TRUE]
          /\ WakeWriter
          /\ Goto("idle") /\ writer' = "done"
          /\ UNCHANGED event
    /\ UNCHANGED <<recv, send, recv_waker, reader, loop, notify, socket, inLeft, outLeft>>

\* drop, at the end of both directions or when the task is given up.  Nobody is
\* left for the wakers to wake.
Drop ==
    /\ \/ /\ app = "idle"
          /\ flag' = [flag EXCEPT !["socket_dropped"] = TRUE]
          /\ Goto("d_flags")
          /\ UNCHANGED event
       \/ /\ app = "d_flags"
          /\ flag' = [flag EXCEPT !["read_closed"] = TRUE, !["write_closed"] = TRUE]
          /\ event' = TRUE
          /\ Goto("gone")
    /\ UNCHANGED <<recv, send, recv_waker, send_waker, reader, writer, woken, loop,
                   notify, socket, inLeft, outLeft>>

PollRead  == Read \/ ReadRegister \/ ReadRecheck \/ ReadClosed \/ ReadDequeue
PollWrite == Write \/ WriteFull \/ WriteRegister \/ WriteRecheck \/ WriteEnqueue

App == TaskPoll \/ PollRead \/ PollWrite \/ Finish \/ Shutdown \/ Drop

-----------------------------------------------------------------------------
(* poll_sockets                                                             *)

LoopTo(l) == loop' = l

\* The select: an event, or the delay that smoltcp asked for is over.
Wait ==
    /\ loop = "wait" /\ event
    /\ LoopTo("drain")
    /\ UNCHANGED <<handle, event, task, notify, socket, inLeft, outLeft>>

\* A loop that polls only when it is told to.
TimerNever == FALSE /\ UNCHANGED vars

Timer ==
    /\ loop = "wait"
    /\ LoopTo("drain")
    /\ UNCHANGED <<handle, event, task, notify, socket, inLeft, outLeft>>

\* All queued events mean "poll soon".
Drain ==
    /\ loop = "drain"
    /\ event' = FALSE
    /\ LoopTo("iface")
    /\ UNCHANGED <<handle, task, notify, socket, inLeft, outLeft>>

IfaceDone ==
    /\ loop = "iface"
    /\ LoopTo("recv") /\ notify' = FALSE
    /\ UNCHANGED <<handle, event, task, socket, inLeft, outLeft>>

Min2(a, b) == IF a <= b THEN a ELSE b

Recv ==
    /\ loop = "recv"
    /\ \/ /\ can_recv /\ recv < RecvCap
          /\ LET n == Min2(rx, RecvCap - recv) IN recv' = recv + n /\ rx' = rx - n
          /\ notify' = TRUE
          /\ UNCHANGED loop
       \/ /\ ~(can_recv /\ recv < RecvCap)
          /\ LoopTo(IF notify THEN "recv_wake" ELSE "send")
          /\ notify' = FALSE
          /\ UNCHANGED <<recv, rx>>
    /\ UNCHANGED <<send, recv_waker, send_waker, flag, event, task, st, tx, inLeft, outLeft>>

RecvWake ==
    /\ loop = "recv_wake"
    /\ WakeReader
    /\ LoopTo("send")
    /\ UNCHANGED <<recv, send, send_waker, flag, event, app, reader, writer, notify,
                   socket, inLeft, outLeft>>

\* A piece of send_buffer goes to the socket.
MoveOut ==
    /\ can_send /\ send > 0
    /\ LET n == Min2(send, TxCap - tx) IN send' = send - n /\ tx' = tx + n

Send ==
    /\ loop = "send"
    /\ \/ /\ MoveOut
          /\ notify' = TRUE
          /\ UNCHANGED loop
       \/ /\ ~(can_send /\ send > 0)
          /\ LoopTo(IF notify THEN "send_wake" ELSE "read_closed")
          /\ notify' = FALSE
          /\ UNCHANGED <<send, tx>>
    /\ UNCHANGED <<recv, recv_waker, send_waker, flag, event, task, st, rx, inLeft, outLeft>>

SendWake ==
    /\ loop = "send_wake"
    /\ WakeWriter
    /\ LoopTo("read_closed")
    /\ UNCHANGED <<recv, send, recv_waker, flag, event, app, reader, writer, notify,
                   socket, inLeft, outLeft>>

\* read_closed is set while the socket still has bytes for the application.
ReadCloseEarly ==
    /\ loop = "read_closed"
    /\ LET close == past_handshake /\ st \notin {"Established", "FinWait"} IN
        /\ flag' = [flag EXCEPT !["read_closed"] = @ \/ close]
        /\ LoopTo(IF close /\ ~flag["read_closed"] THEN "read_wake" ELSE "shutdown")
    /\ UNCHANGED <<recv, send, recv_waker, send_waker, event, task, notify, socket, inLeft,
                   outLeft>>

ReadClose ==
    /\ loop = "read_closed"
    /\ LET close == past_handshake /\ ~may_recv /\ ~can_recv IN
        /\ flag' = [flag EXCEPT !["read_closed"] = @ \/ close]
        /\ LoopTo(IF close /\ ~flag["read_closed"] THEN "read_wake" ELSE "shutdown")
    /\ UNCHANGED <<recv, send, recv_waker, send_waker, event, task, notify, socket, inLeft,
                   outLeft>>

ReadCloseWake ==
    /\ loop = "read_wake"
    /\ WakeReader
    /\ LoopTo("shutdown")
    /\ UNCHANGED <<recv, send, send_waker, flag, event, app, reader, writer, notify,
                   socket, inLeft, outLeft>>

\* The send half is closed on write_shutdown alone, drained or not.
CloseSendHalfUndrained ==
    /\ \/ /\ loop = "shutdown"
          /\ LoopTo(IF flag["write_shutdown"] THEN "shut_empty" ELSE "write_closed")
          /\ UNCHANGED st
       \/ /\ loop = "shut_empty"
          /\ st' = IF may_send THEN AfterClose ELSE st
          /\ LoopTo("write_closed")
    /\ UNCHANGED <<handle, event, task, notify, rx, tx, inLeft, outLeft>>

\* write_shutdown first, then is send_buffer empty.
CloseSendHalf ==
    /\ \/ /\ loop = "shutdown"
          /\ LoopTo(IF flag["write_shutdown"] THEN "shut_empty" ELSE "write_closed")
          /\ UNCHANGED st
       \/ /\ loop = "shut_empty"
          /\ st' = IF send = 0 /\ may_send THEN AfterClose ELSE st
          /\ LoopTo("write_closed")
    /\ UNCHANGED <<handle, event, task, notify, rx, tx, inLeft, outLeft>>

WriteClose ==
    /\ loop = "write_closed"
    /\ LET close == past_handshake /\ ~may_send IN
        /\ flag' = [flag EXCEPT !["write_closed"] = @ \/ close]
        /\ LoopTo(IF close /\ ~flag["write_closed"] THEN "write_wake" ELSE "dropped")
    /\ UNCHANGED <<recv, send, recv_waker, send_waker, event, task, notify, socket, inLeft,
                   outLeft>>

WriteCloseWake ==
    /\ loop = "write_wake"
    /\ WakeWriter
    /\ LoopTo("dropped")
    /\ UNCHANGED <<recv, send, recv_waker, flag, event, app, reader, writer, notify,
                   socket, inLeft, outLeft>>

\* The stream has been dropped: what it left behind is flushed, then the FIN.
FlushDropped ==
    /\ \/ /\ loop = "dropped"
          /\ LoopTo(IF flag["socket_dropped"] THEN "flush" ELSE "active")
          /\ UNCHANGED <<send, st, tx>>
       \/ /\ loop = "flush"
          /\ \/ MoveOut /\ UNCHANGED <<loop, st>>
             \/ /\ ~(can_send /\ send > 0)
                /\ st' = IF send = 0 THEN AfterClose ELSE st
                /\ LoopTo("active")
                /\ UNCHANGED <<send, tx>>
    /\ UNCHANGED <<recv, recv_waker, send_waker, flag, event, task, notify, rx, inLeft,
                   outLeft>>

\* An inactive socket leaves the set with whatever its buffers hold, and the
\* application is told.
Remove ==
    /\ \/ /\ loop = "active"
          /\ LoopTo(IF is_active THEN "delay" ELSE "rm_write")
          /\ flag' = [flag EXCEPT !["socket_closed"] = @ \/ ~is_active]
          /\ UNCHANGED <<recv_waker, send_waker, woken>>
       \/ /\ loop = "rm_write"
          /\ flag' = [flag EXCEPT !["write_closed"] = TRUE]
          /\ LoopTo("rm_wake")
          /\ UNCHANGED <<recv_waker, send_waker, woken>>
       \/ /\ loop = "rm_wake"
          /\ recv_waker' = FALSE /\ send_waker' = FALSE
          /\ woken' = (woken \/ recv_waker \/ send_waker)
          /\ LoopTo("off")
          /\ UNCHANGED flag
    /\ UNCHANGED <<recv, send, event, app, reader, writer, notify, socket, inLeft, outLeft>>

\* poll_delay: poll again at once, or sleep.
Delay ==
    /\ loop = "delay"
    /\ \/ LoopTo("drain") \/ LoopTo("wait")
    /\ UNCHANGED <<handle, event, task, notify, socket, inLeft, outLeft>>

Sockets ==
    \/ Wait \/ Drain \/ IfaceDone \/ Recv \/ RecvWake \/ Send \/ SendWake
    \/ ReadClose \/ ReadCloseWake \/ CloseSendHalf \/ WriteClose \/ WriteCloseWake
    \/ FlushDropped \/ Remove \/ Delay

-----------------------------------------------------------------------------
(* What iface.poll does to the socket: packets that poll_packets injected    *)
(* are taken in, each with a DeviceReady event, and answered (external).    *)

NetUnchanged == UNCHANGED <<handle, task, loop, notify, outLeft>>

Handshake ==
    /\ loop = "iface" /\ st = "SynReceived"
    /\ st' = "Established" /\ event' = TRUE
    /\ UNCHANGED <<rx, tx, inLeft>> /\ NetUnchanged

PeerData ==
    /\ loop = "iface" /\ st \in {"Established", "FinWait"}
    /\ inLeft > 0 /\ rx < RxCap
    /\ rx' = rx + 1 /\ inLeft' = inLeft - 1 /\ event' = TRUE
    /\ UNCHANGED <<st, tx>> /\ NetUnchanged

PeerAck ==
    /\ loop = "iface" /\ tx > 0
    /\ tx' = tx - 1 /\ event' = TRUE
    /\ UNCHANGED <<st, rx, inLeft>> /\ NetUnchanged

\* The peer's FIN, behind all of its data; and the end of the handshake that
\* closes the connection once our own FIN is acknowledged.
PeerFin ==
    /\ loop = "iface" /\ inLeft = 0
    /\ \/ st = "Established" /\ st' = "CloseWait"
       \/ st = "FinWait" /\ st' \in {"Closing"} \cup (IF tx = 0 THEN {"Closed"} ELSE {})
       \/ st = "Closing" /\ tx = 0 /\ st' = "Closed"
    /\ event' = TRUE
    /\ UNCHANGED <<rx, tx, inLeft>> /\ NetUnchanged

\* A reset, or the socket's own timeout.
Abort ==
    /\ loop = "iface" /\ st # "Closed"
    /\ st' = "Closed" /\ event' = TRUE
    /\ UNCHANGED <<rx, tx, inLeft>> /\ NetUnchanged

Net == Handshake \/ PeerData \/ PeerAck \/ PeerFin \/ Abort

Next == App \/ Sockets \/ Timer \/ Net

Spec == Init /\ [][Next]_vars

\* Both tasks run whenever they can (tokio), the timer of the select fires, and
\* the peer answers or smoltcp's timeout gives up on it.
Fairness ==
    /\ WF_vars(TaskPoll) /\ WF_vars(PollRead) /\ WF_vars(app # "idle" /\ App)
    /\ WF_vars(Sockets) /\ WF_vars(Timer)
    /\ SF_vars(Handshake) /\ SF_vars(PeerAck)

FairSpec == Spec /\ Fairness

-----------------------------------------------------------------------------
(* The inductive invariants behind the theorems.                            *)

BuffersOK ==
    /\ recv \in 0 .. RecvCap /\ send \in 0 .. SendCap
    /\ rx \in 0 .. RxCap /\ tx \in 0 .. TxCap
    /\ inLeft \in 0 .. MaxIn /\ outLeft \in 0 .. MaxOut

WakersOK ==
    /\ recv_waker \in BOOLEAN /\ send_waker \in BOOLEAN
    /\ event \in BOOLEAN /\ woken \in BOOLEAN /\ notify \in BOOLEAN

FlagsOK == flag \in [Flag -> BOOLEAN]

PlacesOK ==
    /\ reader \in {"ready", "pending", "eof"}
    /\ writer \in {"ready", "pending", "done", "broken"}
    /\ app \in {"idle", "r_register", "r_recheck", "r_closed", "r_read_closed",
                "r_dequeue", "w_full", "w_register", "w_recheck", "w_enqueue",
                "s_flag", "d_flags", "gone"}
    /\ loop \in {"wait", "drain", "iface", "recv", "recv_wake", "send", "send_wake",
                 "read_closed", "read_wake", "shutdown", "shut_empty", "write_closed",
                 "write_wake", "dropped", "flush", "active", "rm_write", "rm_wake",
                 "delay", "off"}
    /\ st \in {"SynReceived", "Established", "CloseWait", "FinWait", "Closing", "Closed"}

TypeOK == BuffersOK /\ WakersOK /\ FlagsOK /\ PlacesOK

\* Once the stream is shut down or dropped nothing is written any more.
NoMoreWrites ==
    /\ flag["write_shutdown"] => app \notin {"w_full", "w_register", "w_recheck", "w_enqueue"}
    /\ flag["socket_dropped"] <=> app \in {"d_flags", "gone"}

\* The loop closes only what it has seen shut down or dropped.
CloseInv ==
    /\ loop = "shut_empty" => flag["write_shutdown"]
    /\ loop = "flush" => flag["socket_dropped"]
    /\ st \in {"FinWait", "Closing"} => flag["write_shutdown"] \/ flag["socket_dropped"]

\* poll_read runs only while the reader does not wait.
ReaderInv ==
    app \in {"r_register", "r_recheck", "r_closed", "r_read_closed", "r_dequeue"}
        => reader = "ready"

\* The reader waits, or is about to: it has registered its waker.
Registered == app \in {"r_recheck", "r_closed", "r_read_closed"} \/ reader = "pending"

\* What the reader has looked at since: recv_buffer, socket_closed, read_closed.
LookedAtRecv         == app \in {"r_closed", "r_read_closed"} \/ reader = "pending"
LookedAtSocketClosed == app = "r_read_closed" \/ reader = "pending"
LookedAtReadClosed   == reader = "pending"

\* The wake-up is done, or poll_sockets is on its way to it.
WakeComing ==
    \/ woken
    \/ /\ recv_waker
       /\ \/ loop = "recv" /\ notify
          \/ loop \in {"recv_wake", "read_wake", "rm_write", "rm_wake"}

\* A registered waker is there until somebody wakes with it, and what the reader
\* has looked at in vain changes only with a wake-up to follow.
WakeInv ==
    ~flag["socket_dropped"] =>
        /\ Registered => recv_waker \/ woken
        /\ LookedAtRecv /\ recv > 0 => WakeComing
        /\ LookedAtSocketClosed /\ flag["socket_closed"] => WakeComing
        /\ LookedAtReadClosed /\ flag["read_closed"] => WakeComing

\* No more bytes come out of the socket, and none go into it.
ReceiveOver == rx = 0 /\ st \in {"CloseWait", "Closing", "Closed"}

\* read_closed is set, and the end of the stream reported, only then: what has been looked
\* at stays so.  A removed socket and a dropped stream are apart.
EofInv ==
    /\ st \in {"CloseWait", "Closing"} => inLeft = 0
    /\ flag["read_closed"] /\ ~flag["socket_dropped"] => ReceiveOver
    /\ reader = "eof" => flag["socket_closed"] \/ ReceiveOver

-----------------------------------------------------------------------------
(* Properties                                                               *)

\* Our FIN is behind every byte that poll_write accepted: the loop closes the
\* send half only when send_buffer is drained, and nothing can follow.
FinBehindAllData == st \in {"FinWait", "Closing"} => send = 0

StreamInv ==
    TypeOK /\ NoMoreWrites /\ CloseInv /\ FinBehindAllData /\ ReaderInv /\ WakeInv /\ EofInv

\* poll_read loses no wake-up: if there are bytes, or the stream has ended, and
\* the reader still waits, then its wake-up is on its way.
NoLostReadWakeup ==
    reader = "pending" /\ app # "gone"
        /\ (recv > 0 \/ flag["read_closed"] \/ flag["socket_closed"])
    => \/ woken
       \/ recv_waker /\ loop \in {"recv", "recv_wake", "read_wake", "rm_write", "rm_wake"}
       \/ flag["socket_dropped"]

\* When poll_read has reported the end of the stream and the socket is not removed, the
\* end it is: the socket holds nothing more, now or later, and short of a reset or a
\* timeout the peer has sent all it will.  A socket that is removed (socket_closed) may
\* take received bytes with it; bytes already in recv_buffer are EofOnlyWhenDrained's.
EofIsTheEnd ==
    reader = "eof" =>
        flag["socket_closed"] \/ (rx = 0 /\ (inLeft = 0 \/ st = "Closed"))

\* poll_read returns the end of the stream only once recv_buffer is drained, as
\* the doc of socket_closed says.
EofOnlyWhenDrained == [][reader' = "eof" /\ reader # "eof" => recv = 0]_vars

\* Bytes that arrive are read: neither side waits for the other for ever.
BytesAreRead ==
    (rx > 0 \/ recv > 0) ~> (rx + recv = 0 \/ reader = "eof" \/ loop = "off"
                                \/ flag["socket_dropped"])

\* A shut down or dropped stream gets its FIN, or is gone: the early event of
\* poll_shutdown delays it at most until the timer.
ClosedGetsFin ==
    (flag["write_shutdown"] \/ flag["socket_dropped"]) ~> ~may_send /\ past_handshake

\* When the socket goes, a writer that waits is released, as the comment in
\* poll_sockets says of any in-flight poll_write.
WriterReleased ==
    (loop = "off" /\ writer = "pending") ~> (writer # "pending" \/ app = "gone")
=============================================================================
