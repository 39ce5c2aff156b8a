------------------------ MODULE NetstackStreamProofs ------------------------
(***************************************************************************)
(* Theorems about a netstack TCP stream, for buffers of every size.        *)
(***************************************************************************)
EXTENDS NetstackStream, TLAPS

USE BufferAssumption

-----------------------------------------------------------------------------
(* Types and the bounds of the buffers                                      *)

LEMMA TypeInit == Init => TypeOK
<1>1. Init => BuffersOK
  BY DEF Init, BuffersOK
<1>2. Init => WakersOK /\ FlagsOK /\ PlacesOK
  BY DEF Init, WakersOK, FlagsOK, PlacesOK, Flag
<1> QED BY <1>1, <1>2 DEF TypeOK

LEMMA BuffersStep == BuffersOK /\ Next => BuffersOK'
<1> USE DEF BuffersOK, handle, socket
<1>1. BuffersOK /\ App => BuffersOK'
  BY DEF App, TaskPoll, PollRead, Read, ReadRegister, ReadRecheck, ReadClosed,
     ReadDequeue, PollWrite, Write, WriteFull, WriteRegister, WriteRecheck,
     WriteEnqueue, Finish, Shutdown, Drop
<1>2. BuffersOK /\ (Sockets \/ Timer) => BuffersOK'
  BY DEF Sockets, Wait, Timer, Drain, IfaceDone, Recv, RecvWake, Send, SendWake,
     ReadClose, ReadCloseWake, CloseSendHalf, WriteClose, WriteCloseWake,
     FlushDropped, Remove, Delay,
     Min2, MoveOut, can_recv, can_send
<1>3. BuffersOK /\ Net => BuffersOK'
  BY DEF Net, Handshake, PeerData, PeerAck, PeerFin, Abort, NetUnchanged
<1> QED BY <1>1, <1>2, <1>3 DEF Next

LEMMA WakersStep == WakersOK /\ Next => WakersOK'
<1> USE DEF WakersOK, handle, task
<1>1. WakersOK /\ App => WakersOK'
  BY DEF App, TaskPoll, PollRead, Read, ReadRegister, ReadRecheck, ReadClosed,
     ReadDequeue, PollWrite, Write, WriteFull, WriteRegister, WriteRecheck,
     WriteEnqueue, Finish, Shutdown, Drop, WakeWriter
<1>2. WakersOK /\ (Sockets \/ Timer) => WakersOK'
  BY DEF Sockets, Wait, Timer, Drain, IfaceDone, Recv, RecvWake, Send, SendWake,
     ReadClose, ReadCloseWake, CloseSendHalf, WriteClose, WriteCloseWake,
     FlushDropped, Remove, Delay, WakeReader,
     WakeWriter
<1>3. WakersOK /\ Net => WakersOK'
  BY DEF Net, Handshake, PeerData, PeerAck, PeerFin, Abort, NetUnchanged
<1> QED BY <1>1, <1>2, <1>3 DEF Next

LEMMA FlagsStep == FlagsOK /\ Next => FlagsOK'
<1> USE DEF FlagsOK, handle
<1>1. FlagsOK /\ App => FlagsOK'
  BY DEF App, TaskPoll, PollRead, Read, ReadRegister, ReadRecheck, ReadClosed,
     ReadDequeue, PollWrite, Write, WriteFull, WriteRegister, WriteRecheck,
     WriteEnqueue, Finish, Shutdown, Drop
<1>2. FlagsOK /\ (Sockets \/ Timer) => FlagsOK'
  BY DEF Sockets, Wait, Timer, Drain, IfaceDone, Recv, RecvWake, Send, SendWake,
     ReadClose, ReadCloseWake, CloseSendHalf, WriteClose, WriteCloseWake,
     FlushDropped, Remove, Delay
<1>3. FlagsOK /\ Net => FlagsOK'
  BY DEF Net, Handshake, PeerData, PeerAck, PeerFin, Abort, NetUnchanged
<1> QED BY <1>1, <1>2, <1>3 DEF Next

LEMMA PlacesStep == PlacesOK /\ Next => PlacesOK'
<1> USE DEF PlacesOK, task, socket
<1>1. PlacesOK /\ App => PlacesOK'
  BY DEF App, TaskPoll, PollRead, Read, ReadRegister, ReadRecheck, ReadClosed,
     ReadDequeue, PollWrite, Write, WriteFull, WriteRegister, WriteRecheck,
     WriteEnqueue, Finish, Shutdown, Drop, Goto
<1>2. PlacesOK /\ (Sockets \/ Timer) => PlacesOK'
  BY DEF Sockets, Wait, Timer, Drain, IfaceDone, Recv, RecvWake, Send, SendWake,
     ReadClose, ReadCloseWake, CloseSendHalf, WriteClose, WriteCloseWake,
     FlushDropped, Remove, Delay, LoopTo,
     AfterClose
<1>3. PlacesOK /\ Net => PlacesOK'
  BY DEF Net, Handshake, PeerData, PeerAck, PeerFin, Abort, NetUnchanged
<1> QED BY <1>1, <1>2, <1>3 DEF Next

LEMMA TypeStep == TypeOK /\ Next => TypeOK'
BY BuffersStep, WakersStep, FlagsStep, PlacesStep DEF TypeOK

-----------------------------------------------------------------------------
(* The inductive invariant                                                  *)

LEMMA StreamInvInit == Init => StreamInv
BY TypeInit DEF Init, StreamInv, NoMoreWrites, CloseInv, FinBehindAllData, ReaderInv,
   WakeInv, Registered, LookedAtRecv, LookedAtSocketClosed, LookedAtReadClosed, Flag,
   EofInv, ReceiveOver

\* The application's steps.
LEMMA StreamInvApp == StreamInv /\ App => StreamInv'
<1> SUFFICES ASSUME StreamInv, App PROVE StreamInv'
  OBVIOUS
<1>0. TypeOK /\ TypeOK'
  BY TypeStep DEF StreamInv, Next
<1> DEFINE Wake == ReaderInv /\ WakeInv /\ EofInv
           Fin  == NoMoreWrites /\ CloseInv /\ FinBehindAllData
<1> SUFFICES Wake' /\ Fin'
  BY <1>0 DEF StreamInv
<1> USE <1>0 DEF StreamInv, NoMoreWrites, CloseInv, FinBehindAllData, ReaderInv,
        WakeInv, Registered, LookedAtRecv, LookedAtSocketClosed, LookedAtReadClosed,
        EofInv, ReceiveOver, WakeComing, TypeOK, FlagsOK, BuffersOK, Flag, handle, socket, Goto
<1>1. CASE TaskPoll
  BY <1>1 DEF TaskPoll
<1>2. CASE PollRead
  <2>1. CASE Read
    BY <2>1 DEF Read
  <2>2. CASE ReadRegister
    BY <2>2 DEF ReadRegister
  <2>3. CASE ReadRecheck
    BY <2>3 DEF ReadRecheck
  <2>4. CASE ReadClosed
    BY <2>4 DEF ReadClosed
  <2>5. CASE ReadDequeue
    BY <2>5 DEF ReadDequeue
  <2> QED BY <1>2, <2>1, <2>2, <2>3, <2>4, <2>5 DEF PollRead
<1>3. CASE PollWrite
  <2>1. CASE Write
    BY <2>1 DEF Write
  <2>2. CASE WriteFull
    BY <2>2 DEF WriteFull
  <2>3. CASE WriteRegister
    BY <2>3 DEF WriteRegister
  <2>4. CASE WriteRecheck
    BY <2>4 DEF WriteRecheck
  <2>5. CASE WriteEnqueue
    BY <2>5 DEF WriteEnqueue
  <2> QED BY <1>3, <2>1, <2>2, <2>3, <2>4, <2>5 DEF PollWrite
<1>4. CASE Finish
  BY <1>4 DEF Finish
<1>5. CASE Shutdown
  BY <1>5 DEF Shutdown, WakeWriter
<1>6. CASE Drop
  BY <1>6 DEF Drop
<1> QED BY <1>1, <1>2, <1>3, <1>4, <1>5, <1>6 DEF App

\* The steps of poll_sockets.
LEMMA StreamInvSockets == StreamInv /\ (Sockets \/ Timer) => StreamInv'
<1> SUFFICES ASSUME StreamInv, Sockets \/ Timer PROVE StreamInv'
  OBVIOUS
<1>0. TypeOK /\ TypeOK'
  BY TypeStep DEF StreamInv, Next
<1> DEFINE Wake == ReaderInv /\ WakeInv /\ EofInv
           Fin  == NoMoreWrites /\ CloseInv /\ FinBehindAllData
<1> SUFFICES Wake' /\ Fin'
  BY <1>0 DEF StreamInv
<1> USE <1>0 DEF StreamInv, NoMoreWrites, CloseInv, FinBehindAllData, ReaderInv,
        WakeInv, Registered, LookedAtRecv, LookedAtSocketClosed, LookedAtReadClosed,
        EofInv, ReceiveOver, WakeComing, TypeOK, FlagsOK, BuffersOK, Flag, task, handle, socket, LoopTo
<1>1. CASE Wait \/ Timer \/ Drain \/ IfaceDone \/ Delay
  BY <1>1 DEF Wait, Timer, Drain, IfaceDone, Delay
<1>2. CASE Recv
  BY <1>2 DEF Recv, Min2, can_recv
<1>3. CASE RecvWake \/ ReadCloseWake
  BY <1>3 DEF RecvWake, ReadCloseWake, WakeReader
<1>4. CASE Send
  BY <1>4 DEF Send, MoveOut, Min2, can_send
<1>5. CASE SendWake \/ WriteCloseWake
  BY <1>5 DEF SendWake, WriteCloseWake, WakeWriter
<1>6. CASE ReadClose
  BY <1>6 DEF ReadClose, may_recv, can_recv, past_handshake, PlacesOK
<1>7. CASE CloseSendHalf
  BY <1>7 DEF CloseSendHalf, AfterClose, may_send
<1>8. CASE WriteClose
  BY <1>8 DEF WriteClose
<1>9. CASE FlushDropped
  BY <1>9 DEF FlushDropped, AfterClose, MoveOut, Min2, can_send, may_send
<1>10. CASE Remove
  BY <1>10 DEF Remove, is_active
<1> QED BY <1>1, <1>2, <1>3, <1>4, <1>5, <1>6, <1>7, <1>8, <1>9, <1>10 DEF Sockets

\* The steps of the peer.
LEMMA StreamInvNet == StreamInv /\ Net => StreamInv'
<1> SUFFICES ASSUME StreamInv, Net PROVE StreamInv'
  OBVIOUS
<1>1. TypeOK'
  BY TypeStep DEF StreamInv, Next
<1>2. UNCHANGED <<recv, send, recv_waker, flag, app, reader, woken, loop, notify>>
      /\ (st' \in {"FinWait", "Closing"} => st \in {"FinWait", "Closing"})
  BY DEF Net, Handshake, PeerData, PeerAck, PeerFin, Abort, NetUnchanged, handle, task
<1>3. EofInv'
  <2> USE DEF StreamInv, EofInv, ReceiveOver
  <2>1. st' \in {"CloseWait", "Closing"} => inLeft' = 0
    BY DEF Net, Handshake, PeerData, PeerAck, PeerFin, Abort
  <2>2. ReceiveOver => ReceiveOver'
    BY DEF Net, Handshake, PeerData, PeerAck, PeerFin, Abort
  <2> QED BY <1>2, <2>1, <2>2
<1> QED
  BY <1>1, <1>2, <1>3 DEF StreamInv, NoMoreWrites, CloseInv, FinBehindAllData, ReaderInv,
     WakeInv, Registered, LookedAtRecv, LookedAtSocketClosed, LookedAtReadClosed,
     WakeComing

LEMMA StreamInvariant == Spec => []StreamInv
<1>1. StreamInv /\ UNCHANGED vars => StreamInv'
  <2>1. TypeOK /\ UNCHANGED vars => TypeOK'
    <3> USE DEF vars, handle, task, socket
    <3>1. BuffersOK /\ UNCHANGED vars => BuffersOK'
      BY DEF BuffersOK
    <3>2. WakersOK /\ FlagsOK /\ UNCHANGED vars => (WakersOK /\ FlagsOK)'
      BY DEF WakersOK, FlagsOK
    <3>3. PlacesOK /\ UNCHANGED vars => PlacesOK'
      BY DEF PlacesOK
    <3> QED BY <3>1, <3>2, <3>3 DEF TypeOK
  <2> QED
    BY <2>1 DEF StreamInv, NoMoreWrites, CloseInv, FinBehindAllData, ReaderInv, WakeInv,
       Registered, LookedAtRecv, LookedAtSocketClosed, LookedAtReadClosed, WakeComing,
       EofInv, ReceiveOver, vars, handle, task, socket
<1>2. StreamInv /\ [Next]_vars => StreamInv'
  BY <1>1, StreamInvApp, StreamInvSockets, StreamInvNet DEF Next
<1> QED BY <1>2, StreamInvInit, PTL DEF Spec

-----------------------------------------------------------------------------
(* Theorems                                                                 *)

\* Neither poll_read, poll_write nor poll_sockets ever moves more than there is
\* or than there is room for, and every step is one the code has.
THEOREM TypeCorrect == Spec => []TypeOK
<1>1. StreamInv => TypeOK
  BY DEF StreamInv
<1> QED BY <1>1, StreamInvariant, PTL

\* poll_sockets never closes the send half in front of a byte that poll_write
\* has accepted, whatever the sizes of the buffers.
THEOREM FinIsLast == Spec => []FinBehindAllData
<1>1. StreamInv => FinBehindAllData
  BY DEF StreamInv
<1> QED BY <1>1, StreamInvariant, PTL

\* A reader that waits while there is something for it (bytes, or the end of
\* the stream) has its wake-up coming, wherever poll_sockets is: registering the
\* waker before the second look is enough, whatever the sizes of the buffers.
THEOREM NoReadWakeupLost == Spec => []NoLostReadWakeup
<1>1. StreamInv => NoLostReadWakeup
  BY DEF StreamInv, WakeInv, LookedAtRecv, LookedAtSocketClosed, LookedAtReadClosed,
     WakeComing, NoLostReadWakeup
<1> QED BY <1>1, StreamInvariant, PTL

\* A reader that was told of the end of the stream while the socket was in the set has
\* missed nothing: poll_sockets sets read_closed only behind the last byte, and neither
\* a later packet nor a later step of the loop brings one more, whatever the sizes.
THEOREM EndOfStreamIsTheEnd == Spec => []EofIsTheEnd
<1>1. StreamInv => EofIsTheEnd
  BY DEF StreamInv, EofInv, ReceiveOver, EofIsTheEnd
<1> QED BY <1>1, StreamInvariant, PTL
=============================================================================
