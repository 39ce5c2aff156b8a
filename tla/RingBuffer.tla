----------------------------- MODULE RingBuffer -----------------------------
(***************************************************************************)
(* LockFreeRingBuffer (src/src/tun/netstack/ring_buffer.rs), the byte queue *)
(* between a TCP socket loop and the application task that owns the stream. *)
(* One thread calls enqueue_slice, one calls dequeue_slice, and nothing but *)
(* the two atomic positions keeps them apart.                              *)
(*                                                                         *)
(* A call is three steps: read the other side's position and fix the size  *)
(* of the slice, copy it, publish the own position.  (The own position is  *)
(* written by nobody else.  An Acquire load that returns an old value is a *)
(* load made earlier, which the interleaving covers.)  A byte is named by  *)
(* its position in the stream.                                             *)
(***************************************************************************)
EXTENDS Integers

CONSTANTS
    Capacity,
    MaxBytes        \* bound on the length of the stream

ASSUME CapacityAssumption == Capacity \in Nat \ {0}

ASSUME MaxBytesAssumption == MaxBytes \in Nat

Slot == 0 .. (Capacity - 1)

VARIABLES
    buffer,      \* [Slot -> byte]
    write_pos,
    read_pos,
    wpc, wn,     \* enqueue_slice: where it is, and to_write
    rpc, rn,     \* dequeue_slice: where it is, and to_read
    out,         \* the buf argument of dequeue_slice
    sent, rcvd   \* bytes accepted and delivered so far, by the return values

vars == <<buffer, write_pos, read_pos, wpc, wn, rpc, rn, out, sent, rcvd>>

Zeros == [s \in Slot |-> 0]

Init ==
    /\ buffer = Zeros
    /\ write_pos = 0 /\ read_pos = 0
    /\ wpc = "idle" /\ wn = 0
    /\ rpc = "idle" /\ rn = 0
    /\ out = Zeros
    /\ sent = 0 /\ rcvd = 0

TypeOK ==
    /\ buffer \in [Slot -> Nat]
    /\ write_pos \in Slot /\ read_pos \in Slot
    /\ wpc \in {"idle", "copy", "publish"} /\ wn \in Slot
    /\ rpc \in {"idle", "copy", "publish"} /\ rn \in Slot
    /\ out \in [Slot -> Nat]
    /\ sent \in Nat /\ rcvd \in Nat

-----------------------------------------------------------------------------

Min2(a, b) == IF a <= b THEN a ELSE b

\* The room computed without the slot that tells full from empty.
SpaceWhole ==
    IF read_pos <= write_pos THEN Capacity - write_pos + read_pos
    ELSE read_pos - write_pos

\* The room enqueue_slice sees; one slot always stays free.
Space ==
    IF read_pos <= write_pos THEN Capacity - write_pos + read_pos - 1
    ELSE read_pos - write_pos - 1

\* The bytes dequeue_slice sees.
Available ==
    IF write_pos >= read_pos THEN write_pos - read_pos
    ELSE Capacity - read_pos + write_pos

\* The slots of the slice of n bytes at pos: one piece, or two when it wraps.
InSlice(s, pos, n) ==
    IF pos + n <= Capacity THEN pos <= s /\ s < pos + n
    ELSE pos <= s \/ s < n - (Capacity - pos)

\* Where in that slice slot s is: the second piece follows the first.
OffsetOf(s, pos) == IF pos <= s THEN s - pos ELSE (Capacity - pos) + s

\* The second piece read from where it would be had the first been left out.
SlotOfWrong(i, pos) == IF i < Capacity - pos THEN pos + i ELSE i

\* The slot of the i-th byte of the slice at pos.
SlotOf(i, pos) == IF i < Capacity - pos THEN pos + i ELSE i - (Capacity - pos)

Advance(pos, n) == (pos + n) % Capacity

-----------------------------------------------------------------------------
(* enqueue_slice                                                            *)

BeginEnqueue(len) ==
    /\ wpc = "idle"
    /\ sent + len <= MaxBytes
    /\ Min2(len, Space) # 0             \* otherwise the call returns 0
    /\ wn' = Min2(len, Space)
    /\ wpc' = "copy"
    /\ UNCHANGED <<buffer, write_pos, read_pos, rpc, rn, out, sent, rcvd>>

CopyIn ==
    /\ wpc = "copy"
    /\ buffer' = [s \in Slot |-> IF InSlice(s, write_pos, wn)
                                 THEN sent + OffsetOf(s, write_pos)
                                 ELSE buffer[s]]
    /\ wpc' = "publish"
    /\ UNCHANGED <<write_pos, read_pos, wn, rpc, rn, out, sent, rcvd>>

PublishWrite ==
    /\ wpc = "publish"
    /\ write_pos' = Advance(write_pos, wn)
    /\ sent' = sent + wn
    /\ wn' = 0
    /\ wpc' = "idle"
    /\ UNCHANGED <<buffer, read_pos, rpc, rn, out, rcvd>>

-----------------------------------------------------------------------------
(* dequeue_slice                                                            *)

BeginDequeue(len) ==
    /\ rpc = "idle"
    /\ Min2(len, Available) # 0         \* otherwise the call returns 0
    /\ rn' = Min2(len, Available)
    /\ rpc' = "copy"
    /\ UNCHANGED <<buffer, write_pos, read_pos, wpc, wn, out, sent, rcvd>>

CopyOut ==
    /\ rpc = "copy"
    /\ out' = [i \in Slot |-> IF i < rn THEN buffer[SlotOf(i, read_pos)] ELSE 0]
    /\ rpc' = "publish"
    /\ UNCHANGED <<buffer, write_pos, read_pos, wpc, wn, rn, sent, rcvd>>

PublishRead ==
    /\ rpc = "publish"
    /\ read_pos' = Advance(read_pos, rn)
    /\ rcvd' = rcvd + rn
    /\ rn' = 0
    /\ out' = Zeros
    /\ rpc' = "idle"
    /\ UNCHANGED <<buffer, write_pos, wpc, wn, sent>>

-----------------------------------------------------------------------------

\* is_empty and is_full, which both threads call.
is_empty == read_pos = write_pos

is_full == (write_pos + 1) % Capacity = read_pos

Enqueue == \/ \E len \in 1 .. MaxBytes : BeginEnqueue(len)
           \/ CopyIn
           \/ PublishWrite

Dequeue == \/ \E len \in 1 .. MaxBytes : BeginDequeue(len)
           \/ CopyOut
           \/ PublishRead

Next == Enqueue \/ Dequeue

Spec == Init /\ [][Next]_vars

-----------------------------------------------------------------------------
(* The inductive invariant.                                                 *)

\* The positions say how many bytes are in the buffer.
CountInv == sent - rcvd = Available

\* A call under way still has what it was promised when it looked.
ReservedInv == /\ wpc = "idle" <=> wn = 0
               /\ rpc = "idle" <=> rn = 0
               /\ wn <= Space
               /\ rn <= Available

\* The filled slots hold the stream from rcvd on.
ContentInv ==
    \A s \in Slot : OffsetOf(s, read_pos) < Available
                        => buffer[s] = rcvd + OffsetOf(s, read_pos)

\* The slots behind them hold what enqueue_slice has copied and not published.
CopiedInv ==
    wpc = "publish" =>
        \A s \in Slot : InSlice(s, write_pos, wn)
                            => buffer[s] = sent + OffsetOf(s, write_pos)

-----------------------------------------------------------------------------
(* Properties                                                               *)

\* What dequeue_slice hands out are the next bytes of the stream: nothing is
\* lost, repeated, reordered, or overwritten before it was copied.
InOrder ==
    rpc = "publish" => \A i \in Slot : i < rn => out[i] = rcvd + i

\* The slices being copied in and out never overlap, which is what the unsafe
\* impl Sync rests on.
NoDataRace ==
    wpc # "idle" /\ rpc # "idle" =>
        ~ \E s \in Slot : InSlice(s, write_pos, wn) /\ InSlice(s, read_pos, rn)

\* is_empty and is_full are exact: poll_read and the socket loop decide on them
\* whether to wait.
FlagsExact == /\ is_empty <=> sent = rcvd
              /\ is_full <=> sent - rcvd = Capacity - 1

RingInv == TypeOK /\ CountInv /\ ReservedInv /\ ContentInv /\ CopiedInv /\ InOrder

\* The ring buffer is a byte stream that holds at most Capacity - 1 bytes.
Channel == INSTANCE ByteChannel WITH Bound <- Capacity - 1

ChannelSpec == Channel!Spec
=============================================================================
