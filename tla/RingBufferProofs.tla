-------------------------- MODULE RingBufferProofs --------------------------
(***************************************************************************)
(* Theorems about the ring buffer, for every capacity and stream length.   *)
(***************************************************************************)
EXTENDS RingBuffer, TLAPS

USE CapacityAssumption, MaxBytesAssumption

\* The modulus of enqueue_slice and dequeue_slice takes off one lap at most.
LEMMA AdvanceOnce ==
    ASSUME NEW pos \in Slot, NEW n \in Slot
    PROVE  Advance(pos, n) = IF pos + n < Capacity THEN pos + n
                             ELSE pos + n - Capacity
BY DEF Advance, Slot

LEMMA InvInit == Init => RingInv
BY DEF Init, RingInv, TypeOK, CountInv, ReservedInv, ContentInv, CopiedInv, InOrder,
       Zeros, Slot, Available, Space, OffsetOf

LEMMA InvStep == RingInv /\ [Next]_vars => RingInv'
<1> SUFFICES ASSUME RingInv, [Next]_vars PROVE RingInv'
  OBVIOUS
<1>0. /\ Capacity \in Nat \ {0} /\ Slot = 0 .. (Capacity - 1)
      /\ Space \in Slot /\ Available \in Slot
      /\ Space + Available = Capacity - 1
  BY DEF RingInv, TypeOK, Slot, Space, Available
<1>1. ASSUME NEW len \in 1 .. MaxBytes, BeginEnqueue(len) PROVE RingInv'
  BY <1>0, <1>1 DEF BeginEnqueue, Min2, RingInv, TypeOK, CountInv, ReservedInv,
     ContentInv, CopiedInv, InOrder, Available, Space
<1>2. CASE CopyIn
  <2>1. TypeOK' /\ CountInv' /\ ReservedInv'
    BY <1>0, <1>2 DEF CopyIn, RingInv, TypeOK, CountInv, ReservedInv, Available, Space,
       InSlice, OffsetOf
  <2>2. ContentInv'
    BY <1>0, <1>2 DEF CopyIn, RingInv, TypeOK, ReservedInv, ContentInv, Available,
       Space, InSlice, OffsetOf
  <2>3. CopiedInv'
    BY <1>0, <1>2 DEF CopyIn, RingInv, TypeOK, CopiedInv
  <2>4. InOrder'
    BY <1>2 DEF CopyIn, RingInv, InOrder
  <2> QED BY <2>1, <2>2, <2>3, <2>4 DEF RingInv
<1>3. CASE PublishWrite
  <2>1. write_pos' = IF write_pos + wn < Capacity THEN write_pos + wn
                     ELSE write_pos + wn - Capacity
    BY <1>3, AdvanceOnce DEF PublishWrite, RingInv, TypeOK
  <2>2. TypeOK' /\ CountInv' /\ ReservedInv'
    BY <1>0, <1>3, <2>1 DEF PublishWrite, RingInv, TypeOK, CountInv, ReservedInv,
       Available, Space
  <2>3. ContentInv'
    <3> SUFFICES ASSUME NEW s \in Slot, (OffsetOf(s, read_pos) < Available)'
                 PROVE  (buffer[s] = rcvd + OffsetOf(s, read_pos))'
      BY DEF ContentInv
    <3>1. CASE OffsetOf(s, read_pos) < Available
      BY <1>3, <3>1 DEF PublishWrite, RingInv, ContentInv, OffsetOf
    <3>2. CASE ~(OffsetOf(s, read_pos) < Available)
      <4>1. /\ InSlice(s, write_pos, wn)
            /\ OffsetOf(s, read_pos) = Available + OffsetOf(s, write_pos)
        BY <1>0, <1>3, <2>1, <3>2 DEF PublishWrite, RingInv, TypeOK, ReservedInv,
           Available, Space, InSlice, OffsetOf
      <4>2. buffer[s] = sent + OffsetOf(s, write_pos)
        BY <1>3, <4>1 DEF PublishWrite, RingInv, CopiedInv
      <4>3. OffsetOf(s, write_pos) \in Int /\ OffsetOf(s, read_pos) \in Int
        BY <1>0 DEF RingInv, TypeOK, OffsetOf
      <4>4. buffer[s] = rcvd + OffsetOf(s, read_pos)
        BY <1>0, <4>1, <4>2, <4>3 DEF RingInv, TypeOK, CountInv
      <4> QED BY <1>3, <4>4 DEF PublishWrite, OffsetOf
    <3> QED BY <3>1, <3>2
  <2>4. CopiedInv'
    BY <1>3 DEF PublishWrite, CopiedInv
  <2>5. InOrder'
    BY <1>3 DEF PublishWrite, RingInv, InOrder
  <2> QED BY <2>2, <2>3, <2>4, <2>5 DEF RingInv
<1>4. ASSUME NEW len \in 1 .. MaxBytes, BeginDequeue(len) PROVE RingInv'
  BY <1>0, <1>4 DEF BeginDequeue, Min2, RingInv, TypeOK, CountInv, ReservedInv,
     ContentInv, CopiedInv, InOrder, Available, Space
<1>5. CASE CopyOut
  <2>1. TypeOK' /\ CountInv' /\ ReservedInv' /\ ContentInv' /\ CopiedInv'
    BY <1>0, <1>5 DEF CopyOut, RingInv, TypeOK, CountInv, ReservedInv, ContentInv,
       CopiedInv, Available, Space, SlotOf
  <2>2. InOrder'
    BY <1>0, <1>5 DEF CopyOut, RingInv, TypeOK, ReservedInv, ContentInv, InOrder,
       Available, SlotOf, OffsetOf
  <2> QED BY <2>1, <2>2 DEF RingInv
<1>6. CASE PublishRead
  <2>1. read_pos' = IF read_pos + rn < Capacity THEN read_pos + rn
                    ELSE read_pos + rn - Capacity
    BY <1>6, AdvanceOnce DEF PublishRead, RingInv, TypeOK
  <2>2. TypeOK' /\ CountInv' /\ ReservedInv'
    BY <1>0, <1>6, <2>1 DEF PublishRead, RingInv, TypeOK, CountInv, ReservedInv,
       Available, Space, Zeros
  <2>3. ContentInv'
    <3> SUFFICES ASSUME NEW s \in Slot, (OffsetOf(s, read_pos) < Available)'
                 PROVE  (buffer[s] = rcvd + OffsetOf(s, read_pos))'
      BY DEF ContentInv
    <3>1. /\ OffsetOf(s, read_pos) < Available
          /\ OffsetOf(s, read_pos') = OffsetOf(s, read_pos) - rn
      BY <1>0, <1>6, <2>1 DEF PublishRead, RingInv, TypeOK, ReservedInv, Available,
         OffsetOf
    <3>2. buffer[s] = rcvd + OffsetOf(s, read_pos)
      BY <3>1 DEF RingInv, ContentInv
    <3>3. OffsetOf(s, read_pos) \in Int
      BY <1>0 DEF RingInv, TypeOK, OffsetOf
    <3> QED BY <1>0, <1>6, <3>1, <3>2, <3>3 DEF PublishRead, RingInv, TypeOK
  <2>4. CopiedInv'
    BY <1>6 DEF PublishRead, RingInv, CopiedInv, InSlice, OffsetOf
  <2>5. InOrder'
    BY <1>6 DEF PublishRead, InOrder
  <2> QED BY <2>2, <2>3, <2>4, <2>5 DEF RingInv
<1>7. CASE UNCHANGED vars
  BY <1>7 DEF vars, RingInv, TypeOK, CountInv, ReservedInv, ContentInv, CopiedInv,
     InOrder, Available, Space
<1> QED BY <1>1, <1>2, <1>3, <1>4, <1>5, <1>6, <1>7 DEF Next, Enqueue, Dequeue

\* The inductive invariant of the ring buffer holds of every interleaving of
\* enqueue_slice and dequeue_slice.
THEOREM RingInvariant == Spec => []RingInv
BY InvInit, InvStep, PTL DEF Spec

\* dequeue_slice hands out the stream in order.
THEOREM DeliversInOrder == Spec => []InOrder
<1>1. RingInv => InOrder
  BY DEF RingInv
<1> QED BY <1>1, RingInvariant, PTL

\* enqueue_slice and dequeue_slice never touch the same slot at the same time.
THEOREM RaceFree == Spec => []NoDataRace
<1>1. RingInv => NoDataRace
  BY DEF RingInv, NoDataRace, TypeOK, ReservedInv, InSlice, Space, Available, Slot
<1> QED BY <1>1, RingInvariant, PTL

\* is_empty and is_full tell the truth about the stream.
THEOREM FlagsTellTheTruth == Spec => []FlagsExact
<1>1. RingInv => FlagsExact
  <2> SUFFICES ASSUME RingInv PROVE FlagsExact
    OBVIOUS
  <2>1. CASE Capacity = 1
    BY <2>1 DEF RingInv, TypeOK, CountInv, Slot, Available, FlagsExact, is_empty, is_full
  <2>2. CASE Capacity # 1
    <3>1. 1 \in Slot /\ (write_pos + 1) % Capacity = Advance(write_pos, 1)
      BY <2>2 DEF Slot, Advance
    <3>2. (write_pos + 1) % Capacity = IF write_pos + 1 < Capacity THEN write_pos + 1
                                       ELSE write_pos + 1 - Capacity
      BY <3>1, AdvanceOnce DEF RingInv, TypeOK
    <3> QED
      BY <3>2 DEF RingInv, TypeOK, CountInv, Slot, Available, FlagsExact, is_empty, is_full
  <2> QED BY <2>1, <2>2
<1> QED BY <1>1, RingInvariant, PTL

\* The ring buffer implements the bounded byte stream.
THEOREM ImplementsChannel == Spec => ChannelSpec
<1>1. Init => Channel!Init
  BY DEF Init, Channel!Init
<1>2. RingInv /\ [Next]_vars => [Channel!Next]_<<sent, rcvd>>
  <2> SUFFICES ASSUME RingInv, [Next]_vars PROVE [Channel!Next]_<<sent, rcvd>>
    OBVIOUS
  <2>1. CASE PublishWrite
    BY <2>1 DEF PublishWrite, RingInv, TypeOK, CountInv, ReservedInv, Slot, Space,
       Available, Channel!Next, Channel!Put
  <2>2. CASE PublishRead
    BY <2>2 DEF PublishRead, RingInv, TypeOK, CountInv, ReservedInv, Slot, Available,
       Channel!Next, Channel!Take
  <2>3. CASE UNCHANGED <<sent, rcvd>>
    BY <2>3
  <2> QED BY <2>1, <2>2, <2>3 DEF Next, Enqueue, Dequeue, BeginEnqueue, CopyIn,
          BeginDequeue, CopyOut, vars
<1> QED BY <1>1, <1>2, RingInvariant, PTL DEF Spec, ChannelSpec, Channel!Spec
=============================================================================
