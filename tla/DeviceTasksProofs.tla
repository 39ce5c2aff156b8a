-------------------------- MODULE DeviceTasksProofs --------------------------
(***************************************************************************)
(* Theorems about the device side, for any batch, packets, flows and       *)
(* interfaces: the reader keeps every segment in its place and in order,   *)
(* the writer answers for each packet, what GRO merges is split into what  *)
(* came in, ICMP flows outlive their senders and the callbacks of the      *)
(* interface monitor know the last scan.                                   *)
(***************************************************************************)
EXTENDS MCDeviceTasks, SequenceTheorems, FiniteSetTheorems, WellFoundedInduction,
        TLAPS

\* The parts share no state: a step of the device is one of each part, or leaves it alone.
LEMMA PartSteps ==
    [Next]_vars => /\ [ReaderNext]_readerVars
                   /\ [WriterNext]_writerVars
                   /\ [GroNext]_groVars
                   /\ [IcmpNext]_icmpVars
                   /\ [MonitorNext]_monitorVars
  BY DEF Next, vars, Others

-----------------------------------------------------------------------------
(* Sequences of segments                                                    *)

LEMMA TakeRest ==
    ASSUME NEW s \in Seq(Nat), NEW n \in Nat
    PROVE  /\ Take(s, n) \in Seq(Nat) /\ Rest(s, n) \in Seq(Nat)
           /\ Take(s, n) \o Rest(s, n) = s
           /\ n = 0 \/ Len(s) = 0 \/ Take(s, n) # <<>>
           /\ Len(s) <= n => Rest(s, n) = <<>>
  <1> DEFINE m == Least(n, Len(s))
  <1>1. m \in 0 .. Len(s) /\ Len(s) \in Nat /\ (Len(s) <= n => m = Len(s))
    BY LenProperties DEF Least
  <1>2. \A i \in 1 .. Len(s) : s[i] \in Nat
    BY ElementOfSeq
  <1> HIDE DEF m
  <1>3. SubSeq(s, 1, m) \in Seq(Nat) /\ Len(SubSeq(s, 1, m)) = m
        /\ \A i \in 1 .. m : SubSeq(s, 1, m)[i] = s[i]
    BY <1>1, <1>2, SubSeqProperties
  <1>4. SubSeq(s, m + 1, Len(s)) \in Seq(Nat) /\ Len(SubSeq(s, m + 1, Len(s))) = Len(s) - m
        /\ \A i \in 1 .. Len(s) - m : SubSeq(s, m + 1, Len(s))[i] = s[m + i]
    BY <1>1, <1>2, SubSeqProperties
  <1> DEFINE t == SubSeq(s, 1, m)
             r == SubSeq(s, m + 1, Len(s))
  <1> HIDE DEF t, r
  <1>5. t \o r \in Seq(Nat) /\ Len(t \o r) = Len(t) + Len(r)
        /\ \A i \in 1 .. Len(t) + Len(r) :
              (t \o r)[i] = IF i <= Len(t) THEN t[i] ELSE r[i - Len(t)]
    BY <1>3, <1>4, ConcatProperties DEF t, r
  <1>6. t \o r = s
    <2>1. Len(t) = m /\ Len(r) = Len(s) - m
          /\ (\A i \in 1 .. m : t[i] = s[i])
          /\ (\A i \in 1 .. Len(s) - m : r[i] = s[m + i])
      BY <1>3, <1>4 DEF t, r
    <2>2. ASSUME NEW i \in 1 .. Len(s) PROVE (t \o r)[i] = s[i]
      <3>1. i \in 1 .. Len(t) + Len(r)
        BY <1>1, <2>1
      <3>2. (t \o r)[i] = IF i <= m THEN t[i] ELSE r[i - m]
        BY <1>5, <2>1, <3>1
      <3>3. CASE i <= m
        <4>1. i \in 1 .. m
          BY <1>1, <3>3
        <4> QED BY <2>1, <3>2, <3>3, <4>1
      <3>4. CASE ~(i <= m)
        <4>1. i - m \in 1 .. Len(s) - m /\ m + (i - m) = i
          BY <1>1, <3>4
        <4> QED BY <2>1, <3>2, <3>4, <4>1
      <3> QED BY <3>3, <3>4
    <2>3. Len(t \o r) = Len(s)
      BY <1>1, <1>5, <2>1
    <2> QED BY <1>5, <2>2, <2>3, SeqEqual
  <1>7. Len(s) <= n => r = <<>>
    BY <1>1, SubSeqEmpty DEF r
  <1>8. n = 0 \/ Len(s) = 0 \/ t # <<>>
    BY <1>1, <1>3 DEF t, m, Least
  <1> QED BY <1>3, <1>4, <1>6, <1>7, <1>8 DEF t, r, m, Take, Rest

\* What is cut in two and then put behind s again.
LEMMA Regroup ==
    ASSUME NEW s \in Seq(Nat), NEW t \in Seq(Nat), NEW u \in Seq(Nat)
    PROVE  (s \o t) \o u = s \o (t \o u)
  BY ConcatAssociative, SMTT(60)

LEMMA CutBehind ==
    ASSUME NEW s \in Seq(Nat), NEW t \in Seq(Nat), NEW u \in Seq(Nat)
    PROVE  /\ s \o t \in Seq(Nat)
           /\ (s \o t) \o <<>> = s \o t
           /\ (s \o t) \o u = s \o (t \o u)
  <1>1. s \o t \in Seq(Nat)
    BY ConcatProperties
  <1>2. (s \o t) \o <<>> = s \o t
    BY <1>1, ConcatEmptySeq
  <1>3. (s \o t) \o u = s \o (t \o u)
    BY Regroup
  <1> QED BY <1>1, <1>2, <1>3

LEMMA ConcatSet ==
    ASSUME NEW s \in Seq(Nat), NEW t \in Seq(Nat)
    PROVE  ToSet(s \o t) = ToSet(s) \cup ToSet(t)
  <1>1. Len(s) \in Nat /\ Len(t) \in Nat
    BY LenProperties
  <1>2. DOMAIN s = 1 .. Len(s) /\ DOMAIN t = 1 .. Len(t)
        /\ DOMAIN (s \o t) = 1 .. Len(s) + Len(t)
        /\ \A i \in 1 .. Len(s) + Len(t) :
              (s \o t)[i] = IF i <= Len(s) THEN s[i] ELSE t[i - Len(s)]
    BY LenProperties, ConcatProperties
  <1>3. ToSet(s \o t) \subseteq ToSet(s) \cup ToSet(t)
    BY <1>1, <1>2 DEF ToSet
  <1>4. ToSet(s) \subseteq ToSet(s \o t)
    BY <1>1, <1>2 DEF ToSet
  <1>5. ASSUME NEW j \in 1 .. Len(t) PROVE t[j] \in ToSet(s \o t)
    <2>1. Len(s) + j \in 1 .. Len(s) + Len(t) /\ (s \o t)[Len(s) + j] = t[j]
      BY <1>1, <1>2
    <2> QED BY <1>2, <2>1 DEF ToSet
  <1> QED BY <1>2, <1>3, <1>4, <1>5 DEF ToSet

\* The segments of one frame are the next numbers, behind everything before them.
LEMMA FrameAppended ==
    ASSUME NEW s \in Seq(Nat), NEW discarded, NEW n \in Nat \ {0}, NEW f \in Nat,
           AllInOrder(s, discarded, n)
    PROVE  LET segs == [i \in 1 .. f |-> n + i - 1] IN
            /\ segs \in Seq(Nat) /\ Len(segs) = f /\ ToSet(segs) = n .. n + f - 1
            /\ AllInOrder(s \o segs, discarded, n + f)
  <1> DEFINE segs == [i \in 1 .. f |-> n + i - 1]
             k == s \o segs
  <1>1. segs \in Seq(Nat) /\ Len(segs) = f /\ DOMAIN segs = 1 .. f
    <2>1. segs \in [1 .. f -> Nat]
      OBVIOUS
    <2>2. segs \in Seq(Nat)
      BY <2>1, SeqDef
    <2> QED BY <2>1, <2>2, LenProperties
  <1>2. \A i \in 1 .. f : segs[i] = n + i - 1
    OBVIOUS
  <1> HIDE DEF segs
  <1>3. ToSet(segs) = n .. n + f - 1
    <2>1. \A i \in 1 .. f : segs[i] \in n .. n + f - 1
      BY <1>2
    <2>2. \A x \in n .. n + f - 1 : x - n + 1 \in 1 .. f /\ segs[x - n + 1] = x
      BY <1>2
    <2> QED BY <1>1, <2>1, <2>2 DEF ToSet
  <1>4. Len(s) \in Nat /\ DOMAIN s = 1 .. Len(s)
        /\ k \in Seq(Nat) /\ Len(k) = Len(s) + f
        /\ \A i \in 1 .. Len(s) + f : k[i] = IF i <= Len(s) THEN s[i] ELSE segs[i - Len(s)]
    BY <1>1, LenProperties, ConcatProperties
  <1>5. ToSet(k) = ToSet(s) \cup ToSet(segs)
    BY <1>1, ConcatSet
  <1> HIDE DEF k
  <1>6. \A i \in 1 .. Len(s) : s[i] \in 1 .. n - 1
    BY <1>4 DEF AllInOrder, ToSet
  <1>7. Increasing(k)
    <2> SUFFICES ASSUME NEW i \in 1 .. Len(s) + f, NEW j \in 1 .. Len(s) + f, i < j
                 PROVE  k[i] < k[j]
      BY <1>4 DEF Increasing
    <2>1. CASE j <= Len(s)
      BY <1>4, <2>1 DEF AllInOrder, Increasing
    <2>2. CASE i <= Len(s) /\ j > Len(s)
      <3>1. k[i] = s[i] /\ s[i] \in 1 .. n - 1
        BY <1>4, <1>6, <2>2
      <3>2. j - Len(s) \in 1 .. f /\ k[j] = segs[j - Len(s)]
        BY <1>4, <2>2
      <3> QED BY <1>2, <1>4, <3>1, <3>2
    <2>3. CASE i > Len(s)
      <3>1. i - Len(s) \in 1 .. f /\ j - Len(s) \in 1 .. f
        BY <1>4, <2>3
      <3>2. k[i] = segs[i - Len(s)] /\ k[j] = segs[j - Len(s)]
        BY <1>4, <2>3
      <3> QED BY <1>2, <1>4, <3>1, <3>2
    <2> QED BY <1>4, <2>1, <2>2, <2>3
  <1>8. ToSet(k) \cap discarded = {} /\ ToSet(k) \cup discarded = 1 .. n + f - 1
    BY <1>3, <1>5 DEF AllInOrder
  <1> QED BY <1>1, <1>3, <1>7, <1>8 DEF AllInOrder, segs, k

\* What is at the end may be discarded.
LEMMA EndDiscarded ==
    ASSUME NEW s \in Seq(Nat), NEW t \in Seq(Nat), NEW discarded, NEW n \in Nat \ {0},
           AllInOrder(s \o t, discarded, n)
    PROVE  AllInOrder(s, discarded \cup ToSet(t), n)
  <1>1. Len(s) \in Nat /\ Len(t) \in Nat /\ Len(s \o t) = Len(s) + Len(t)
        /\ DOMAIN s = 1 .. Len(s) /\ DOMAIN t = 1 .. Len(t)
        /\ \A i \in 1 .. Len(s) + Len(t) :
              (s \o t)[i] = IF i <= Len(s) THEN s[i] ELSE t[i - Len(s)]
    BY LenProperties, ConcatProperties
  <1>2. \A i \in 1 .. Len(s) : s[i] \in Nat
    BY ElementOfSeq
  <1>3. Increasing(s)
    <2> SUFFICES ASSUME NEW i \in 1 .. Len(s), NEW j \in 1 .. Len(s), i < j
                 PROVE  s[i] < s[j]
      BY DEF Increasing
    <2>1. i \in 1 .. Len(s \o t) /\ j \in 1 .. Len(s \o t)
      BY <1>1
    <2>2. (s \o t)[i] < (s \o t)[j]
      BY <2>1 DEF AllInOrder, Increasing
    <2> QED BY <1>1, <2>2
  <1>4. ASSUME NEW i \in 1 .. Len(s), NEW j \in 1 .. Len(t) PROVE s[i] < t[j]
    <2>1. i \in 1 .. Len(s \o t) /\ Len(s) + j \in 1 .. Len(s \o t) /\ i < Len(s) + j
      BY <1>1
    <2>2. (s \o t)[i] < (s \o t)[Len(s) + j]
      BY <2>1 DEF AllInOrder, Increasing
    <2> QED BY <1>1, <2>2
  <1>5. ToSet(s) \cap ToSet(t) = {}
    BY <1>1, <1>2, <1>4 DEF ToSet
  <1> QED BY <1>3, <1>5, ConcatSet DEF AllInOrder

-----------------------------------------------------------------------------
(* The reader                                                               *)

LEMMA ReaderInvInit == ReaderInit => ReaderInv
  <1> SUFFICES ASSUME ReaderInit PROVE ReaderInv
    OBVIOUS
  <1>1. <<>> \in Seq(Nat) /\ Len(<<>>) = 0 /\ <<>> \o <<>> \o <<>> = <<>>
    BY EmptySeq, ConcatEmptySeq
  <1>2. AllInOrder(<<>>, {}, 1)
    BY <1>1 DEF AllInOrder, Increasing, ToSet
  <1> QED BY <1>1, <1>2, NativeTunAssumption DEF ReaderInit, ReaderInv, ReaderTypeOK, SegmentsInOrder

\* The parts of ReaderInv', for the steps below.
LEMMA ReaderInvHolds ==
    ASSUME batch' \in Nat \ {0}, reading' \in {"idle", "device", "closed"},
           nextSegment' \in Nat \ {0},
           pending_segments' \in Seq(Nat), held' \in Seq(Nat), delivered' \in Seq(Nat),
           reading' = "device" => pending_segments' = <<>>,
           reading' # "device" => held' = <<>>,
           Len(held') < batch',
           AllInOrder(delivered' \o held' \o pending_segments', lost', nextSegment')
    PROVE  ReaderInv'
  BY DEF ReaderInv, ReaderTypeOK, SegmentsInOrder

LEMMA ReaderInvStep == ReaderInv /\ [ReaderNext]_readerVars => ReaderInv'
  <1> SUFFICES ASSUME ReaderInv, [ReaderNext]_readerVars PROVE ReaderInv'
    OBVIOUS
  <1> DEFINE d == delivered
             h == held
             p == pending_segments
  <1>1. /\ d \in Seq(Nat) /\ h \in Seq(Nat) /\ p \in Seq(Nat)
        /\ batch \in Nat \ {0} /\ nextSegment \in Nat \ {0}
        /\ reading \in {"idle", "device", "closed"}
        /\ Len(h) < batch
        /\ reading = "device" => p = <<>>
        /\ reading # "device" => h = <<>>
        /\ AllInOrder(d \o h \o p, lost, nextSegment)
    BY DEF ReaderInv, ReaderTypeOK, SegmentsInOrder
  <1>2. /\ <<>> \in Seq(Nat) /\ Len(<<>>) = 0
        /\ Len(h) \in Nat /\ Len(p) \in Nat
        /\ d \o h \in Seq(Nat) /\ d \o p \in Seq(Nat)
        /\ d \o <<>> = d /\ h \o <<>> = h
        /\ (d \o h) \o <<>> = d \o h /\ (d \o p) \o <<>> = d \o p
    BY <1>1, EmptySeq, LenProperties, CutBehind, ConcatEmptySeq
  <1>3. reading = "device" => AllInOrder(d \o h, lost, nextSegment)
    BY <1>1, <1>2
  <1>4. reading # "device" => AllInOrder(d \o p, lost, nextSegment)
    BY <1>1, <1>2
  <1>5. CASE BatchRead
    <2> DEFINE t == Take(p, batch)
               r == Rest(p, batch)
    <2>1. t \in Seq(Nat) /\ r \in Seq(Nat) /\ t \o r = p /\ (Len(p) <= batch => r = <<>>)
      BY <1>1, TakeRest
    <2>2. AllInOrder(d \o p, lost, nextSegment) /\ held = <<>>
      BY <1>1, <1>4, <1>5 DEF BatchRead
    <2>3. CASE Len(p) >= batch
      <3>1. delivered' = d \o t /\ held' = <<>> /\ pending_segments' = r
            /\ reading' = "idle" /\ UNCHANGED <<batch, lost, nextSegment>>
        BY <1>5, <2>2, <2>3 DEF BatchRead
      <3> HIDE DEF t, r
      <3>2. d \o t \in Seq(Nat) /\ (d \o t) \o <<>> = d \o t
            /\ (d \o t) \o r = d \o p
        <4>1. d \in Seq(Nat) /\ t \in Seq(Nat) /\ r \in Seq(Nat)
          BY <1>1, <2>1
        <4>2. d \o t \in Seq(Nat) /\ (d \o t) \o <<>> = d \o t
          BY <4>1, CutBehind
        <4>3. (d \o t) \o r = d \o (t \o r)
          BY <4>1, Regroup
        <4> QED BY <2>1, <4>2, <4>3
      <3>3. AllInOrder(delivered' \o held' \o pending_segments', lost', nextSegment')
        BY <2>2, <3>1, <3>2
      <3> QED BY <1>1, <1>2, <2>1, <3>1, <3>2, <3>3, ReaderInvHolds
    <2>4. CASE ~(Len(p) >= batch)
      <3>1. held' = p /\ pending_segments' = <<>> /\ Len(p) < batch
            /\ reading' = "device" /\ UNCHANGED <<batch, delivered, lost, nextSegment>>
        BY <1>1, <1>2, <1>5, <2>1, <2>4 DEF BatchRead
      <3>2. AllInOrder(delivered' \o held' \o pending_segments', lost', nextSegment')
        BY <1>2, <2>2, <3>1
      <3> QED BY <1>1, <1>2, <3>1, <3>2, ReaderInvHolds
    <2> QED BY <2>3, <2>4
  <1>6. ASSUME NEW n \in 1 .. MaxFrame, DeviceRead(n) PROVE ReaderInv'
    <2> DEFINE segs == [i \in 1 .. n |-> nextSegment + i - 1]
               t == Take(segs, batch - Len(h))
               r == Rest(segs, batch - Len(h))
    <2>1. /\ held' = <<>> /\ reading' = "idle"
          /\ nextSegment' = nextSegment + n
          /\ batch' = batch /\ n \in Nat
      BY <1>6 DEF DeviceRead
    <2>2. p = <<>> /\ AllInOrder(d \o h, lost, nextSegment)
      BY <1>1, <1>3, <1>6 DEF DeviceRead
    <2>3. nextSegment + n \in Nat \ {0} /\ batch - Len(h) \in Nat
      BY <1>1, <1>2, <2>1
    <2>4. segs \in Seq(Nat) /\ AllInOrder((d \o h) \o segs, lost, nextSegment + n)
      <3>1. d \o h \in Seq(Nat) /\ nextSegment \in Nat \ {0} /\ n \in Nat
        BY <1>1, <1>2, <2>1
      <3>2. segs \in Seq(Nat)
        BY <2>2, <3>1, FrameAppended
      <3>3. AllInOrder((d \o h) \o segs, lost, nextSegment + n)
        BY <2>2, <3>1, FrameAppended
      <3> QED BY <3>2, <3>3
    <2>5. CASE CanSplit(n)
      <3>1. delivered' = (d \o h) \o t /\ pending_segments' = r /\ lost' = lost
        BY <1>6, <2>5 DEF DeviceRead
      <3> HIDE DEF segs
      <3>2. t \in Seq(Nat) /\ r \in Seq(Nat) /\ t \o r = segs
        BY <2>3, <2>4, TakeRest
      <3> HIDE DEF t, r
      <3>3. (d \o h) \o t \in Seq(Nat) /\ ((d \o h) \o t) \o <<>> = (d \o h) \o t
            /\ ((d \o h) \o t) \o r = (d \o h) \o segs
        BY <1>2, <3>2, CutBehind
      <3>4. AllInOrder(delivered' \o held' \o pending_segments', lost', nextSegment')
        BY <2>1, <2>4, <3>1, <3>3
      <3> QED BY <1>1, <1>2, <2>1, <2>3, <3>1, <3>2, <3>3, <3>4, ReaderInvHolds
    <2>6. CASE ~CanSplit(n)
      <3> DEFINE gone == lost \cup ToSet(segs) \cup ToSet(h)
      <3>1. delivered' = d /\ pending_segments' = <<>> /\ lost' = gone
        BY <1>6, <2>2, <2>6 DEF DeviceRead
      <3> HIDE DEF segs
      <3>2. AllInOrder(d \o h, lost \cup ToSet(segs), nextSegment + n)
        BY <1>2, <2>3, <2>4, EndDiscarded
      <3>3. AllInOrder(d, gone, nextSegment + n)
        BY <1>1, <2>3, <3>2, EndDiscarded
      <3> HIDE DEF gone
      <3>4. AllInOrder(delivered' \o held' \o pending_segments', lost', nextSegment')
        BY <1>2, <2>1, <3>1, <3>3
      <3> QED BY <1>1, <1>2, <2>1, <2>3, <3>1, <3>4, ReaderInvHolds
    <2> QED BY <2>5, <2>6
  <1>7. CASE ReadError
    <2>1. delivered' = d /\ held' = <<>> /\ reading' = "idle" /\ p = <<>>
          /\ pending_segments' = <<>> /\ lost' = lost \cup ToSet(h)
          /\ UNCHANGED <<batch, nextSegment>>
      BY <1>1, <1>7 DEF ReadError
    <2>2. AllInOrder(d, lost \cup ToSet(h), nextSegment)
      BY <1>1, <1>3, <1>7, EndDiscarded DEF ReadError
    <2>3. AllInOrder(delivered' \o held' \o pending_segments', lost', nextSegment')
      BY <1>2, <2>1, <2>2
    <2> QED BY <1>1, <1>2, <2>1, <2>3, ReaderInvHolds
  <1>8. CASE ReadEof
    <2>1. delivered' = d \o h /\ held' = <<>> /\ reading' \in {"idle", "closed"}
          /\ pending_segments' = <<>> /\ UNCHANGED <<batch, lost, nextSegment>>
      BY <1>1, <1>8 DEF ReadEof
    <2>2. AllInOrder(delivered' \o held' \o pending_segments', lost', nextSegment')
      BY <1>2, <1>3, <1>8, <2>1 DEF ReadEof
    <2> QED BY <1>1, <1>2, <2>1, <2>2, ReaderInvHolds
  <1>9. CASE UNCHANGED readerVars
    BY <1>9 DEF readerVars, ReaderInv, ReaderTypeOK, SegmentsInOrder
  <1> QED BY <1>5, <1>6, <1>7, <1>8, <1>9 DEF ReaderNext

\* No segment of the device is lost, duplicated or reordered by the left-over segments,
\* the split or the batches: whatever is not with the stack, in the call or left over
\* went with a failed read or split.
THEOREM SegmentsKeepOrder == Spec => []SegmentsInOrder
  <1>1. Init => ReaderInv
    BY ReaderInvInit DEF Init
  <1>2. ReaderInv => SegmentsInOrder
    BY DEF ReaderInv
  <1> QED BY <1>1, <1>2, ReaderInvStep, PartSteps, PTL DEF Spec

\* do_batch_read goes to the device only with a buffer to spare, so that read_packet,
\* with its one buffer, goes there empty-handed.
THEOREM SinglePacketReads == Spec => []ReadPacketHoldsNothing
  <1>1. Init => ReaderInv
    BY ReaderInvInit DEF Init
  <1>2. ReaderInv => ReadPacketHoldsNothing
    BY EmptySeq DEF ReaderInv, ReaderTypeOK, ReadPacketHoldsNothing
  <1> QED BY <1>1, <1>2, ReaderInvStep, PartSteps, PTL DEF Spec

-----------------------------------------------------------------------------
(* The writer                                                               *)

LEMMA CountAppend ==
    ASSUME NEW s \in Seq(Content), NEW q \in Content, NEW p
    PROVE  /\ Append(s, q) \in Seq(Content)
           /\ Count(s, p) \in Nat
           /\ Count(Append(s, q), p) = Count(s, p) + (IF q = p THEN 1 ELSE 0)
  <1> DEFINE n == Len(s)
             at == {i \in DOMAIN s : s[i] = p}
             after == {i \in DOMAIN Append(s, q) : Append(s, q)[i] = p}
  <1>1. n \in Nat /\ DOMAIN s = 1 .. n
    BY LenProperties
  <1>2. /\ Append(s, q) \in Seq(Content) /\ DOMAIN Append(s, q) = 1 .. n + 1
        /\ \A i \in 1 .. n : Append(s, q)[i] = s[i]
        /\ Append(s, q)[n + 1] = q
    <2>1. /\ Append(s, q) \in Seq(Content) /\ Len(Append(s, q)) = n + 1
          /\ \A i \in 1 .. n : Append(s, q)[i] = s[i]
          /\ Append(s, q)[n + 1] = q
      BY AppendProperties
    <2> QED BY <2>1, LenProperties
  <1> HIDE DEF n
  <1>3. IsFiniteSet(1 .. n) /\ at \in SUBSET (1 .. n)
    BY <1>1, FS_Interval
  <1>4. IsFiniteSet(at)
    BY <1>3, FS_Subset
  <1>5. Cardinality(at) \in Nat
    BY <1>4, FS_CardinalityType
  <1>6. n + 1 \notin at
    BY <1>1
  <1>7. Count(s, p) = Cardinality(at) /\ Count(Append(s, q), p) = Cardinality(after)
    BY DEF Count
  <1> HIDE DEF at, after
  <1>8. CASE q = p
    <2>1. after = at \cup {n + 1}
      BY <1>1, <1>2, <1>8 DEF at, after
    <2>2. Cardinality(at \cup {n + 1}) = Cardinality(at) + 1
      BY <1>4, <1>6, FS_AddElement
    <2> QED BY <1>2, <1>5, <1>7, <1>8, <2>1, <2>2
  <1>9. CASE q # p
    <2>1. after = at
      BY <1>1, <1>2, <1>9 DEF at, after
    <2> QED BY <1>2, <1>5, <1>7, <1>9, <2>1
  <1> QED BY <1>8, <1>9

LEMMA WriterInvInit == WriterInit => WriterInv
  <1> SUFFICES ASSUME WriterInit PROVE WriterInv
    OBVIOUS
  <1>1. <<>> \in Seq(Content) /\ \A p : {i \in DOMAIN <<>> : <<>>[i] = p} = {}
    BY EmptySeq, LenProperties
  <1>2. \A p : Count(<<>>, p) = 0
    BY <1>1, FS_EmptySet DEF Count
  <1> QED BY <1>1, <1>2, NativeTunAssumption DEF WriterInit, WriterInv, WriterTypeOK, Owed

LEMMA WriterTypeStep == WriterTypeOK /\ [WriterNext]_writerVars => WriterTypeOK'
  <1> SUFFICES ASSUME WriterTypeOK, [WriterNext]_writerVars PROVE WriterTypeOK'
    OBVIOUS
  <1> USE DEF WriterTypeOK
  <1>1. \A s \in Seq(Content), q \in Content : Append(s, q) \in Seq(Content)
    BY AppendProperties
  <1>2. ASSUME NEW p \in Content, WriteStart(p) PROVE WriterTypeOK'
    BY <1>1, <1>2 DEF WriteStart
  <1>3. ASSUME call # NoPacket, NEW before \in Seq(Content), Stage(before), UNCHANGED calls
        PROVE  WriterTypeOK'
    BY <1>1, <1>3 DEF Stage, Done, Answer
  <1>4. CASE PollWrite
    BY <1>1, <1>3, <1>4 DEF PollWrite, Done, Answer
  <1>5. CASE Abandon \/ ProbeTcpGro \/ UNCHANGED writerVars
    BY <1>5 DEF Abandon, ProbeTcpGro, writerVars
  <1> QED BY <1>2, <1>4, <1>5 DEF WriterNext

LEMMA WriterInvStep == WriterInv /\ [WriterNext]_writerVars => WriterInv'
  <1> SUFFICES ASSUME WriterInv, [WriterNext]_writerVars PROVE WriterInv'
    OBVIOUS
  <1>1. WriterTypeOK /\ WriterTypeOK' /\ NoPacket \notin Content
    BY WriterTypeStep, NativeTunAssumption DEF WriterInv
  <1> SUFFICES ASSUME NEW p \in Content
               PROVE  /\ Count(written', p) + Owed(p)' <= Count(calls', p)
                      /\ Count(reported', p) <= Count(written', p)
    BY <1>1 DEF WriterInv
  <1> DEFINE w == Count(written, p)
             c == Count(calls, p)
             r == Count(reported, p)
             One(q) == IF q = p THEN 1 ELSE 0
  <1>2. \A q \in Content : /\ Count(Append(written, q), p) = w + One(q)
                          /\ Count(Append(calls, q), p) = c + One(q)
                          /\ Count(Append(reported, q), p) = r + One(q)
    BY <1>1, CountAppend DEF WriterTypeOK
  <1>3. w \in Nat /\ c \in Nat /\ r \in Nat
    BY <1>1, CountAppend DEF WriterTypeOK
  <1>4. w + Owed(p) <= c /\ r <= w
    BY DEF WriterInv
  <1> HIDE DEF w, c, r
  <1>5. ASSUME NEW q \in Content, WriteStart(q)
        PROVE  /\ Count(written', p) + Owed(p)' <= Count(calls', p)
               /\ Count(reported', p) <= Count(written', p)
    <2>1. Count(written', p) = w /\ Count(calls', p) = c + One(q) /\ Count(reported', p) = r
      BY <1>2, <1>5 DEF WriteStart, w, r
    <2>2. Owed(p)' <= Owed(p) + One(q) /\ Owed(p) \in 0 .. 1 /\ Owed(p)' \in 0 .. 1
      BY <1>5 DEF WriteStart, Owed
    <2> QED BY <1>3, <1>4, <2>1, <2>2
  <1>6. CASE PollWrite
    <2>1. calls' = calls /\ call \in Content
      BY <1>1, <1>6 DEF PollWrite, WriterTypeOK
    <2>2. Count(calls', p) = c
      BY <2>1 DEF c
    <2>3. ASSUME Stage(written), write_buf = NoPacket
          PROVE  /\ Count(written', p) + Owed(p)' <= Count(calls', p)
                 /\ Count(reported', p) <= Count(written', p)
      <3>1. Owed(p) = One(call)
        BY <1>1, <2>3 DEF Owed
      <3>2. \/ /\ Count(written', p) = w + One(call) /\ Count(reported', p) = r + One(call)
               /\ Owed(p)' = 0
            \/ /\ Count(written', p) = w /\ Count(reported', p) = r
               /\ Owed(p)' = One(call)
        BY <1>1, <1>2, <2>1, <2>3 DEF Stage, Done, Answer, Owed, w, r
      <3> QED BY <1>3, <1>4, <2>2, <3>1, <3>2
    <2>4. ASSUME Stage(Append(written, write_buf)), write_buf \in Content, call # write_buf
          PROVE  /\ Count(written', p) + Owed(p)' <= Count(calls', p)
                 /\ Count(reported', p) <= Count(written', p)
      <3> DEFINE before == Append(written, write_buf)
      <3>1. Owed(p) = One(call) + One(write_buf)
        BY <2>4 DEF Owed
      <3>2. before \in Seq(Content) /\ Count(before, p) = w + One(write_buf)
            /\ Count(Append(before, call), p) = Count(before, p) + One(call)
        <4>1. before \in Seq(Content) /\ Count(before, p) = w + One(write_buf)
          BY <1>1, <1>2, <2>4, CountAppend DEF WriterTypeOK
        <4> HIDE DEF before
        <4>2. Count(Append(before, call), p) = Count(before, p) + One(call)
          BY <2>1, <4>1, CountAppend
        <4> QED BY <4>1, <4>2
      <3> HIDE DEF before
      <3>3. Stage(before)
        BY <2>4 DEF before
      <3>4. \/ /\ written' = Append(before, call) /\ reported' = Append(reported, call)
               /\ write_buf' = NoPacket /\ call' = NoPacket
            \/ /\ written' = before /\ reported' = reported
               /\ write_buf' = call /\ call' \in {call, NoPacket}
        BY <3>3 DEF Stage, Done, Answer
      <3>5. \/ /\ Count(written', p) = w + One(write_buf) + One(call)
               /\ Count(reported', p) = r + One(call) /\ Owed(p)' = 0
            \/ /\ Count(written', p) = w + One(write_buf) /\ Count(reported', p) = r
               /\ Owed(p)' = One(call)
        BY <1>1, <1>2, <2>1, <3>2, <3>4 DEF Owed, r
      <3> QED BY <1>3, <1>4, <2>2, <3>1, <3>5
    <2>5. CASE write_buf = NoPacket
      BY <1>6, <2>3, <2>5 DEF PollWrite
    <2>6. CASE write_buf # NoPacket
      <3>1. write_buf \in Content
        BY <1>1, <2>6 DEF WriterTypeOK
      <3>2. CASE Stage(Append(written, write_buf)) /\ call # write_buf
        BY <2>4, <3>1, <3>2
      <3>3. CASE /\ call = write_buf /\ written' = Append(written, write_buf)
                 /\ write_buf' = NoPacket /\ Done(call)
        <4>1. Count(written', p) = w + One(call) /\ Count(reported', p) = r + One(call)
          BY <1>2, <2>1, <3>3 DEF Done
        <4>2. Owed(p) = One(call) /\ Owed(p)' = 0
          BY <1>1, <3>3 DEF Done, Owed
        <4> QED BY <1>3, <1>4, <2>2, <4>1, <4>2
      <3>4. CASE UNCHANGED <<write_buf, written, reported>> /\ call' \in {call, NoPacket}
        <4>1. Count(written', p) = w /\ Count(reported', p) = r
          BY <3>4 DEF w, r
        <4>2. Owed(p)' <= Owed(p) /\ Owed(p) \in 0 .. 1 /\ Owed(p)' \in 0 .. 1
          BY <1>1, <3>4 DEF Owed
        <4> QED BY <1>3, <1>4, <2>2, <4>1, <4>2
      <3> QED BY <1>6, <2>6, <3>2, <3>3, <3>4 DEF PollWrite, Answer, SamePacket
    <2> QED BY <2>5, <2>6
  <1>7. CASE Abandon \/ ProbeTcpGro \/ UNCHANGED writerVars
    <2>1. UNCHANGED <<write_buf, written, reported, calls>> /\ call' \in {call, NoPacket}
      BY <1>7 DEF Abandon, ProbeTcpGro, writerVars
    <2>2. Owed(p)' <= Owed(p) /\ Owed(p) \in 0 .. 1 /\ Owed(p)' \in 0 .. 1
      BY <1>1, <2>1 DEF Owed
    <2> QED BY <1>3, <1>4, <2>1, <2>2 DEF w, c, r
  <1> QED BY <1>5, <1>6, <1>7 DEF WriterNext

\* The staging buffer of poll_write, which outlives failed and abandoned writes, never
\* makes the kernel take a packet more often than it was asked to, and never lets
\* write_all answer Ok for a packet the kernel has not taken.
THEOREM WritesStayHonest == Spec => []WritesAreHonest
  <1>1. Init => WriterInv
    BY WriterInvInit DEF Init
  <1>2. WriterInv => WritesAreHonest
    <2> SUFFICES ASSUME WriterInv, NEW p \in Content
                 PROVE  Count(written, p) <= Count(calls, p) /\ Count(reported, p) <= Count(written, p)
      BY DEF WritesAreHonest
    <2>1. /\ Count(written, p) + Owed(p) <= Count(calls, p)
          /\ Count(reported, p) <= Count(written, p)
      BY DEF WriterInv
    <2>2. Count(written, p) \in Nat /\ Count(calls, p) \in Nat
      BY CountAppend DEF WriterInv, WriterTypeOK
    <2> QED BY <2>1, <2>2 DEF Owed
  <1> QED BY <1>1, <1>2, WriterInvStep, PartSteps, PTL DEF Spec

-----------------------------------------------------------------------------
(* Cutting bytes into segments                                              *)

\* Multiples of b are b apart.
LEMMA Multiples ==
    ASSUME NEW b \in Nat \ {0}, NEW j \in Nat, NEW k \in Nat, j < k
    PROVE  b * j + b <= b * k
  <1>1. PICK d \in Nat : k = j + 1 + d
    <2>1. k - j - 1 \in Nat /\ k = j + 1 + (k - j - 1)
      OBVIOUS
    <2> QED BY <2>1
  <1>2. b * k = b * j + b + b * d
    BY <1>1
  <1>3. b * d \in Nat
    OBVIOUS
  <1> QED BY <1>2, <1>3

\* What divides into is the only multiple just below.
LEMMA Quotient ==
    ASSUME NEW x \in Nat, NEW b \in Nat \ {0}, NEW k \in Nat, b * k <= x, x < b * k + b
    PROVE  x \div b = k /\ x % b = x - b * k
  <1>1. x % b \in 0 .. b - 1 /\ x \div b \in Nat /\ x = b * (x \div b) + (x % b)
    OBVIOUS
  <1> DEFINE j == x \div b
  <1>2. b * j \in Nat /\ b * k \in Nat /\ b * j <= x /\ x < b * j + b
    BY <1>1
  <1> HIDE DEF j
  <1>3. j \in Nat
    BY <1>1 DEF j
  <1>4. j = k
    <2>1. CASE j < k
      BY <1>2, <1>3, <2>1, Multiples
    <2>2. CASE k < j
      BY <1>2, <1>3, <2>2, Multiples
    <2> QED BY <1>3, <2>1, <2>2
  <1>5. x \div b = k
    BY <1>4 DEF j
  <1> QED BY <1>1, <1>5

\* Sequence numbers may be reduced at any time.
LEMMA ModAdd ==
    ASSUME NEW x \in Nat, NEW y \in Nat, NEW s \in Nat \ {0}
    PROVE  ((x % s) + y) % s = (x + y) % s
  <1> DEFINE q == x \div s
             z == (x % s) + y
             u == z \div s
  <1>1. q \in Nat /\ x % s \in 0 .. s - 1 /\ x = s * q + (x % s)
    OBVIOUS
  <1>2. z \in Nat
    BY <1>1
  <1>3. x + y = s * q + z
    BY <1>1
  <1> HIDE DEF q, z
  <1>4. u \in Nat /\ z % s \in 0 .. s - 1 /\ z = s * u + (z % s)
    BY <1>2
  <1> HIDE DEF u
  <1>5. q + u \in Nat /\ s * (q + u) = s * q + s * u /\ s * (q + u) \in Nat
    BY <1>1, <1>4
  <1>6. x + y = s * (q + u) + (z % s)
    BY <1>1, <1>3, <1>4, <1>5
  <1>7. s * (q + u) <= x + y /\ x + y < s * (q + u) + s
    BY <1>4, <1>5, <1>6
  <1>8. (x + y) % s = (x + y) - s * (q + u)
    <2> DEFINE t == x + y
               k == q + u
    <2>1. t \in Nat /\ k \in Nat /\ s * k <= t /\ t < s * k + s
      BY <1>5, <1>7
    <2> HIDE DEF t, k
    <2>2. t % s = t - s * k
      BY <2>1, Quotient
    <2> QED BY <2>2 DEF t, k
  <1>9. (x + y) % s = z % s
    BY <1>4, <1>5, <1>6, <1>8
  <1> QED BY <1>9 DEF z

Byte == UNION {ToSet(p.data) : p \in GroPackets}

\* The i-th g bytes of d, and that they are m pieces.
Piece(d, g, i) == SubSeq(d, (i - 1) * g + 1, IF i * g < Len(d) THEN i * g ELSE Len(d))
Pieces(d, g, m) == /\ d \in Seq(Byte) /\ g \in Nat \ {0} /\ m \in Nat \ {0}
                   /\ g * (m - 1) < Len(d) /\ Len(d) <= g * m

LEMMA PieceAt ==
    ASSUME NEW d, NEW g, NEW m, Pieces(d, g, m), NEW i \in 1 .. m
    PROVE  /\ Piece(d, g, i) \in Seq(Byte)
           /\ Len(Piece(d, g, i)) = IF i < m THEN g ELSE Len(d) - g * (m - 1)
           /\ \A h \in 1 .. Len(Piece(d, g, i)) :
                 Piece(d, g, i)[h] = d[(i - 1) * g + h] /\ (i - 1) * g + h \in 1 .. Len(d)
  <1> DEFINE a == (i - 1) * g
             z == IF i * g < Len(d) THEN i * g ELSE Len(d)
             n == Len(d)
  <1>1. /\ d \in Seq(Byte) /\ n \in Nat /\ g \in Nat \ {0} /\ m \in Nat \ {0}
        /\ i \in Nat /\ i - 1 \in Nat
        /\ m - 1 \in Nat /\ g * (m - 1) < n /\ n <= g * m
    BY LenProperties DEF Pieces
  <1>2. a \in Nat /\ i * g = a + g /\ a = g * (i - 1)
    BY <1>1
  <1>3. i < m => a + g <= g * (m - 1)
    BY <1>1, <1>2, Multiples
  <1>4. i = m => a = g * (m - 1) /\ a + g = g * m
    BY <1>1, <1>2
  <1>5. g * (m - 1) \in Nat /\ g * m \in Nat
    BY <1>1
  <1>6. z = IF i < m THEN a + g ELSE n
    BY <1>1, <1>2, <1>3, <1>4, <1>5
  <1> HIDE DEF a, z, n
  <1>7. a < z /\ z <= n /\ z \in Nat /\ z - a = IF i < m THEN g ELSE n - g * (m - 1)
    <2>1. CASE i < m
      <3>1. z = a + g /\ a + g <= g * (m - 1)
        BY <1>3, <1>6, <2>1
      <3> QED BY <1>1, <1>2, <1>5, <2>1, <3>1
    <2>2. CASE i = m
      <3>1. z = n /\ a = g * (m - 1)
        BY <1>1, <1>4, <1>6, <2>2
      <3> QED BY <1>1, <1>5, <2>2, <3>1
    <2> QED BY <1>1, <2>1, <2>2
  <1>8. a \in Nat /\ z \in Nat /\ n \in Nat /\ a < z /\ z <= n
    BY <1>1, <1>2, <1>7
  <1>8a. Piece(d, g, i) = SubSeq(d, a + 1, z)
    BY DEF Piece, a, z, n
  <1>9. \A k \in a + 1 .. z : d[k] \in Byte
    <2> TAKE k \in a + 1 .. z
    <2>1. k \in 1 .. Len(d)
      BY <1>8 DEF n
    <2> QED BY <1>1, <2>1, ElementOfSeq
  <1>10. /\ SubSeq(d, a + 1, z) \in Seq(Byte) /\ Len(SubSeq(d, a + 1, z)) = z - a
         /\ \A h \in 1 .. z - a : SubSeq(d, a + 1, z)[h] = d[a + h]
    <2> DEFINE c == a + 1
    <2>1. c \in Int /\ z \in Int /\ c <= z /\ c = a + 1
      BY <1>8
    <2>2. \A k \in c .. z : d[k] \in Byte
      BY <1>9
    <2> HIDE DEF c
    <2>3. /\ SubSeq(d, c, z) \in Seq(Byte)
          /\ Len(SubSeq(d, c, z)) = z - c + 1
          /\ \A h \in 1 .. z - c + 1 : SubSeq(d, c, z)[h] = d[c + h - 1]
      BY <2>1, <2>2, SubSeqProperties
    <2>4. z - c + 1 = z - a /\ \A h \in 1 .. z - a : c + h - 1 = a + h
      BY <1>8, <2>1
    <2> QED BY <2>1, <2>3, <2>4
  <1>11. \A h \in 1 .. z - a : a + h \in 1 .. n
    BY <1>8
  <1> QED BY <1>7, <1>8a, <1>10, <1>11 DEF a, n

\* Behind full segments one more is a segment of its own.
LEMMA AppendPieces ==
    ASSUME NEW d, NEW e \in Seq(Byte), NEW g, NEW m, Pieces(d, g, m), Len(d) = g * m,
           Len(e) \in 1 .. g
    PROVE  /\ Pieces(d \o e, g, m + 1) /\ Piece(d \o e, g, m + 1) = e
           /\ \A i \in 1 .. m : Piece(d \o e, g, i) = Piece(d, g, i)
  <1> DEFINE f == d \o e
  <1>1. /\ d \in Seq(Byte) /\ Len(d) \in Nat /\ g \in Nat \ {0} /\ m \in Nat \ {0}
        /\ Len(e) \in Nat
    BY LenProperties DEF Pieces
  <1>2. /\ f \in Seq(Byte) /\ Len(f) = Len(d) + Len(e)
        /\ \A k \in 1 .. Len(d) + Len(e) : f[k] = IF k <= Len(d) THEN d[k] ELSE e[k - Len(d)]
    BY <1>1, ConcatProperties
  <1> HIDE DEF f
  <1>3. g * (m + 1) = g * m + g /\ g * ((m + 1) - 1) = g * m /\ g * m \in Nat
    BY <1>1
  <1>4. Pieces(f, g, m + 1)
    BY <1>1, <1>2, <1>3 DEF Pieces
  <1>5. Piece(f, g, m + 1) = e
    <2> DEFINE p == Piece(f, g, m + 1)
    <2>1. m + 1 \in 1 .. m + 1 /\ ~(m + 1 < m + 1) /\ ((m + 1) - 1) * g = Len(d)
      BY <1>1, <1>3
    <2>2. /\ p \in Seq(Byte) /\ Len(p) = Len(f) - g * ((m + 1) - 1)
          /\ \A h \in 1 .. Len(p) : p[h] = f[((m + 1) - 1) * g + h]
      BY <1>4, <2>1, PieceAt
    <2> HIDE DEF p
    <2>3. Len(p) = Len(e)
      BY <1>1, <1>2, <1>3, <2>2
    <2>4. \A h \in 1 .. Len(e) : p[h] = e[h]
      <3> TAKE h \in 1 .. Len(e)
      <3>1. p[h] = f[Len(d) + h]
        BY <2>1, <2>2, <2>3
      <3>2. Len(d) + h \in 1 .. Len(d) + Len(e) /\ ~(Len(d) + h <= Len(d)) /\ Len(d) + h - Len(d) = h
        BY <1>1
      <3> QED BY <1>2, <3>1, <3>2
    <2>5. p = e
      BY <2>2, <2>3, <2>4, SeqEqual
    <2> QED BY <2>5 DEF p
  <1>6. ASSUME NEW i \in 1 .. m PROVE Piece(f, g, i) = Piece(d, g, i)
    <2> DEFINE p == Piece(f, g, i)
               q == Piece(d, g, i)
    <2>1. i \in 1 .. m + 1 /\ i < m + 1
      BY <1>1
    <2>2. p \in Seq(Byte) /\ Len(p) = g /\ \A h \in 1 .. Len(p) : p[h] = f[(i - 1) * g + h]
      BY <1>4, <2>1, PieceAt
    <2>3. /\ q \in Seq(Byte) /\ Len(q) = (IF i < m THEN g ELSE Len(d) - g * (m - 1))
          /\ \A h \in 1 .. Len(q) : q[h] = d[(i - 1) * g + h] /\ (i - 1) * g + h \in 1 .. Len(d)
      BY PieceAt
    <2>4. Len(q) = g
      <3>1. g * m = g * (m - 1) + g /\ g * (m - 1) \in Nat
        BY <1>1
      <3> QED BY <1>1, <2>3, <3>1
    <2> HIDE DEF p, q
    <2>5. \A h \in 1 .. g : p[h] = q[h]
      <3> TAKE h \in 1 .. g
      <3> DEFINE k == (i - 1) * g + h
      <3>1. p[h] = f[k] /\ q[h] = d[k] /\ k \in 1 .. Len(d)
        BY <2>2, <2>3, <2>4
      <3> HIDE DEF k
      <3>2. k \in 1 .. Len(d) + Len(e) /\ k <= Len(d)
        BY <1>1, <3>1
      <3> QED BY <1>2, <3>1, <3>2
    <2>6. p = q
      BY <2>2, <2>3, <2>4, <2>5, SeqEqual
    <2> QED BY <2>6 DEF p, q
  <1> QED BY <1>4, <1>5, <1>6 DEF f

\* So is one in front, if it is as long as the others.
LEMMA PrependPieces ==
    ASSUME NEW d, NEW e \in Seq(Byte), NEW g, NEW m, Pieces(d, g, m), Len(e) = g
    PROVE  /\ Pieces(e \o d, g, m + 1) /\ Piece(e \o d, g, 1) = e
           /\ \A i \in 1 .. m : Piece(e \o d, g, i + 1) = Piece(d, g, i)
  <1> DEFINE f == e \o d
  <1>1. /\ d \in Seq(Byte) /\ Len(d) \in Nat /\ g \in Nat \ {0} /\ m \in Nat \ {0}
        /\ m - 1 \in Nat /\ g * (m - 1) < Len(d) /\ Len(d) <= g * m
    BY LenProperties DEF Pieces
  <1>2. /\ f \in Seq(Byte) /\ Len(f) = g + Len(d)
        /\ \A k \in 1 .. g + Len(d) : f[k] = IF k <= g THEN e[k] ELSE d[k - g]
    <2>1. /\ e \o d \in Seq(Byte) /\ Len(e \o d) = Len(e) + Len(d)
          /\ \A k \in 1 .. Len(e) + Len(d) :
                (e \o d)[k] = IF k <= Len(e) THEN e[k] ELSE d[k - Len(e)]
      BY <1>1, ConcatProperties
    <2> QED BY <2>1
  <1> HIDE DEF f
  <1>3. /\ g * (m + 1) = g * m + g /\ g * ((m + 1) - 1) = g * (m - 1) + g
        /\ g * m \in Nat /\ g * (m - 1) \in Nat
    BY <1>1
  <1>4. Pieces(f, g, m + 1)
    BY <1>1, <1>2, <1>3 DEF Pieces
  <1>5. Piece(f, g, 1) = e
    <2> DEFINE p == Piece(f, g, 1)
    <2>1. 1 \in 1 .. m + 1 /\ 1 < m + 1
      BY <1>1
    <2>2. p \in Seq(Byte) /\ Len(p) = g /\ \A h \in 1 .. Len(p) : p[h] = f[(1 - 1) * g + h]
      <3> DEFINE n == m + 1
      <3>1. Pieces(f, g, n) /\ 1 \in 1 .. n /\ 1 < n
        BY <1>4, <2>1
      <3> HIDE DEF n
      <3>2. /\ Piece(f, g, 1) \in Seq(Byte)
            /\ Len(Piece(f, g, 1)) = (IF 1 < n THEN g ELSE Len(f) - g * (n - 1))
            /\ \A h \in 1 .. Len(Piece(f, g, 1)) : Piece(f, g, 1)[h] = f[(1 - 1) * g + h]
        BY <3>1, PieceAt
      <3> QED BY <3>1, <3>2
    <2> HIDE DEF p
    <2>3. \A h \in 1 .. g : p[h] = e[h]
      <3> TAKE h \in 1 .. g
      <3>1. (1 - 1) * g + h = h /\ h \in 1 .. g + Len(d) /\ h <= g
        BY <1>1
      <3> QED BY <1>2, <2>2, <3>1
    <2>4. p = e
      BY <2>2, <2>3, SeqEqual
    <2> QED BY <2>4 DEF p
  <1>6. ASSUME NEW i \in 1 .. m PROVE Piece(f, g, i + 1) = Piece(d, g, i)
    <2> DEFINE p == Piece(f, g, i + 1)
               q == Piece(d, g, i)
    <2>1. i + 1 \in 1 .. m + 1 /\ (i + 1 < m + 1 <=> i < m)
      BY <1>1
    <2>2. /\ p \in Seq(Byte) /\ Len(p) = (IF i + 1 < m + 1 THEN g ELSE Len(f) - g * ((m + 1) - 1))
          /\ \A h \in 1 .. Len(p) : p[h] = f[((i + 1) - 1) * g + h]
      BY <1>4, <2>1, PieceAt
    <2>3. /\ q \in Seq(Byte) /\ Len(q) = (IF i < m THEN g ELSE Len(d) - g * (m - 1))
          /\ \A h \in 1 .. Len(q) : q[h] = d[(i - 1) * g + h] /\ (i - 1) * g + h \in 1 .. Len(d)
      BY PieceAt
    <2> HIDE DEF p, q
    <2>4. Len(p) = Len(q)
      BY <1>1, <1>2, <1>3, <2>1, <2>2, <2>3
    <2>5. \A h \in 1 .. Len(q) : p[h] = q[h]
      <3> TAKE h \in 1 .. Len(q)
      <3> DEFINE k == (i - 1) * g + h
      <3>1. ((i + 1) - 1) * g + h = g + k
        <4>1. i - 1 \in Nat /\ h \in Nat /\ ((i + 1) - 1) * g = (i - 1) * g + g
          BY <1>1, <2>3
        <4>2. (i - 1) * g \in Nat
          BY <1>1, <4>1
        <4> QED BY <1>1, <4>1, <4>2
      <3>2. p[h] = f[g + k] /\ q[h] = d[k] /\ k \in 1 .. Len(d)
        BY <2>2, <2>3, <2>4, <3>1
      <3> HIDE DEF k
      <3>3. g + k \in 1 .. g + Len(d) /\ ~(g + k <= g) /\ g + k - g = k
        BY <1>1, <3>2
      <3> QED BY <1>2, <3>2, <3>3
    <2>6. p = q
      BY <2>2, <2>3, <2>4, <2>5, SeqEqual
    <2> QED BY <2>6 DEF p, q
  <1> QED BY <1>4, <1>5, <1>6 DEF f

\* All of it is one piece.
LEMMA WholePiece ==
    ASSUME NEW d \in Seq(Byte), NEW g \in Nat, Len(d) # 0, Len(d) <= g
    PROVE  Pieces(d, g, 1) /\ Piece(d, g, 1) = d
  <1>1. Len(d) \in Nat /\ g \in Nat \ {0}
    BY LenProperties
  <1>2. Pieces(d, g, 1)
    BY <1>1 DEF Pieces
  <1> DEFINE p == Piece(d, g, 1)
  <1>3. 1 \in 1 .. 1
    OBVIOUS
  <1>4. /\ p \in Seq(Byte) /\ Len(p) = (IF 1 < 1 THEN g ELSE Len(d) - g * (1 - 1))
        /\ \A h \in 1 .. Len(p) : p[h] = d[(1 - 1) * g + h]
    BY <1>2, <1>3, PieceAt
  <1> HIDE DEF p
  <1>5. Len(p) = Len(d) /\ \A h \in 1 .. Len(d) : p[h] = d[h]
    <2>1. (1 - 1) * g = 0 /\ g * (1 - 1) = 0
      BY <1>1
    <2> QED BY <1>1, <1>4, <2>1
  <1>6. p = d
    BY <1>4, <1>5, SeqEqual
  <1> QED BY <1>2, <1>6 DEF p
-----------------------------------------------------------------------------
(* What the table says of the buffers                                       *)

Item == [idx : Nat, seq : 0 .. SeqSpace - 1, merged : Nat, gso : Nat \ {0}, psh : BOOLEAN]
Buf == [proto : {p.proto : p \in GroPackets}, flow : {p.flow : p \in GroPackets},
        hdr : {p.hdr : p \in GroPackets}, seq : 0 .. SeqSpace - 1, psh : BOOLEAN,
        csum : BOOLEAN, data : Seq(Byte), cap : Nat]

\* The packets in a buffer follow each other, and all but the last are as long as the first.
Describes(it, b) ==
    /\ Pieces(b.data, it.gso, it.merged + 1)
    /\ it.merged = 0 => it.gso = Len(b.data)
    /\ it.merged > 0 => b.csum
    /\ b.seq = it.seq /\ (b.psh => it.psh)
    /\ b.proto \in {"tcp", "udp"} /\ (b.proto = "udp" => b.seq = 0 /\ ~b.psh)

\* No two items of a list are about the same buffer.
Apart(its) == \A i, j \in 1 .. Len(its) : its[i].idx = its[j].idx => i = j

-----------------------------------------------------------------------------
(* Splitting one buffer                                                     *)

\* The i-th segment of b, when they are of g bytes.
SeqAt(b, g, i) == IF b.proto = "tcp" THEN (b.seq + g * (i - 1)) % SeqSpace ELSE b.seq
Look(b, g, i) == <<b.proto, b.flow, b.hdr, b.csum, SeqAt(b, g, i), Piece(b.data, g, i)>>
IsSplit(w, b, g, m) ==
    /\ Len(w) = m
    /\ \A i \in 1 .. m : Seen(w[i]) = Look(b, g, i) /\ (w[i].psh => b.psh /\ i = m)

LEMMA Reduced ==
    ASSUME NEW s \in 0 .. SeqSpace - 1
    PROVE  s % SeqSpace = s
  <1>1. SeqSpace \in Nat \ {0}
    BY GroAssumption
  <1>2. SeqSpace * 0 = 0
    BY <1>1
  <1>3. s \in Nat /\ 0 \in Nat /\ SeqSpace * 0 <= s /\ s < SeqSpace * 0 + SeqSpace
    BY <1>1, <1>2
  <1>4. s % SeqSpace = s - SeqSpace * 0
    BY <1>1, <1>3, Quotient
  <1> QED BY <1>2, <1>3, <1>4

LEMMA SplitAlone ==
    ASSUME NEW b \in Buf, b.data # <<>>
    PROVE  IsSplit(GsoSplit(b, 0), b, Len(b.data), 1)
  <1>1. GsoSplit(b, 0) = <<b>>
    BY DEF GsoSplit
  <1>2. b.data \in Seq(Byte) /\ b.seq \in 0 .. SeqSpace - 1 /\ b.seq \in Nat
    BY GroAssumption DEF Buf
  <1>3. Len(b.data) \in Nat /\ Len(b.data) # 0
    BY <1>2, LenProperties, EmptySeq
  <1>4. Piece(b.data, Len(b.data), 1) = b.data
    BY <1>2, <1>3, WholePiece
  <1>5. b.seq + Len(b.data) * (1 - 1) = b.seq
    BY <1>2, <1>3
  <1>6. SeqAt(b, Len(b.data), 1) = b.seq
    BY <1>2, <1>5, Reduced DEF SeqAt
  <1>7. Seen(b) = Look(b, Len(b.data), 1)
    BY <1>4, <1>6 DEF Seen, Look
  <1> QED BY <1>1, <1>7 DEF IsSplit

LEMMA SplitMany ==
    ASSUME NEW b \in Buf, NEW g, NEW m, Pieces(b.data, g, m), m # 1
    PROVE  IsSplit(GsoSplit(b, g), b, g, m)
  <1> DEFINE n == Len(b.data)
             w == [i \in 1 .. m |->
                     [b EXCEPT !.seq = IF b.proto = "tcp" THEN (@ + g * (i - 1)) % SeqSpace ELSE @,
                               !.data = Piece(b.data, g, i),
                               !.psh = @ /\ i = m]]
  <1>1. /\ g \in Nat \ {0} /\ m \in Nat \ {0} /\ n \in Nat /\ g * (m - 1) < n /\ n <= g * m
    BY LenProperties DEF Pieces
  <1>2. g * (m - 1) \in Nat /\ g * m = g * (m - 1) + g /\ g * (m - 1) >= g
    <2>1. g * m = g * (m - 1) + g /\ g * (m - 1) \in Nat
      BY <1>1
    <2>2. 0 \in Nat /\ m - 1 \in Nat /\ 0 < m - 1 /\ g * 0 = 0
      BY <1>1
    <2>3. g * 0 + g <= g * (m - 1)
      BY <1>1, <2>2, Multiples
    <2> QED BY <1>1, <2>1, <2>2, <2>3
  <1>3. (n + g - 1) \div g = m
    <2> DEFINE x == n + g - 1
    <2>1. x \in Nat /\ g * m <= x /\ x < g * m + g
      BY <1>1, <1>2
    <2> HIDE DEF x
    <2>2. x \div g = m
      BY <1>1, <2>1, Quotient
    <2> QED BY <2>2 DEF x
  <1>4. g # 0 /\ ~(n < g)
    BY <1>1, <1>2
  <1>5. GsoSplit(b, g) = w
    BY <1>3, <1>4 DEF GsoSplit, Piece
  <1>6. ASSUME NEW i \in 1 .. m PROVE Seen(w[i]) = Look(b, g, i) /\ (w[i].psh => b.psh /\ i = m)
    <2>1. w[i] = [b EXCEPT !.seq = IF b.proto = "tcp" THEN (@ + g * (i - 1)) % SeqSpace ELSE @,
                           !.data = Piece(b.data, g, i), !.psh = @ /\ i = m]
      OBVIOUS
    <2> DEFINE v == w[i]
    <2> HIDE DEF w
    <2>2. /\ v.proto = b.proto /\ v.flow = b.flow /\ v.hdr = b.hdr /\ v.csum = b.csum
          /\ v.seq = SeqAt(b, g, i) /\ v.data = Piece(b.data, g, i) /\ v.psh = (b.psh /\ i = m)
      BY <2>1 DEF Buf, SeqAt
    <2> QED BY <2>2 DEF Seen, Look
  <1>7. Len(w) = m
    <2> HIDE DEF n
    <2>1. m \in Nat
      BY <1>1
    <2> QED BY <2>1
  <1> HIDE DEF w
  <1> QED BY <1>5, <1>6, <1>7 DEF IsSplit

-----------------------------------------------------------------------------
(* Merging a packet into a buffer                                           *)

LEMMA Packets ==
    ASSUME NEW p \in GroPackets
    PROVE  /\ p.seq \in 0 .. SeqSpace - 1 /\ p.psh \in BOOLEAN /\ p.csum \in BOOLEAN
           /\ p.data \in Seq(ToSet(p.data))
           /\ (p.proto = "udp" => p.seq = 0 /\ ~p.psh)
  <1>1. Packet(p)
    BY GroAssumption
  <1> QED BY <1>1 DEF Packet

LEMMA OwnIsBuf ==
    ASSUME NEW p \in GroPackets
    PROVE  /\ Own(p) \in Buf /\ Key(Own(p)) = Key(p) /\ Own(p).seq = p.seq /\ Own(p).psh = p.psh
           /\ Own(p).data = p.data /\ Own(p).proto = p.proto /\ Seen(Own(p)) = Seen(p)
           /\ p.data \in Seq(Byte) /\ p.seq \in 0 .. SeqSpace - 1 /\ p.psh \in BOOLEAN
           /\ (p.proto = "udp" => p.seq = 0 /\ ~p.psh)
  <1>1. /\ p.seq \in 0 .. SeqSpace - 1 /\ p.psh \in BOOLEAN /\ p.csum \in BOOLEAN
        /\ p.data \in Seq(ToSet(p.data)) /\ Room \in Nat
        /\ (p.proto = "udp" => p.seq = 0 /\ ~p.psh)
    BY Packets, GroAssumption
  <1>2. Len(p.data) \in Nat
    BY <1>1, LenProperties
  <1>3. p.data \in Seq(Byte)
    <2> DEFINE d == p.data
               own == ToSet(d)
    <2>1. d \in Seq(own) /\ \A x \in own : x \in Byte
      BY <1>1 DEF Byte
    <2> HIDE DEF d, own
    <2>2. Len(d) \in Nat /\ \A i \in 1 .. Len(d) : d[i] \in Byte
      BY <2>1, LenProperties, ElementOfSeq
    <2>3. d \in Seq(Byte)
      <3>1. DOMAIN d = 1 .. Len(d) /\ d = [i \in 1 .. Len(d) |-> d[i]]
        BY <2>1, LenProperties
      <3> QED BY <2>2, <3>1, IsASeq
    <2> QED BY <2>3 DEF d
  <1>4. Len(p.data) + (IF roomy THEN Room ELSE 0) \in Nat
    <2> DEFINE more == IF roomy THEN Room ELSE 0
    <2>1. more \in Nat
      BY <1>1, Zenon
    <2> HIDE DEF more
    <2>2. Len(p.data) + more \in Nat
      BY <1>2, <2>1
    <2> QED BY <2>2 DEF more
  <1>5. Own(p) \in Buf
    BY <1>1, <1>3, <1>4 DEF Own, Buf
  <1> QED BY <1>1, <1>3, <1>5 DEF Own, Key, Seen

\* Two full segments and one more.
LEMMA FullPieces ==
    ASSUME NEW d, NEW g, NEW m, Pieces(d, g, m), Len(d) % g = 0
    PROVE  Len(d) = g * m
  <1> DEFINE n == Len(d)
             r == n - g * (m - 1)
  <1>1. /\ n \in Nat /\ g \in Nat \ {0} /\ m \in Nat \ {0} /\ m - 1 \in Nat
        /\ g * (m - 1) < n /\ n <= g * m /\ n % g = 0
    BY LenProperties DEF Pieces
  <1>2. g * m = g * (m - 1) + g /\ g * (m - 1) \in Nat
    BY <1>1
  <1>3. SUFFICES ASSUME n # g * m PROVE FALSE
    OBVIOUS
  <1> HIDE DEF n
  <1>4. n < g * (m - 1) + g
    BY <1>1, <1>2, <1>3
  <1> DEFINE k == m - 1
  <1>5. k \in Nat /\ g * k <= n /\ n < g * k + g
    BY <1>1, <1>2, <1>4
  <1> HIDE DEF k
  <1>6. n % g = n - g * k
    BY <1>1, <1>5, Quotient
  <1>7. g * k < n /\ g * k \in Nat
    BY <1>1, <1>5 DEF k
  <1> QED BY <1>1, <1>6, <1>7

\* What the checks have established when a packet is merged.
LEMMA MergeChecks ==
    ASSUME NEW p \in GroPackets, Candidate(p), NEW it \in Item, NEW b \in Buf, Describes(it, b),
           NEW mode, CanCoalesce(p, it, b) = mode, mode \in {"Append", "Prepend"},
           CoalesceResult(mode, p, Own(p), it, b) = "Success"
    PROVE  /\ p.hdr = b.hdr /\ p.csum = TRUE /\ b.csum = TRUE
           /\ mode = "Append" =>
                 /\ Len(b.data) % it.gso = 0 /\ Len(p.data) <= it.gso
                 /\ p.proto = "tcp" =>
                       p.seq = (it.seq + it.gso * (it.merged + 1)) % SeqSpace /\ ~it.psh
           /\ mode = "Prepend" => p.proto = "tcp" /\ Prepends(p, it)
  <1>1. p.csum \in BOOLEAN /\ b.csum \in BOOLEAN /\ it.merged \in Nat
    BY Packets DEF Buf, Item
  <1>2. p.csum /\ (it.merged > 0 \/ b.csum)
    <2> DEFINE cap == IF mode = "Prepend" THEN Own(p).cap ELSE b.cap
               n == Len(b.data) + Len(p.data)
               r == CoalesceResult(mode, p, Own(p), it, b)
    <2>1. r = CASE cap < n -> "InsufficientCap"
                [] cap >= n /\ it.merged = 0 /\ ~b.csum -> "ItemInvalidCsum"
                [] cap >= n /\ (it.merged > 0 \/ b.csum) ->
                      IF p.csum THEN "Success" ELSE "PktInvalidCsum"
      BY DEF CoalesceResult
    <2>2. r = "Success"
      OBVIOUS
    <2>3. cap \in Nat
      <3>1. Own(p).cap \in Nat /\ b.cap \in Nat
        BY OwnIsBuf DEF Buf
      <3>2. CASE mode = "Prepend"
        BY <3>1, <3>2
      <3>3. CASE mode # "Prepend"
        BY <3>1, <3>3
      <3> QED BY <3>2, <3>3
    <2>4. n \in Nat
      <3>1. p.data \in Seq(Byte) /\ b.data \in Seq(Byte)
        BY OwnIsBuf DEF Buf
      <3>2. Len(p.data) \in Nat /\ Len(b.data) \in Nat
        BY <3>1, LenProperties
      <3>3. \A x, y \in Nat : x + y \in Nat
        OBVIOUS
      <3> QED BY <3>2, <3>3, Zenon
    <2> HIDE DEF cap, n, r
    <2>5. cap >= n /\ ~(cap < n)
      <3>1. CASE cap < n
        <4>1. ~(cap >= n)
          BY <2>3, <2>4, <3>1
        <4>2. r = "InsufficientCap"
          BY <2>1, <3>1, <4>1
        <4> QED BY <2>2, <4>2
      <3> QED BY <2>3, <2>4, <3>1
    <2>6. CASE it.merged = 0 /\ ~b.csum
      <3>1. ~(it.merged > 0 \/ b.csum)
        BY <1>1, <2>6
      <3>2. r = "ItemInvalidCsum"
        BY <2>1, <2>5, <2>6, <3>1
      <3> QED BY <2>2, <3>2
    <2>7. CASE ~(it.merged = 0 /\ ~b.csum)
      <3>1. it.merged > 0 \/ b.csum
        BY <1>1, <2>7
      <3>2. r = IF p.csum THEN "Success" ELSE "PktInvalidCsum"
        BY <2>1, <2>5, <2>7, <3>1
      <3>3. p.csum
        BY <2>2, <3>2
      <3> QED BY <3>1, <3>3
    <2> QED BY <2>6, <2>7
  <1>3. b.csum
    BY <1>2 DEF Describes
  <1>4. p.hdr = b.hdr
    BY DEF CanCoalesce
  <1>5. p.proto \in {"tcp", "udp"}
    BY DEF Candidate
  <1>6. CASE p.proto = "udp"
    BY <1>1, <1>2, <1>3, <1>4, <1>6 DEF CanCoalesce
  <1>7. CASE p.proto = "tcp"
    BY <1>1, <1>2, <1>3, <1>4, <1>7 DEF CanCoalesce, Appends
  <1> QED BY <1>5, <1>6, <1>7

\* An append leaves the segments there are and adds the packet behind them.
LEMMA AppendMerges ==
    ASSUME NEW p \in GroPackets, Candidate(p), NEW it \in Item, NEW b \in Buf, Describes(it, b),
           Key(b) = Key(p), CanCoalesce(p, it, b) = "Append",
           CoalesceResult("Append", p, Own(p), it, b) = "Success",
           NEW c, c = Coalesced("Append", p, Own(p), b), NEW jt, jt = Grown("Append", p, it)
    PROVE  /\ c \in Buf /\ Key(c) = Key(b) /\ jt \in Item /\ jt.idx = it.idx
           /\ jt.merged = it.merged + 1 /\ Describes(jt, c)
           /\ \A i \in 1 .. it.merged + 1 : Look(c, jt.gso, i) = Look(b, it.gso, i)
           /\ Look(c, jt.gso, it.merged + 2) = Seen(p) /\ (c.psh => p.psh)
  <1> DEFINE g == it.gso
             m == it.merged + 1
             e == p.data
  <1>1. /\ p.hdr = b.hdr /\ p.csum = TRUE /\ b.csum = TRUE
        /\ Len(b.data) % g = 0 /\ Len(e) <= g
        /\ p.proto = "tcp" => p.seq = (it.seq + g * m) % SeqSpace /\ ~it.psh
    BY MergeChecks
  <1>2. /\ p.data \in Seq(Byte) /\ p.seq \in 0 .. SeqSpace - 1 /\ p.psh \in BOOLEAN
        /\ (p.proto = "udp" => p.seq = 0 /\ ~p.psh)
    BY OwnIsBuf
  <1>3. /\ b.data \in Seq(Byte) /\ b.seq \in 0 .. SeqSpace - 1 /\ b.psh \in BOOLEAN
        /\ it.idx \in Nat /\ it.merged \in Nat /\ g \in Nat \ {0} /\ it.psh \in BOOLEAN
    BY DEF Buf, Item
  <1>4. /\ Pieces(b.data, g, m) /\ b.seq = it.seq /\ (b.psh => it.psh)
        /\ b.proto \in {"tcp", "udp"} /\ (b.proto = "udp" => b.seq = 0 /\ ~b.psh)
    BY DEF Describes
  <1>5. b.proto = p.proto /\ b.flow = p.flow
    BY DEF Key
  <1>6. Len(e) \in 1 .. g
    <2>1. e # <<>> /\ e \in Seq(Byte)
      BY <1>2 DEF Candidate
    <2>2. Len(e) \in Nat /\ Len(e) # 0
      BY <2>1, LenProperties, EmptySeq
    <2> QED BY <1>1, <1>3, <2>2
  <1>7. Len(b.data) = g * m
    BY <1>1, <1>4, FullPieces
  <1>8. /\ Pieces(b.data \o e, g, m + 1) /\ Piece(b.data \o e, g, m + 1) = e
        /\ \A i \in 1 .. m : Piece(b.data \o e, g, i) = Piece(b.data, g, i)
    BY <1>2, <1>4, <1>6, <1>7, AppendPieces
  <1>9. c = [b EXCEPT !.data = b.data \o e, !.psh = b.psh \/ p.psh]
    BY DEF Coalesced
  <1>10. /\ c \in Buf /\ c.proto = b.proto /\ c.flow = b.flow /\ c.hdr = b.hdr /\ c.seq = b.seq
         /\ c.csum = b.csum /\ c.data = b.data \o e /\ c.psh = (b.psh \/ p.psh)
    <2>1. b.data \o e \in Seq(Byte)
      BY <1>2, <1>3, ConcatProperties
    <2> QED BY <1>2, <1>3, <1>9, <2>1 DEF Buf
  <1>11. jt = [it EXCEPT !.merged = it.merged + 1, !.seq = it.seq, !.psh = it.psh \/ p.psh,
                         !.gso = it.gso]
    <2>1. Len(e) \in Nat /\ ~(Len(e) > g)
      BY <1>3, <1>6
    <2> QED BY <2>1 DEF Grown
  <1>12a. it.psh \/ p.psh \in BOOLEAN
    BY <1>2, <1>3
  <1>12. /\ jt \in Item /\ jt.idx = it.idx /\ jt.merged = it.merged + 1 /\ jt.seq = it.seq
         /\ jt.psh = (it.psh \/ p.psh) /\ jt.gso = g
    <2> DEFINE psh == it.psh \/ p.psh
               merged == it.merged + 1
    <2>1. psh \in BOOLEAN /\ merged \in Nat
      BY <1>3, <1>12a
    <2>2. jt = [it EXCEPT !.merged = merged, !.seq = it.seq, !.psh = psh, !.gso = it.gso]
      BY <1>11
    <2> HIDE DEF psh, merged
    <2>3. /\ jt \in Item /\ jt.idx = it.idx /\ jt.merged = merged /\ jt.seq = it.seq
          /\ jt.psh = psh /\ jt.gso = g
      BY <2>1, <2>2 DEF Item
    <2> QED BY <2>3 DEF psh, merged
  <1>13. Describes(jt, c)
    <2>1. it.merged + 1 > 0 /\ it.merged + 1 # 0 /\ it.merged + 1 + 1 = m + 1
      BY <1>3
    <2> QED BY <1>1, <1>2, <1>4, <1>5, <1>8, <1>10, <1>12, <2>1 DEF Describes
  <1>14. Key(c) = Key(b)
    BY <1>10 DEF Key
  <1>15. ASSUME NEW i \in 1 .. m PROVE Look(c, jt.gso, i) = Look(b, it.gso, i)
    BY <1>8, <1>10, <1>12 DEF Look, SeqAt
  <1>16. Look(c, jt.gso, m + 1) = Seen(p)
    <2>1. (m + 1) - 1 = m
      BY <1>3
    <2>2. SeqAt(c, g, m + 1) = p.seq
      BY <1>1, <1>2, <1>4, <1>5, <1>10, <2>1 DEF SeqAt
    <2> QED BY <1>1, <1>5, <1>8, <1>10, <1>12, <2>2 DEF Look, Seen
  <1>17. c.psh => p.psh
    BY <1>1, <1>2, <1>4, <1>5, <1>10
  <1>18. m + 1 = it.merged + 2
    BY <1>3
  <1> QED BY <1>10, <1>12, <1>13, <1>14, <1>15, <1>16, <1>17, <1>18

\* The segments behind a new first one keep their sequence numbers.
SameSeq(x, h, g, i) ==
    (((x + h) % SeqSpace) + g * (i - 1)) % SeqSpace = (x + h * i) % SeqSpace

LEMMA SeqBehind ==
    ASSUME NEW x \in Nat, NEW h \in Nat \ {0}, NEW g \in Nat \ {0}, NEW i \in Nat \ {0},
           h = g \/ i = 1
    PROVE  SameSeq(x, h, g, i)
  <1> DEFINE y == g * (i - 1)
             z == x + h
  <1>1. i - 1 \in Nat
    OBVIOUS
  <1>2. y \in Nat /\ z \in Nat
    BY <1>1
  <1>3. h + y = h * i
    <2>1. CASE h = g
      <3>1. h * i = h * (i - 1) + h
        OBVIOUS
      <3> QED BY <1>2, <2>1, <3>1
    <2>2. CASE i = 1
      BY <2>2
    <2> QED BY <2>1, <2>2
  <1> HIDE DEF y
  <1>4. z + y = x + h * i
    BY <1>2, <1>3
  <1> HIDE DEF z
  <1>5. SeqSpace \in Nat \ {0}
    BY GroAssumption
  <1>6. ((z % SeqSpace) + y) % SeqSpace = (z + y) % SeqSpace
    BY <1>2, <1>5, ModAdd
  <1> QED BY <1>4, <1>6 DEF y, z, SameSeq

\* A prepend puts the packet in front of the segments there are.  A longer one makes a single
\* packet the last, shorter segment.
LEMMA PrependMerges ==
    ASSUME NEW p \in GroPackets, Candidate(p), NEW it \in Item, NEW b \in Buf, Describes(it, b),
           Key(b) = Key(p), CanCoalesce(p, it, b) = "Prepend",
           CoalesceResult("Prepend", p, Own(p), it, b) = "Success",
           NEW c, c = Coalesced("Prepend", p, Own(p), b), NEW jt, jt = Grown("Prepend", p, it)
    PROVE  /\ c \in Buf /\ Key(c) = Key(b) /\ jt \in Item /\ jt.idx = it.idx
           /\ jt.merged = it.merged + 1 /\ Describes(jt, c)
           /\ \A i \in 1 .. it.merged + 1 : Look(c, jt.gso, i + 1) = Look(b, it.gso, i)
           /\ Look(c, jt.gso, 1) = Seen(p) /\ ~c.psh
  <1> DEFINE g == it.gso
             m == it.merged + 1
             e == p.data
             h == Len(e)
  <1>1. p.hdr = b.hdr /\ p.csum = TRUE /\ b.csum = TRUE /\ p.proto = "tcp" /\ Prepends(p, it)
    BY MergeChecks
  <1>2. /\ Own(p) \in Buf /\ Key(Own(p)) = Key(p) /\ Own(p).seq = p.seq /\ Own(p).psh = p.psh
        /\ Own(p).data = e /\ Own(p).proto = p.proto
        /\ p.data \in Seq(Byte) /\ p.seq \in 0 .. SeqSpace - 1 /\ p.psh \in BOOLEAN
    BY OwnIsBuf
  <1>3. /\ b.data \in Seq(Byte) /\ b.seq \in 0 .. SeqSpace - 1 /\ b.psh \in BOOLEAN
        /\ it.idx \in Nat /\ it.merged \in Nat /\ g \in Nat \ {0} /\ it.psh \in BOOLEAN
    BY DEF Buf, Item
  <1>4. Pieces(b.data, g, m) /\ b.seq = it.seq /\ (it.merged = 0 => g = Len(b.data))
    BY DEF Describes
  <1>5. b.proto = p.proto /\ b.flow = p.flow
    BY DEF Key
  <1>6. SeqSpace \in Nat \ {0} /\ p.seq \in Nat
    BY <1>2, GroAssumption
  <1>7. /\ (p.seq + h) % SeqSpace = it.seq /\ ~p.psh /\ h >= g /\ (h > g => it.merged = 0)
        /\ h \in Nat
    BY <1>1, <1>2, LenProperties DEF Prepends
  <1>8. h \in Nat \ {0} /\ m \in Nat \ {0}
    BY <1>3, <1>7
  <1>9. Pieces(b.data, h, m) /\ \A i \in 1 .. m : Piece(b.data, h, i) = Piece(b.data, g, i)
    <2>1. CASE h = g
      BY <1>4, <2>1
    <2>2. CASE h # g
      <3>1. it.merged = 0 /\ h > g
        BY <1>3, <1>7, <2>2
      <3>2. m = 1 /\ g = Len(b.data) /\ Len(b.data) # 0 /\ Len(b.data) <= h /\ Len(b.data) <= g
        BY <1>3, <1>4, <1>7, <3>1
      <3>3. Pieces(b.data, h, 1) /\ Piece(b.data, h, 1) = b.data /\ Piece(b.data, g, 1) = b.data
        BY <1>3, <1>7, <3>2, WholePiece
      <3> QED BY <3>2, <3>3
    <2> QED BY <2>1, <2>2
  <1>10. /\ Pieces(e \o b.data, h, m + 1) /\ Piece(e \o b.data, h, 1) = e
         /\ \A i \in 1 .. m : Piece(e \o b.data, h, i + 1) = Piece(b.data, h, i)
    BY <1>2, <1>9, PrependPieces
  <1>11. /\ c \in Buf /\ c.proto = p.proto /\ c.flow = p.flow /\ c.hdr = p.hdr /\ c.seq = p.seq
         /\ c.csum = p.csum /\ c.data = e \o b.data /\ c.psh = p.psh
    <2> DEFINE o == Own(p)
    <2>1. e \o b.data \in Seq(Byte)
      BY <1>2, <1>3, ConcatProperties
    <2>2. o.proto = p.proto /\ o.flow = p.flow /\ o.hdr = p.hdr /\ o.csum = p.csum
      BY DEF Own
    <2>3. c = [o EXCEPT !.data = e \o b.data]
      BY <1>2 DEF Coalesced
    <2> HIDE DEF o, e
    <2>4. o \in Buf
      BY <1>2 DEF o
    <2>5. /\ c \in Buf /\ c.proto = o.proto /\ c.flow = o.flow /\ c.hdr = o.hdr /\ c.seq = o.seq
          /\ c.csum = o.csum /\ c.data = e \o b.data /\ c.psh = o.psh
      BY <2>1, <2>3, <2>4 DEF Buf
    <2> QED BY <1>2, <2>2, <2>5 DEF o
  <1>12. /\ jt \in Item /\ jt.idx = it.idx /\ jt.merged = it.merged + 1 /\ jt.seq = p.seq
         /\ jt.gso = h
    <2> DEFINE psh == it.psh \/ ("Prepend" = "Append" /\ p.psh)
               merged == it.merged + 1
               gso == IF h > g THEN h ELSE g
    <2>1. psh \in BOOLEAN /\ merged \in Nat
      BY <1>3
    <2>2. gso = h
      BY <1>3, <1>7
    <2>3. jt = [it EXCEPT !.merged = merged, !.seq = p.seq, !.psh = psh, !.gso = gso]
      BY DEF Grown
    <2> HIDE DEF psh, merged, gso, h
    <2>4. /\ jt \in Item /\ jt.idx = it.idx /\ jt.merged = merged /\ jt.seq = p.seq /\ jt.gso = h
      BY <1>2, <1>8, <2>1, <2>2, <2>3 DEF Item
    <2> QED BY <2>4 DEF merged
  <1>13. Describes(jt, c)
    <2>1. it.merged + 1 # 0 /\ it.merged + 1 + 1 = m + 1 /\ ~c.psh
      BY <1>3, <1>7, <1>11
    <2> QED BY <1>1, <1>10, <1>11, <1>12, <2>1 DEF Describes
  <1>14. Key(c) = Key(b)
    BY <1>5, <1>11 DEF Key
  <1>15. ASSUME NEW i \in 1 .. m PROVE Look(c, jt.gso, i + 1) = Look(b, it.gso, i)
    <2>1. i \in Nat \ {0} /\ (h = g \/ i = 1)
      <3>1. CASE h = g
        BY <1>8, <3>1
      <3>2. CASE h # g
        <4>1. m = 1
          BY <1>3, <1>7, <3>2
        <4> QED BY <4>1
      <3> QED BY <3>1, <3>2
    <2>2. (((p.seq + h) % SeqSpace) + g * (i - 1)) % SeqSpace
             = (p.seq + h * i) % SeqSpace
      <3>1. p.seq \in Nat /\ h \in Nat \ {0} /\ g \in Nat \ {0} /\ i \in Nat \ {0}
        BY <1>3, <1>6, <1>8, <2>1
      <3> HIDE DEF g, h, m
      <3>2. SameSeq(p.seq, h, g, i)
        BY <2>1, <3>1, SeqBehind
      <3> QED BY <3>2 DEF SameSeq
    <2>3. SeqAt(c, h, i + 1) = (p.seq + h * i) % SeqSpace
      <3>1. (i + 1) - 1 = i
        BY <2>1
      <3> QED BY <1>1, <1>11, <3>1 DEF SeqAt
    <2>4. SeqAt(b, g, i) = (((p.seq + h) % SeqSpace) + g * (i - 1)) % SeqSpace
      BY <1>1, <1>4, <1>5, <1>7 DEF SeqAt
    <2>6. Piece(c.data, h, i + 1) = Piece(b.data, g, i)
      BY <1>9, <1>10, <1>11
    <2> QED BY <1>1, <1>5, <1>11, <1>12, <2>2, <2>3, <2>4, <2>6 DEF Look
  <1>16. Look(c, jt.gso, 1) = Seen(p)
    <2>1. p.seq + h * (1 - 1) = p.seq
      BY <1>6, <1>8
    <2>2. SeqAt(c, h, 1) = p.seq
      BY <1>1, <1>2, <1>11, <2>1, Reduced DEF SeqAt
    <2> QED BY <1>1, <1>10, <1>11, <1>12, <2>2 DEF Look, Seen
  <1> QED BY <1>7, <1>11, <1>12, <1>13, <1>14, <1>15, <1>16

-----------------------------------------------------------------------------
(* A place for every packet                                                 *)

\* The segments of w[1], ..., w[n], and that each packet of r is one of them, and each of
\* them one packet.
Slots(w, n) == UNION {{<<k, i>> : i \in 1 .. Len(w[k])} : k \in 1 .. n}
At(w, s) == w[s[1]][s[2]]
Same(x, p) == Seen(x) = Seen(p) /\ (x.psh => p.psh)
IsPlaced(place, w, n, r) ==
    /\ place \in Bijection(1 .. Len(r), Slots(w, n))
    /\ \A i \in 1 .. Len(r) : Same(At(w, place[i]), r[i])
Placed(w, n, r) == \E place : IsPlaced(place, w, n, r)

LEMMA SlotsAre ==
    ASSUME NEW w, NEW n, NEW s
    PROVE  s \in Slots(w, n) <=> \E k \in 1 .. n : \E i \in 1 .. Len(w[k]) : s = <<k, i>>
  BY DEF Slots

With(place, move, new, n) == [i \in 1 .. n + 1 |-> IF i = n + 1 THEN new ELSE move[place[i]]]

\* When all segments keep a place of their own, there is one for the new packet.
LEMMA OneMore ==
    ASSUME NEW n \in Nat, NEW D, NEW E, NEW place \in Bijection(1 .. n, D),
           NEW move \in [D -> E], NEW new \in E,
           \A c, d \in D : move[c] = move[d] => c = d,
           \A d \in D : move[d] # new,
           \A e \in E : e = new \/ \E d \in D : move[d] = e
    PROVE  With(place, move, new, n) \in Bijection(1 .. n + 1, E)
  <1> DEFINE f == With(place, move, new, n)
  <1>1. /\ place \in [1 .. n -> D]
        /\ \A i, j \in 1 .. n : place[i] = place[j] => i = j
        /\ \A d \in D : \E i \in 1 .. n : place[i] = d
    BY DEF Bijection, Injection, Surjection, IsInjective
  <1>2. n + 1 \in 1 .. n + 1 /\ \A i \in 1 .. n + 1 : i = n + 1 \/ (i \in 1 .. n /\ i # n + 1)
    OBVIOUS
  <1>3. f[n + 1] = new /\ \A i \in 1 .. n : f[i] = move[place[i]]
    <2>1. \A i \in 1 .. n : i \in 1 .. n + 1 /\ i # n + 1
      OBVIOUS
    <2> QED BY <1>2, <2>1 DEF With
  <1>4. f \in [1 .. n + 1 -> E]
    <2>1. \A i \in 1 .. n + 1 : (IF i = n + 1 THEN new ELSE move[place[i]]) \in E
      BY <1>1, <1>2
    <2> QED BY <2>1 DEF With
  <1> HIDE DEF f
  <1>5. ASSUME NEW i \in 1 .. n + 1, NEW j \in 1 .. n + 1, f[i] = f[j] PROVE i = j
    <2>1. CASE i = n + 1 /\ j = n + 1
      BY <2>1
    <2>2. CASE i = n + 1 /\ j # n + 1
      <3>1. j \in 1 .. n /\ f[j] = move[place[j]] /\ place[j] \in D
        BY <1>1, <1>2, <1>3, <2>2
      <3> QED BY <1>3, <1>5, <2>2, <3>1
    <2>3. CASE i # n + 1 /\ j = n + 1
      <3>1. i \in 1 .. n /\ f[i] = move[place[i]] /\ place[i] \in D
        BY <1>1, <1>2, <1>3, <2>3
      <3> QED BY <1>3, <1>5, <2>3, <3>1
    <2>4. CASE i # n + 1 /\ j # n + 1
      <3>1. /\ i \in 1 .. n /\ f[i] = move[place[i]] /\ place[i] \in D
            /\ j \in 1 .. n /\ f[j] = move[place[j]] /\ place[j] \in D
        BY <1>1, <1>2, <1>3, <2>4
      <3> DEFINE c == place[i]
                 d == place[j]
      <3>2. c \in D /\ d \in D /\ move[c] = move[d]
        BY <1>5, <3>1
      <3> HIDE DEF c, d
      <3>3. c = d
        BY <3>2
      <3> USE DEF c, d
      <3> QED BY <1>1, <3>1, <3>3
    <2> QED BY <2>1, <2>2, <2>3, <2>4
  <1>6. ASSUME NEW e \in E PROVE \E i \in 1 .. n + 1 : f[i] = e
    <2>1. CASE e = new
      BY <1>2, <1>3, <2>1
    <2>2. CASE e # new
      <3>1. PICK d \in D : move[d] = e
        BY <2>2
      <3>2. PICK i \in 1 .. n : place[i] = d
        BY <1>1
      <3>3. i \in 1 .. n + 1 /\ f[i] = e
        BY <1>3, <3>1, <3>2
      <3> QED BY <3>3
    <2> QED BY <2>1, <2>2
  <1> QED BY <1>4, <1>5, <1>6 DEF f, Bijection, Injection, Surjection, IsInjective

LEMMA PlacedMore ==
    ASSUME NEW w, NEW n, NEW v, NEW m, NEW r \in Seq(GroPackets), NEW p \in GroPackets,
           Placed(w, n, r), NEW move \in [Slots(w, n) -> Slots(v, m)], NEW new \in Slots(v, m),
           \A c, d \in Slots(w, n) : move[c] = move[d] => c = d,
           \A d \in Slots(w, n) : move[d] # new,
           \A e \in Slots(v, m) : e = new \/ \E d \in Slots(w, n) : move[d] = e,
           \A d \in Slots(w, n) : Seen(At(v, move[d])) = Seen(At(w, d))
                                  /\ (At(v, move[d]).psh => At(w, d).psh),
           Same(At(v, new), p)
    PROVE  Placed(v, m, Append(r, p))
  <1> DEFINE D == Slots(w, n)
             E == Slots(v, m)
             k == Len(r)
  <1>1. PICK place : IsPlaced(place, w, n, r)
    BY DEF Placed
  <1>2. k \in Nat /\ place \in Bijection(1 .. k, D)
    BY <1>1, LenProperties DEF IsPlaced
  <1> DEFINE f == With(place, move, new, k)
  <1>3. f \in Bijection(1 .. k + 1, E)
    <2> HIDE DEF D, E, k, f
    <2>1. /\ move \in [D -> E] /\ new \in E /\ (\A c, d \in D : move[c] = move[d] => c = d)
          /\ (\A d \in D : move[d] # new) /\ (\A e \in E : e = new \/ \E d \in D : move[d] = e)
      BY DEF D, E
    <2>2. With(place, move, new, k) \in Bijection(1 .. k + 1, E)
      BY <1>2, <2>1, OneMore
    <2> QED BY <2>2 DEF f
  <1>4. Len(Append(r, p)) = k + 1 /\ Append(r, p)[k + 1] = p
        /\ \A i \in 1 .. k : Append(r, p)[i] = r[i]
    BY AppendProperties
  <1>5. ASSUME NEW i \in 1 .. k + 1 PROVE Same(At(v, f[i]), Append(r, p)[i])
    <2>1. CASE i = k + 1
      <3>1. f[i] = new
        BY <1>2, <2>1 DEF With
      <3> QED BY <1>4, <2>1, <3>1
    <2>2. CASE i # k + 1
      <3>1. i \in 1 .. k
        BY <1>2, <2>2
      <3>2. f[i] = move[place[i]]
        BY <2>2 DEF With
      <3>3. place[i] \in D /\ Same(At(w, place[i]), r[i])
        BY <1>1, <3>1 DEF IsPlaced, Bijection, Injection
      <3>4. Append(r, p)[i] = r[i]
        BY <1>4, <3>1
      <3> HIDE DEF f, D, k
      <3>5. /\ Seen(At(v, move[place[i]])) = Seen(At(w, place[i]))
            /\ (At(v, move[place[i]]).psh => At(w, place[i]).psh)
        BY <3>3 DEF D
      <3> QED BY <3>2, <3>3, <3>4, <3>5 DEF Same
    <2> QED BY <2>1, <2>2
  <1>6. IsPlaced(f, v, m, Append(r, p))
    <2> HIDE DEF f, k
    <2> QED BY <1>3, <1>4, <1>5 DEF IsPlaced
  <1> QED BY <1>6 DEF Placed

\* A packet in a buffer of its own.
LEMMA PlacedApart ==
    ASSUME NEW w, NEW n \in Nat, NEW v, NEW r \in Seq(GroPackets), NEW p \in GroPackets,
           Placed(w, n, r), \A k \in 1 .. n : v[k] = w[k],
           Len(v[n + 1]) = 1, Same(v[n + 1][1], p)
    PROVE  Placed(v, n + 1, Append(r, p))
  <1> DEFINE D == Slots(w, n)
             E == Slots(v, n + 1)
             move == [s \in D |-> s]
             new == <<n + 1, 1>>
  <1>1. \A d \in D : d \in E /\ d # new /\ At(v, d) = At(w, d)
    <2> TAKE d \in D
    <2>1. PICK k \in 1 .. n : \E i \in 1 .. Len(w[k]) : d = <<k, i>>
      BY SlotsAre
    <2>2. PICK i \in 1 .. Len(w[k]) : d = <<k, i>>
      BY <2>1
    <2>3. k \in 1 .. n + 1 /\ k # n + 1 /\ v[k] = w[k]
      OBVIOUS
    <2>4. d \in E
      BY <2>2, <2>3, SlotsAre
    <2> QED BY <2>2, <2>3, <2>4 DEF At
  <1>2. new \in E /\ At(v, new) = v[n + 1][1]
    <2>1. n + 1 \in 1 .. n + 1 /\ 1 \in 1 .. Len(v[n + 1])
      OBVIOUS
    <2> QED BY <2>1, SlotsAre DEF At
  <1>3. \A e \in E : e = new \/ e \in D
    <2> TAKE e \in E
    <2>1. PICK k \in 1 .. n + 1 : \E i \in 1 .. Len(v[k]) : e = <<k, i>>
      BY SlotsAre
    <2>2. PICK i \in 1 .. Len(v[k]) : e = <<k, i>>
      BY <2>1
    <2>3. CASE k = n + 1
      <3>1. Len(v[k]) = 1
        BY <2>3
      <3>2. i = 1
        BY <3>1
      <3> QED BY <2>2, <2>3, <3>2
    <2>4. CASE k # n + 1
      <3>1. k \in 1 .. n /\ v[k] = w[k]
        BY <2>4
      <3> QED BY <2>2, <3>1, SlotsAre
    <2> QED BY <2>3, <2>4
  <1>4. move \in [D -> E] /\ \A d \in D : move[d] = d
    BY <1>1
  <1> HIDE DEF D, E, move, new
  <1>5. /\ \A c, d \in D : move[c] = move[d] => c = d
        /\ \A d \in D : move[d] # new
        /\ \A e \in E : e = new \/ \E d \in D : move[d] = e
        /\ \A d \in D : Seen(At(v, move[d])) = Seen(At(w, d))
                        /\ (At(v, move[d]).psh => At(w, d).psh)
        /\ Same(At(v, new), p)
    BY <1>1, <1>2, <1>3, <1>4
  <1> QED BY <1>2, <1>4, <1>5, PlacedMore DEF D, E

\* A packet that goes into buffer k, behind the segments there (o = 0) or in front (o = 1).
GoesInside(p, w, v, n, k, o, m, a) ==
    /\ \A j \in 1 .. n : j # k => v[j] = w[j]
    /\ Len(w[k]) = m /\ Len(v[k]) = m + 1
    /\ \A i \in 1 .. m :
          Seen(v[k][i + o]) = Seen(w[k][i]) /\ (v[k][i + o].psh => w[k][i].psh)
    /\ a = (IF o = 0 THEN m + 1 ELSE 1) /\ Same(v[k][a], p)

LEMMA PlacedInside ==
    ASSUME NEW w, NEW n \in Nat, NEW v, NEW r \in Seq(GroPackets), NEW p \in GroPackets,
           Placed(w, n, r), NEW k \in 1 .. n, NEW o \in {0, 1}, NEW m \in Nat, NEW a,
           GoesInside(p, w, v, n, k, o, m, a)
    PROVE  Placed(v, n, Append(r, p))
  <1> DEFINE D == Slots(w, n)
             E == Slots(v, n)
             move == [s \in D |-> IF s[1] = k THEN <<k, s[2] + o>> ELSE s]
             new == <<k, a>>
  <1>0. /\ \A j \in 1 .. n : j # k => v[j] = w[j]
        /\ Len(w[k]) = m /\ Len(v[k]) = m + 1
        /\ \A i \in 1 .. m :
              Seen(v[k][i + o]) = Seen(w[k][i]) /\ (v[k][i + o].psh => w[k][i].psh)
        /\ a = (IF o = 0 THEN m + 1 ELSE 1) /\ Same(v[k][a], p)
    BY DEF GoesInside
  <1>1. ASSUME NEW d \in D, d[1] = k
        PROVE  /\ d[2] \in 1 .. m /\ d = <<k, d[2]>> /\ move[d] = <<k, d[2] + o>>
               /\ move[d] \in E /\ move[d] # new
               /\ At(v, move[d]) = v[k][d[2] + o] /\ At(w, d) = w[k][d[2]]
    <2>1. PICK j \in 1 .. n : \E i \in 1 .. Len(w[j]) : d = <<j, i>>
      BY SlotsAre
    <2>2. PICK i \in 1 .. Len(w[j]) : d = <<j, i>>
      BY <2>1
    <2>3. j = k /\ i \in 1 .. m /\ d = <<k, i>> /\ d[2] = i
      BY <1>0, <1>1, <2>2
    <2>4. move[d] = <<k, i + o>>
      BY <1>1, <2>3
    <2>5. i + o \in 1 .. m + 1 /\ i + o # a
      <3>1. CASE o = 0
        BY <1>0, <2>3, <3>1
      <3>2. CASE o = 1
        BY <1>0, <2>3, <3>2
      <3> QED BY <3>1, <3>2
    <2>6. <<k, i + o>> \in E /\ <<k, i + o>> # new
      BY <1>0, <2>5, SlotsAre
    <2> HIDE DEF D, E, move, new
    <2> QED BY <2>3, <2>4, <2>6 DEF At
  <1>2. ASSUME NEW d \in D, d[1] # k
        PROVE  move[d] = d /\ d \in E /\ d # new /\ At(v, d) = At(w, d)
    <2>1. PICK j \in 1 .. n : \E i \in 1 .. Len(w[j]) : d = <<j, i>>
      BY SlotsAre
    <2>2. PICK i \in 1 .. Len(w[j]) : d = <<j, i>>
      BY <2>1
    <2>3. j # k /\ v[j] = w[j]
      BY <1>0, <1>2, <2>2
    <2>4. d \in E
      BY <2>2, <2>3, SlotsAre
    <2> QED BY <1>2, <2>2, <2>3, <2>4 DEF At
  <1>3. new \in E /\ At(v, new) = v[k][a]
    <2>1. a \in 1 .. Len(v[k])
      BY <1>0
    <2> QED BY <2>1, SlotsAre DEF At
  <1>4. ASSUME NEW e \in E, e # new PROVE \E d \in D : move[d] = e
    <2>1. PICK j \in 1 .. n : \E i \in 1 .. Len(v[j]) : e = <<j, i>>
      BY SlotsAre
    <2>2. PICK i \in 1 .. Len(v[j]) : e = <<j, i>>
      BY <2>1
    <2>3. CASE j = k
      <3>1. i \in 1 .. m + 1 /\ i # a
        BY <1>0, <1>4, <2>2, <2>3
      <3>2. i - o \in 1 .. m /\ (i - o) + o = i
        <4>1. CASE o = 0
          BY <1>0, <3>1, <4>1
        <4>2. CASE o = 1
          BY <1>0, <3>1, <4>2
        <4> QED BY <4>1, <4>2
      <3> DEFINE h == i - o
      <3>3. h \in 1 .. m /\ h + o = i
        BY <3>2
      <3> HIDE DEF h
      <3>4. <<k, h>> \in D
        BY <1>0, <3>3, SlotsAre
      <3>5. move[<<k, h>>] = <<k, h + o>>
        BY <3>4
      <3> QED BY <2>2, <2>3, <3>3, <3>4, <3>5
    <2>4. CASE j # k
      <3>1. e \in D /\ e[1] = j
        BY <1>0, <2>2, <2>4, SlotsAre
      <3> QED BY <1>2, <2>4, <3>1
    <2> QED BY <2>3, <2>4
  <1>5. move \in [D -> E]
    <2>1. \A d \in D : move[d] \in E
      BY <1>1, <1>2
    <2> QED BY <2>1
  <1> HIDE DEF D, E, move
  <1>6. ASSUME NEW c \in D, NEW d \in D, move[c] = move[d] PROVE c = d
    <2>1. CASE c[1] = k /\ d[1] = k
      <3>1. c[2] \in 1 .. m /\ d[2] \in 1 .. m /\ c[2] + o = d[2] + o
        BY <1>1, <1>6, <2>1
      <3>2. c[2] = d[2]
        BY <3>1
      <3>3. c = <<k, c[2]>>
        BY <1>1, <2>1
      <3>4. d = <<k, d[2]>>
        BY <1>1, <2>1
      <3> QED BY <3>2, <3>3, <3>4, Zenon
    <2>2. CASE c[1] = k /\ d[1] # k
      BY <1>1, <1>2, <1>6, <2>2
    <2>3. CASE c[1] # k /\ d[1] = k
      BY <1>1, <1>2, <1>6, <2>3
    <2>4. CASE c[1] # k /\ d[1] # k
      BY <1>2, <1>6, <2>4
    <2> QED BY <2>1, <2>2, <2>3, <2>4
  <1>7. \A d \in D : move[d] # new
    <2> HIDE DEF new
    <2> QED BY <1>1, <1>2
  <1>8. ASSUME NEW d \in D
        PROVE  Seen(At(v, move[d])) = Seen(At(w, d)) /\ (At(v, move[d]).psh => At(w, d).psh)
    <2>1. CASE d[1] = k
      <3> DEFINE i == d[2]
                 x == At(v, move[d])
                 y == At(w, d)
      <3>1. i \in 1 .. m /\ x = v[k][i + o] /\ y = w[k][i]
        BY <1>1, <2>1
      <3> HIDE DEF i, x, y
      <3>2. Seen(x) = Seen(y) /\ (x.psh => y.psh)
        <4>1. Seen(v[k][i + o]) = Seen(w[k][i]) /\ (v[k][i + o].psh => w[k][i].psh)
          BY <1>0, <3>1
        <4> QED BY <3>1, <4>1, Zenon
      <3> QED BY <3>2 DEF x, y
    <2>2. CASE d[1] # k
      BY <1>2, <2>2
    <2> QED BY <2>1, <2>2
  <1>9. Same(At(v, new), p)
    BY <1>0, <1>3
  <1> HIDE DEF new
  <1> QED BY <1>3, <1>4, <1>5, <1>6, <1>7, <1>8, <1>9, PlacedMore DEF D, E

\* Places for all packets are what RoundTrip counts.
Alike(w, n, x) == {s \in Slots(w, n) : Seen(At(w, s)) = x}

LEMMA PlacedCount ==
    ASSUME NEW w, NEW n, NEW r \in Seq(GroPackets), Placed(w, n, r)
    PROVE  /\ Cardinality(Slots(w, n)) = Len(r)
           /\ \A x : Cardinality(Alike(w, n, x))
                       = Cardinality({j \in 1 .. Len(r) : Seen(r[j]) = x})
           /\ \A s \in Slots(w, n) : At(w, s).psh =>
                 \E j \in 1 .. Len(r) : r[j].psh /\ Seen(r[j]) = Seen(At(w, s))
  <1> DEFINE D == Slots(w, n)
             I == 1 .. Len(r)
  <1>1. PICK place : IsPlaced(place, w, n, r)
    BY DEF Placed
  <1>2. /\ place \in Bijection(I, D) /\ place \in [I -> D]
        /\ \A i \in I : Same(At(w, place[i]), r[i])
        /\ \A i, j \in I : place[i] = place[j] => i = j
        /\ \A d \in D : \E i \in I : place[i] = d
    BY <1>1 DEF IsPlaced, Bijection, Injection, Surjection, IsInjective
  <1>3. Len(r) \in Nat /\ IsFiniteSet(I) /\ Cardinality(I) = Len(r)
    <2>1. Len(r) \in Nat /\ Len(r) \in Int /\ 1 \in Int
      BY LenProperties
    <2>2. IsFiniteSet(I) /\ Cardinality(I) = IF 1 > Len(r) THEN 0 ELSE Len(r) - 1 + 1
      BY <2>1, FS_Interval
    <2> QED BY <2>1, <2>2
  <1> HIDE DEF D, I
  <1>4. Cardinality(D) = Len(r)
    <2>1. ExistsBijection(I, D)
      BY <1>2 DEF ExistsBijection
    <2> QED BY <1>3, <2>1, FS_Bijection
  <1>5. ASSUME NEW x
        PROVE  Cardinality({s \in D : Seen(At(w, s)) = x}) = Cardinality({j \in I : Seen(r[j]) = x})
    <2> DEFINE S == {j \in I : Seen(r[j]) = x}
               T == {s \in D : Seen(At(w, s)) = x}
               f == [j \in S |-> place[j]]
    <2>1. IsFiniteSet(S)
      BY <1>3, FS_Subset
    <2>2. \A j \in S : j \in I /\ f[j] = place[j] /\ place[j] \in T
      BY <1>2 DEF Same
    <2>3. f \in [S -> T]
      BY <2>2
    <2>4. \A i, j \in S : f[i] = f[j] => i = j
      BY <1>2, <2>2
    <2>5. ASSUME NEW t \in T PROVE \E j \in S : f[j] = t
      <3>1. PICK j \in I : place[j] = t
        BY <1>2
      <3>2. j \in S
        BY <1>2, <3>1 DEF Same
      <3> QED BY <2>2, <3>1, <3>2
    <2> HIDE DEF S, T, f
    <2>6. f \in Bijection(S, T)
      BY <2>3, <2>4, <2>5 DEF Bijection, Injection, Surjection, IsInjective
    <2>7. ExistsBijection(S, T)
      BY <2>6 DEF ExistsBijection
    <2>8. Cardinality(T) = Cardinality(S)
      BY <2>1, <2>7, FS_Bijection
    <2> QED BY <2>8 DEF S, T
  <1>6. ASSUME NEW s \in D, At(w, s).psh
        PROVE  \E j \in I : r[j].psh /\ Seen(r[j]) = Seen(At(w, s))
    <2>1. PICK j \in I : place[j] = s
      BY <1>2
    <2>2. Same(At(w, s), r[j])
      BY <1>2, <2>1
    <2> QED BY <1>6, <2>1, <2>2 DEF Same
  <1> QED BY <1>4, <1>5, <1>6 DEF D, I, Alike

-----------------------------------------------------------------------------
(* The items of a flow, one after the other                                 *)

LEMMA RemoveOne ==
    ASSUME NEW its \in Seq(Item), NEW j \in 1 .. Len(its)
    PROVE  /\ RemoveAt(its, j) \in Seq(Item) /\ Len(RemoveAt(its, j)) = Len(its) - 1
           /\ \A i \in 1 .. Len(its) - 1 :
                 RemoveAt(its, j)[i] = IF i < j THEN its[i] ELSE its[i + 1]
  <1> DEFINE n == Len(its)
             s == SubSeq(its, 1, j - 1)
             t == SubSeq(its, j + 1, n)
  <1>1. n \in Nat /\ j \in 1 .. n /\ j - 1 \in 0 .. n /\ n - j \in Nat
    BY LenProperties
  <1>2. \A i \in 1 .. n : its[i] \in Item
    BY ElementOfSeq
  <1>3. s \in Seq(Item) /\ Len(s) = j - 1 /\ \A i \in 1 .. j - 1 : s[i] = its[i]
    <2>1. CASE j = 1
      <3>1. s = <<>>
        BY <2>1, SubSeqEmpty
      <3> QED BY <2>1, <3>1
    <2>2. CASE j # 1
      <3> DEFINE k == j - 1
      <3>1. k \in Int /\ 1 \in Int /\ 1 <= k /\ k <= n
        BY <1>1, <2>2
      <3>2. \A i \in 1 .. k : its[i] \in Item
        BY <1>1, <1>2
      <3> HIDE DEF k, n
      <3>3. SubSeq(its, 1, k) \in Seq(Item) /\ Len(SubSeq(its, 1, k)) = k - 1 + 1
            /\ \A i \in 1 .. k - 1 + 1 : SubSeq(its, 1, k)[i] = its[1 + i - 1]
        BY <3>1, <3>2, SubSeqProperties
      <3>4. k - 1 + 1 = k /\ \A i \in 1 .. k : 1 + i - 1 = i
        BY <3>1
      <3> QED BY <3>3, <3>4 DEF k
    <2> QED BY <2>1, <2>2
  <1>4. t \in Seq(Item) /\ Len(t) = n - j /\ \A i \in 1 .. n - j : t[i] = its[j + i]
    <2>1. CASE j = n
      <3>1. t = <<>>
        BY <1>1, <2>1, SubSeqEmpty
      <3> QED BY <1>1, <2>1, <3>1
    <2>2. CASE j # n
      <3> DEFINE k == j + 1
      <3>1. k \in Int /\ n \in Int /\ k <= n /\ j \in Nat /\ 1 <= k
        BY <1>1, <2>2
      <3>2. \A i \in k .. n : its[i] \in Item
        BY <1>1, <1>2
      <3>3. n - k + 1 = n - j /\ \A i \in 1 .. n - j : k + i - 1 = j + i
        BY <1>1
      <3> HIDE DEF k, n
      <3>4. SubSeq(its, k, n) \in Seq(Item) /\ Len(SubSeq(its, k, n)) = n - k + 1
            /\ \A i \in 1 .. n - k + 1 : SubSeq(its, k, n)[i] = its[k + i - 1]
        BY <3>1, <3>2, SubSeqProperties
      <3> QED BY <3>3, <3>4 DEF k
    <2> QED BY <2>1, <2>2
  <1> DEFINE r == s \o t
  <1> HIDE DEF s, t, n
  <1>5. /\ r \in Seq(Item) /\ Len(r) = Len(s) + Len(t)
        /\ \A i \in 1 .. Len(s) + Len(t) : r[i] = IF i <= Len(s) THEN s[i] ELSE t[i - Len(s)]
    BY <1>3, <1>4, ConcatProperties
  <1>6. RemoveAt(its, j) = r
    BY DEF RemoveAt, s, t, n
  <1> HIDE DEF r
  <1>7. Len(s) + Len(t) = n - 1
    BY <1>1, <1>3, <1>4
  <1>8. ASSUME NEW i \in 1 .. n - 1 PROVE r[i] = IF i < j THEN its[i] ELSE its[i + 1]
    <2>1. r[i] = IF i <= j - 1 THEN s[i] ELSE t[i - (j - 1)]
      BY <1>3, <1>5, <1>7
    <2>2. CASE i < j
      <3>1. i <= j - 1 /\ i \in 1 .. j - 1
        BY <1>1, <2>2
      <3> QED BY <1>3, <2>1, <2>2, <3>1
    <2>3. CASE ~(i < j)
      <3>1. ~(i <= j - 1) /\ i - (j - 1) \in 1 .. n - j /\ j + (i - (j - 1)) = i + 1
        BY <1>1, <2>3
      <3> QED BY <1>4, <2>1, <2>3, <3>1
    <2> QED BY <2>2, <2>3
  <1> QED BY <1>5, <1>6, <1>7, <1>8 DEF n

\* its is full without some items that have not been merged.
Thinned(its, full) ==
    /\ its \in Seq(Item) /\ Apart(its)
    /\ \A j \in 1 .. Len(its) : \E h \in 1 .. Len(full) : its[j] = full[h]
    /\ \A h \in 1 .. Len(full) : full[h].merged # 0 => \E j \in 1 .. Len(its) : its[j] = full[h]

LEMMA ThinnedMore ==
    ASSUME NEW full, NEW its, Thinned(its, full), NEW j \in 1 .. Len(its), its[j].merged = 0
    PROVE  Thinned(RemoveAt(its, j), full)
  <1> DEFINE r == RemoveAt(its, j)
             n == Len(its)
  <1>1. /\ its \in Seq(Item) /\ Apart(its) /\ n \in Nat
        /\ \A i \in 1 .. n : \E h \in 1 .. Len(full) : its[i] = full[h]
        /\ \A h \in 1 .. Len(full) : full[h].merged # 0 => \E i \in 1 .. n : its[i] = full[h]
    BY LenProperties DEF Thinned
  <1>2. /\ r \in Seq(Item) /\ Len(r) = n - 1
        /\ \A i \in 1 .. n - 1 : r[i] = IF i < j THEN its[i] ELSE its[i + 1]
    BY <1>1, RemoveOne
  <1> HIDE DEF r
  <1> DEFINE from(i) == IF i < j THEN i ELSE i + 1
  <1>3. \A i \in 1 .. n - 1 : from(i) \in 1 .. n /\ r[i] = its[from(i)]
    BY <1>1, <1>2
  <1>4. \A i, h \in 1 .. n - 1 : from(i) = from(h) => i = h
    BY <1>1
  <1>5. \A i \in 1 .. n : i # j => \E h \in 1 .. n - 1 : from(h) = i
    <2> TAKE i \in 1 .. n
    <2> HAVE i # j
    <2>1. CASE i < j
      <3>1. i \in 1 .. n - 1 /\ from(i) = i
        BY <1>1, <2>1
      <3> QED BY <3>1
    <2>2. CASE i > j
      <3>1. i - 1 \in 1 .. n - 1 /\ from(i - 1) = i
        BY <1>1, <2>2
      <3> QED BY <3>1
    <2> QED BY <1>1, <2>1, <2>2
  <1> HIDE DEF from, n
  <1>6. Apart(r)
    <2>1. ASSUME NEW i \in 1 .. n - 1, NEW h \in 1 .. n - 1, r[i].idx = r[h].idx PROVE i = h
      <3>1. /\ from(i) \in 1 .. n /\ from(h) \in 1 .. n
            /\ its[from(i)].idx = its[from(h)].idx
        BY <1>3, <2>1
      <3>2. from(i) = from(h)
        BY <1>1, <3>1 DEF Apart, n
      <3> QED BY <1>4, <3>2
    <2>2. Len(r) = n - 1
      BY <1>2
    <2> QED BY <2>1, <2>2 DEF Apart
  <1>7. ASSUME NEW i \in 1 .. Len(r) PROVE \E h \in 1 .. Len(full) : r[i] = full[h]
    <2>1. i \in 1 .. n - 1
      BY <1>2
    <2>2. from(i) \in 1 .. n /\ r[i] = its[from(i)]
      BY <1>3, <2>1
    <2> QED BY <1>1, <2>2
  <1>8. ASSUME NEW h \in 1 .. Len(full), full[h].merged # 0
        PROVE  \E i \in 1 .. Len(r) : r[i] = full[h]
    <2>1. PICK i \in 1 .. n : its[i] = full[h]
      BY <1>1, <1>8
    <2>2. i # j
      BY <1>8, <2>1
    <2>3. PICK g \in 1 .. n - 1 : from(g) = i
      BY <1>5, <2>2
    <2> QED BY <1>2, <1>3, <2>1, <2>3
  <1> QED BY <1>2, <1>6, <1>7, <1>8 DEF Thinned, r

GroState(result, p, idx, bs, its) ==
    [result |-> result, pkt |-> p, idx |-> idx, bufs |-> bs, items |-> its]

Merges(mode, p, it, b) ==
    /\ mode \in {"Append", "Prepend"} /\ CanCoalesce(p, it, b) = mode
    /\ CoalesceResult(mode, p, Own(p), it, b) = "Success"

\* The packet is merged into item j, whatever items have been removed before.
MergedInto(st, p, idx, bs, its, j, mode) ==
    /\ j \in 1 .. Len(its) /\ Merges(mode, p, its[j], bs[its[j].idx])
    /\ st = GroState("Coalesced", p, idx,
                     [bs EXCEPT ![its[j].idx] = Coalesced(mode, p, Own(p), bs[its[j].idx])],
                     [its EXCEPT ![j] = Grown(mode, p, its[j])])

LEMMA Answers ==
    ASSUME NEW p \in GroPackets, Candidate(p), NEW it \in Item, NEW b \in Buf
    PROVE  /\ CanCoalesce(p, it, b) \in {"Append", "Prepend", "Unavailable"}
           /\ \A mode : CoalesceResult(mode, p, Own(p), it, b) = "ItemInvalidCsum" => it.merged = 0
  <1>1. CanCoalesce(p, it, b) \in {"Append", "Prepend", "Unavailable"}
    <2>1. p.proto \in {"tcp", "udp"}
      BY DEF Candidate
    <2>2. CASE p.hdr # b.hdr
      BY <2>2 DEF CanCoalesce
    <2>3. CASE p.hdr = b.hdr /\ p.proto = "udp"
      BY <2>3 DEF CanCoalesce
    <2>4. CASE p.hdr = b.hdr /\ p.proto = "tcp"
      BY <2>4 DEF CanCoalesce
    <2> QED BY <2>1, <2>2, <2>3, <2>4
  <1>2. ASSUME NEW mode, CoalesceResult(mode, p, Own(p), it, b) = "ItemInvalidCsum"
        PROVE  it.merged = 0
    <2> DEFINE cap == IF mode = "Prepend" THEN Own(p).cap ELSE b.cap
               n == Len(b.data) + Len(p.data)
               r == CoalesceResult(mode, p, Own(p), it, b)
    <2>1. r = CASE cap < n -> "InsufficientCap"
                [] cap >= n /\ it.merged = 0 /\ ~b.csum -> "ItemInvalidCsum"
                [] cap >= n /\ (it.merged > 0 \/ b.csum) ->
                      IF p.csum THEN "Success" ELSE "PktInvalidCsum"
      BY DEF CoalesceResult
    <2>2. cap \in Nat
      <3>1. Own(p).cap \in Nat /\ b.cap \in Nat
        BY OwnIsBuf DEF Buf
      <3>2. CASE mode = "Prepend"
        BY <3>1, <3>2
      <3>3. CASE mode # "Prepend"
        BY <3>1, <3>3
      <3> QED BY <3>2, <3>3
    <2>3. n \in Nat
      <3>1. p.data \in Seq(Byte) /\ b.data \in Seq(Byte)
        BY OwnIsBuf DEF Buf
      <3>2. Len(p.data) \in Nat /\ Len(b.data) \in Nat
        BY <3>1, LenProperties
      <3>3. \A x, y \in Nat : x + y \in Nat
        OBVIOUS
      <3> QED BY <3>2, <3>3, Zenon
    <2>4. r = "ItemInvalidCsum" /\ it.merged \in Nat
      BY <1>2 DEF Item
    <2> HIDE DEF cap, n, r
    <2>5. SUFFICES ASSUME it.merged # 0 PROVE FALSE
      OBVIOUS
    <2>6. CASE cap < n
      <3>1. ~(cap >= n)
        BY <2>2, <2>3, <2>6
      <3>2. r = "InsufficientCap"
        BY <2>1, <2>6, <3>1
      <3> QED BY <2>4, <3>2
    <2>7. CASE ~(cap < n)
      <3>1. cap >= n /\ it.merged > 0
        BY <2>2, <2>3, <2>4, <2>5, <2>7
      <3>2. r = IF p.csum THEN "Success" ELSE "PktInvalidCsum"
        BY <2>1, <2>5, <2>7, <3>1
      <3> QED BY <2>4, <3>2
    <2> QED BY <2>6, <2>7
  <1> QED BY <1>1, <1>2

\* What TryItem does with item j, as long as nothing is settled.
TriedTo(nx, st, p, idx, bs, its, j) ==
    \/ nx = st
    \/ nx = GroState("Noop", p, idx, bs, its)
    \/ nx = GroState("go", p, idx, bs, RemoveAt(its, j)) /\ its[j].merged = 0
    \/ \E mode : Merges(mode, p, its[j], bs[its[j].idx])
                 /\ nx = GroState("Coalesced", p, idx,
                           [bs EXCEPT ![its[j].idx] =
                              Coalesced(mode, p, Own(p), bs[its[j].idx])],
                           [its EXCEPT ![j] = Grown(mode, p, its[j])])

LEMMA Tried ==
    ASSUME NEW p \in GroPackets, Candidate(p), NEW idx, NEW bs, bs[idx] = Own(p),
           NEW its, NEW j, its[j] \in Item, bs[its[j].idx] \in Buf,
           NEW st, st = GroState("go", p, idx, bs, its), NEW nx, nx = TryItem(st, j)
    PROVE  TriedTo(nx, st, p, idx, bs, its, j)
  <1> DEFINE it == its[j]
             b == bs[it.idx]
             mode == CanCoalesce(p, it, b)
             result == CoalesceResult(mode, p, Own(p), it, b)
             more == [bs EXCEPT ![it.idx] = Coalesced(mode, p, Own(p), b)]
             grown == [its EXCEPT ![j] = Grown(mode, p, it)]
  <1>1. st.result = "go" /\ st.pkt = p /\ st.idx = idx /\ st.bufs = bs /\ st.items = its
    BY DEF GroState
  <1>2. nx = CASE st.result # "go" \/ mode = "Unavailable" -> st
               [] st.result = "go" /\ mode # "Unavailable" ->
                    CASE result = "Success" ->
                           [st EXCEPT !.result = "Coalesced",
                                      !.items = ReplaceAt(@, j, Grown(mode, p, it)),
                                      !.bufs = ReplaceAt(@, it.idx, Coalesced(mode, p, Own(p), b))]
                      [] result = "PktInvalidCsum" -> [st EXCEPT !.result = "Noop"]
                      [] result = "ItemInvalidCsum" /\ p.proto = "tcp" ->
                           [st EXCEPT !.items = RemoveAt(@, j)]
                      [] OTHER -> st
    BY <1>1 DEF TryItem
  <1>3. mode \in {"Append", "Prepend", "Unavailable"} /\ (result = "ItemInvalidCsum" => it.merged = 0)
    BY Answers
  <1>4. [st EXCEPT !.result = "Noop"] = GroState("Noop", p, idx, bs, its)
    BY DEF GroState
  <1>5. [st EXCEPT !.items = RemoveAt(@, j)] = GroState("go", p, idx, bs, RemoveAt(its, j))
    BY DEF GroState
  <1>6. [st EXCEPT !.result = "Coalesced",
                   !.items = ReplaceAt(@, j, Grown(mode, p, it)),
                   !.bufs = ReplaceAt(@, it.idx, Coalesced(mode, p, Own(p), b))]
          = GroState("Coalesced", p, idx, more, grown)
    <2> DEFINE x == ReplaceAt(its, j, Grown(mode, p, it))
               y == ReplaceAt(bs, it.idx, Coalesced(mode, p, Own(p), b))
    <2>1. x = grown /\ y = more
      BY DEF ReplaceAt
    <2> HIDE DEF x, y, more, grown
    <2> DEFINE T == [result : {"go", "Coalesced"}, pkt : {p}, idx : {idx}, bufs : {bs, y},
                     items : {its, x}]
               t == [st EXCEPT !.result = "Coalesced", !.items = x, !.bufs = y]
               u == GroState("Coalesced", p, idx, y, x)
    <2>2. st \in T
      BY DEF GroState
    <2>3. /\ t \in T /\ t.result = "Coalesced" /\ t.pkt = p /\ t.idx = idx
          /\ t.bufs = y /\ t.items = x
      BY <1>1, <2>2
    <2>4. /\ u \in T /\ u.result = "Coalesced" /\ u.pkt = p /\ u.idx = idx
          /\ u.bufs = y /\ u.items = x
      BY DEF GroState
    <2>5. \A v, w \in T : (/\ v.result = w.result /\ v.pkt = w.pkt /\ v.idx = w.idx
                            /\ v.bufs = w.bufs /\ v.items = w.items) => v = w
      OBVIOUS
    <2>6. t = u
      <3> HIDE DEF t, u, T
      <3> QED BY <2>3, <2>4, <2>5
    <2> QED BY <1>1, <2>1, <2>6 DEF x, y
  <1>7. result = "Success" /\ mode # "Unavailable" => Merges(mode, p, it, b)
    BY <1>3 DEF Merges
  <1> HIDE DEF mode, result, it, more, grown, b
  <1>8. \/ nx = st
        \/ nx = GroState("Noop", p, idx, bs, its)
        \/ nx = GroState("go", p, idx, bs, RemoveAt(its, j)) /\ it.merged = 0
        \/ Merges(mode, p, it, b) /\ nx = GroState("Coalesced", p, idx, more, grown)
    <2>1. CASE mode = "Unavailable"
      <3>1. nx = st
        BY <1>1, <1>2, <2>1
      <3> QED BY <3>1
    <2>2. CASE mode # "Unavailable" /\ result = "Success"
      <3>1. nx = GroState("Coalesced", p, idx, more, grown)
        BY <1>1, <1>2, <1>6, <2>2
      <3> QED BY <1>7, <2>2, <3>1
    <2>3. CASE mode # "Unavailable" /\ result = "PktInvalidCsum"
      BY <1>1, <1>2, <1>4, <2>3
    <2>4. CASE mode # "Unavailable" /\ result = "ItemInvalidCsum" /\ p.proto = "tcp"
      BY <1>1, <1>2, <1>3, <1>5, <2>4
    <2>5. CASE /\ mode # "Unavailable" /\ result # "Success" /\ result # "PktInvalidCsum"
               /\ ~(result = "ItemInvalidCsum" /\ p.proto = "tcp")
      BY <1>1, <1>2, <2>5
    <2> QED BY <2>1, <2>2, <2>3, <2>4, <2>5
  <1> QED BY <1>8 DEF mode, it, b, more, grown, TriedTo

-----------------------------------------------------------------------------
(* A packet and the items of its flow                                       *)

\* Induction up to n, on a set.
LEMMA UpTo ==
    ASSUME NEW n \in Nat, NEW T, 0 \in T, \A i \in 0 .. n : i \in T /\ i < n => i + 1 \in T
    PROVE  \A i \in 0 .. n : i \in T
  <1> DEFINE missing == {i \in Nat : i <= n /\ i \notin T}
  <1>1. SUFFICES ASSUME missing # {} PROVE FALSE
    OBVIOUS
  <1>2. PICK m \in missing : \A j \in missing : ~(<<j, m>> \in OpToRel(<, Nat))
    <2>1. missing \subseteq Nat
      OBVIOUS
    <2> HIDE DEF missing
    <2> QED BY <1>1, <2>1, NatLessThanWellFounded, WFMin
  <1>3. \A j \in missing : ~(j < m)
    BY <1>2 DEF OpToRel
  <1>4. m \in Nat /\ m <= n /\ m # 0 /\ m - 1 \in 0 .. n
    OBVIOUS
  <1>5. m - 1 \in T
    BY <1>3, <1>4
  <1> QED BY <1>4, <1>5

IsRun(start, q, f) ==
    f = [i \in 0 .. Len(q) |-> IF i = 0 THEN start ELSE TryItem(f[i - 1], q[i])]

\* The loop over the items is a sequence of states.
LEMMA RunExists ==
    ASSUME NEW start, NEW q, Len(q) \in Nat
    PROVE  \E f : IsRun(start, q, f)
  <1> DEFINE Step(f, i) == IF i = 0 THEN start ELSE TryItem(f[i - 1], q[i])
             Is(f, n) == f = [i \in 0 .. n |-> Step(f, i)]
             T == {n \in Nat : \E f : Is(f, n)}
  <1>1. 0 \in T
    <2>1. Is([i \in 0 .. 0 |-> start], 0)
      OBVIOUS
    <2> QED BY <2>1
  <1>2. ASSUME NEW n \in Nat, n \in T PROVE n + 1 \in T
    <2>1. PICK f : Is(f, n)
      BY <1>2
    <2> DEFINE g == [i \in 0 .. n + 1 |-> IF i = n + 1 THEN TryItem(f[n], q[n + 1]) ELSE f[i]]
    <2>2. ASSUME NEW i \in 0 .. n + 1 PROVE g[i] = Step(g, i)
      <3>1. CASE i = n + 1
        BY <3>1
      <3>2. CASE i \in 0 .. n
        <4>1. f[i] = Step(f, i)
          BY <2>1, <3>2
        <4>2. g[i] = f[i] /\ (i # 0 => g[i - 1] = f[i - 1])
          BY <3>2
        <4> QED BY <4>1, <4>2
      <3> QED BY <3>1, <3>2
    <2>3. Is(g, n + 1)
      BY <2>2
    <2> HIDE DEF g, Is
    <2>4. \E f_ : Is(f_, n + 1)
      BY <2>3
    <2> QED BY <2>4
  <1>3. Len(q) \in T
    <2> HIDE DEF T
    <2>1. \A n \in 0 .. Len(q) : n \in T /\ n < Len(q) => n + 1 \in T
      BY <1>2
    <2>2. \A n \in 0 .. Len(q) : n \in T
      BY <1>1, <2>1, UpTo
    <2> QED BY <2>2
  <1> QED BY <1>3 DEF IsRun

Tries(start, q) == InOrder(TryItem, start, q)

LEMMA TryLoop ==
    ASSUME NEW start, NEW q, Len(q) \in Nat
    PROVE  \E f : /\ f[0] = start /\ Tries(start, q) = f[Len(q)]
                  /\ \A i \in 1 .. Len(q) : f[i] = TryItem(f[i - 1], q[i])
  <1> DEFINE Is(f) == f = [i \in 0 .. Len(q) |-> IF i = 0 THEN start ELSE TryItem(f[i - 1], q[i])]
  <1>1. PICK f : IsRun(start, q, f)
    BY RunExists
  <1>2. Is(f)
    BY <1>1 DEF IsRun
  <1> DEFINE after == CHOOSE g : Is(g)
  <1>3. Is(after) /\ Tries(start, q) = after[Len(q)]
    BY <1>2 DEF Tries, InOrder
  <1> HIDE DEF after
  <1>4. after[0] = start /\ \A i \in 1 .. Len(q) : after[i] = TryItem(after[i - 1], q[i])
    BY <1>3
  <1> QED BY <1>3, <1>4

\* Before the packet is settled, the items that are still to be tried are in their places.
Going(st, p, idx, bs, full, order, i) ==
    \E its : /\ Thinned(its, full) /\ st = GroState("go", p, idx, bs, its)
             /\ \A h \in i + 1 .. Len(order) : order[h] \in 1 .. Len(its)
Declined(st, p, idx, bs, full) ==
    \E its : Thinned(its, full) /\ st = GroState("Noop", p, idx, bs, its)
Merging(st, p, idx, bs, full) ==
    \E its, j, mode : Thinned(its, full) /\ MergedInto(st, p, idx, bs, its, j, mode)
Reached(st, p, idx, bs, full, order, i) ==
    \/ Going(st, p, idx, bs, full, order, i)
    \/ Declined(st, p, idx, bs, full) \/ Merging(st, p, idx, bs, full)

LEMMA TryReached ==
    ASSUME NEW p \in GroPackets, Candidate(p), NEW idx, NEW bs, bs[idx] = Own(p), NEW full,
           \A h \in 1 .. Len(full) : bs[full[h].idx] \in Buf,
           NEW order, Len(order) \in Nat,
           \A g, h \in 1 .. Len(order) : g < h => order[h] < order[g],
           NEW i \in 1 .. Len(order), NEW st, Reached(st, p, idx, bs, full, order, i - 1)
    PROVE  Reached(TryItem(st, order[i]), p, idx, bs, full, order, i)
  <1> DEFINE nx == TryItem(st, order[i])
             j == order[i]
  <1>1. CASE Going(st, p, idx, bs, full, order, i - 1)
    <2>1. PICK its : /\ Thinned(its, full) /\ st = GroState("go", p, idx, bs, its)
                     /\ \A h \in i - 1 + 1 .. Len(order) : order[h] \in 1 .. Len(its)
      BY <1>1 DEF Going
    <2>2. i - 1 + 1 = i /\ i \in i .. Len(order)
      OBVIOUS
    <2>3. j \in 1 .. Len(its) /\ \A h \in i + 1 .. Len(order) : order[h] \in 1 .. Len(its)
      <3>1. \A h \in i + 1 .. Len(order) : h \in i .. Len(order)
        OBVIOUS
      <3> QED BY <2>1, <2>2, <3>1
    <2>4. its \in Seq(Item) /\ its[j] \in Item
      BY <2>1, <2>3, ElementOfSeq DEF Thinned
    <2>5. bs[its[j].idx] \in Buf
      BY <2>1, <2>3 DEF Thinned
    <2> HIDE DEF nx, j
    <2>6. TriedTo(nx, st, p, idx, bs, its, j)
      <3>1. nx = TryItem(st, j)
        BY DEF nx, j
      <3> QED BY <2>1, <2>4, <2>5, <3>1, Tried
    <2>7. CASE nx = st
      <3>1. Going(nx, p, idx, bs, full, order, i)
        BY <2>1, <2>3, <2>7 DEF Going
      <3> QED BY <3>1 DEF Reached, nx
    <2>8. CASE nx = GroState("Noop", p, idx, bs, its)
      <3>1. Declined(nx, p, idx, bs, full)
        BY <2>1, <2>8 DEF Declined
      <3> QED BY <3>1 DEF Reached, nx
    <2>9. CASE nx = GroState("go", p, idx, bs, RemoveAt(its, j)) /\ its[j].merged = 0
      <3> DEFINE r == RemoveAt(its, j)
      <3>1. Thinned(r, full)
        BY <2>1, <2>3, <2>9, ThinnedMore
      <3>2. Len(r) = Len(its) - 1 /\ Len(its) \in Nat
        BY <2>3, <2>4, RemoveOne, LenProperties
      <3> HIDE DEF r
      <3>3. ASSUME NEW h \in i + 1 .. Len(order) PROVE order[h] \in 1 .. Len(r)
        <4>1. h \in 1 .. Len(order) /\ i < h
          OBVIOUS
        <4>2. order[h] < j
          BY <4>1 DEF j
        <4>3. order[h] \in 1 .. Len(its)
          BY <2>3
        <4> QED BY <2>3, <3>2, <4>2, <4>3
      <3>4. nx = GroState("go", p, idx, bs, r)
        BY <2>9 DEF r
      <3>5. Going(nx, p, idx, bs, full, order, i)
        BY <3>1, <3>3, <3>4 DEF Going
      <3> QED BY <3>5 DEF Reached, nx
    <2>10. ASSUME NEW mode, Merges(mode, p, its[j], bs[its[j].idx]),
                  nx = GroState("Coalesced", p, idx,
                         [bs EXCEPT ![its[j].idx] = Coalesced(mode, p, Own(p), bs[its[j].idx])],
                         [its EXCEPT ![j] = Grown(mode, p, its[j])])
           PROVE  Merging(nx, p, idx, bs, full)
      <3>1. MergedInto(nx, p, idx, bs, its, j, mode)
        BY <2>3, <2>10 DEF MergedInto
      <3> QED BY <2>1, <3>1 DEF Merging
    <2>11. Merging(nx, p, idx, bs, full) => Reached(nx, p, idx, bs, full, order, i)
      BY DEF Reached
    <2> QED BY <2>6, <2>7, <2>8, <2>9, <2>10, <2>11 DEF nx, TriedTo
  <1>2. CASE Declined(st, p, idx, bs, full)
    <2>1. st.result # "go"
      BY <1>2 DEF Declined, GroState
    <2>2. nx = st
      BY <2>1 DEF TryItem
    <2> QED BY <1>2, <2>2 DEF Reached
  <1>3. CASE Merging(st, p, idx, bs, full)
    <2>1. st.result # "go"
      BY <1>3 DEF Merging, MergedInto, GroState
    <2>2. nx = st
      BY <2>1 DEF TryItem
    <2> QED BY <1>3, <2>2 DEF Reached
  <1> QED BY <1>1, <1>2, <1>3 DEF Reached

NewItem(p, idx) == [idx |-> idx, seq |-> p.seq, merged |-> 0, gso |-> Len(p.data), psh |-> p.psh]

\* The packet gets an item, or none.
Adding(st, p, idx, bs, full) ==
    \E its : /\ Thinned(its, full) /\ st.result # "Coalesced" /\ st.bufs = bs
             /\ (st.items = its \/ st.items = Append(its, NewItem(p, idx)))

LEMMA GroDoes ==
    ASSUME NEW p \in GroPackets, Candidate(p), NEW bs \in Seq(Buf), bs # <<>>,
           bs[Len(bs)] = Own(p), NEW full \in Seq(Item), Apart(full),
           \A h \in 1 .. Len(full) : full[h].idx \in 1 .. Len(bs)
    PROVE  \/ Adding(Gro(p, bs, full), p, Len(bs), bs, full)
           \/ Merging(Gro(p, bs, full), p, Len(bs), bs, full)
  <1> DEFINE n == Len(full)
             order == IF p.proto = "tcp" THEN [i \in 1 .. n |-> n + 1 - i]
                      ELSE IF n = 0 THEN <<>> ELSE <<n>>
             idx == Len(bs)
             start == GroState("go", p, idx, bs, full)
             st == Tries(start, order)
             new == NewItem(p, idx)
             inserts == st.result = "go" \/ (st.result = "Noop" /\ p.proto = "udp")
             r == Gro(p, bs, full)
  <1>1. r = IF inserts THEN [st EXCEPT !.result = "TableInsert", !.items = Append(@, new)] ELSE st
    BY DEF Gro, NewItem, GroState, Tries
  <1>2. n \in Nat
    BY LenProperties
  <1>3. /\ Len(order) \in Nat /\ \A h \in 1 .. Len(order) : order[h] \in 1 .. n
        /\ \A g, h \in 1 .. Len(order) : g < h => order[h] < order[g]
    <2> HIDE DEF n
    <2>1. CASE p.proto = "tcp"
      <3>1. order = [i \in 1 .. n |-> n + 1 - i] /\ Len(order) = n
        BY <1>2, <2>1
      <3> HIDE DEF order
      <3> QED BY <1>2, <3>1
    <2>2. CASE p.proto # "tcp" /\ n = 0
      BY <2>2
    <2>3. CASE p.proto # "tcp" /\ n # 0
      BY <1>2, <2>3
    <2> QED BY <2>1, <2>2, <2>3
  <1> HIDE DEF order, st
  <1>4. PICK f : /\ f[0] = start /\ st = f[Len(order)]
                 /\ \A i \in 1 .. Len(order) : f[i] = TryItem(f[i - 1], order[i])
    <2> HIDE DEF start
    <2> QED BY <1>3, TryLoop DEF st
  <1>5. \A h \in 1 .. n : bs[full[h].idx] \in Buf
    BY ElementOfSeq
  <1>6. Thinned(full, full)
    BY DEF Thinned
  <1>7. Reached(f[0], p, idx, bs, full, order, 0)
    <2>1. \A h \in 0 + 1 .. Len(order) : order[h] \in 1 .. Len(full)
      BY <1>3
    <2>2. Going(f[0], p, idx, bs, full, order, 0)
      <3>1. f[0] = GroState("go", p, idx, bs, full)
        BY <1>4
      <3> HIDE DEF idx
      <3> QED BY <1>6, <2>1, <3>1 DEF Going
    <2> QED BY <2>2 DEF Reached
  <1> DEFINE T == {i \in 0 .. Len(order) : Reached(f[i], p, idx, bs, full, order, i)}
  <1>8. 0 \in T
    BY <1>3, <1>7
  <1>9. ASSUME NEW i \in 0 .. Len(order), i \in T, i < Len(order) PROVE i + 1 \in T
    <2> DEFINE k == i + 1
    <2>1. k \in 1 .. Len(order) /\ k - 1 = i /\ k \in 0 .. Len(order)
      BY <1>3, <1>9
    <2>2. Reached(f[k - 1], p, idx, bs, full, order, k - 1)
      BY <1>9, <2>1
    <2> HIDE DEF k, idx, n
    <2>3. bs[idx] = Own(p)
      BY DEF idx
    <2>4. Reached(TryItem(f[k - 1], order[k]), p, idx, bs, full, order, k)
      BY <1>3, <1>5, <2>1, <2>2, <2>3, TryReached DEF n
    <2>5. Reached(f[k], p, idx, bs, full, order, k)
      BY <1>4, <2>1, <2>4
    <2>6. k \in T
      BY <2>1, <2>5
    <2> QED BY <2>6 DEF k
  <1>10. Reached(st, p, idx, bs, full, order, Len(order))
    <2> HIDE DEF T
    <2>1. \A i \in 0 .. Len(order) : i \in T
      BY <1>3, <1>8, <1>9, UpTo
    <2>2. Len(order) \in 0 .. Len(order)
      BY <1>3
    <2>3. Len(order) \in T
      BY <2>1, <2>2
    <2> QED BY <1>4, <2>3 DEF T
  <1>11. CASE Going(st, p, idx, bs, full, order, Len(order))
    <2>1. PICK its : Thinned(its, full) /\ st = GroState("go", p, idx, bs, its)
      BY <1>11 DEF Going
    <2> HIDE DEF new, r, idx
    <2>2. /\ st.result = "go" /\ st.items = its /\ st.bufs = bs
          /\ DOMAIN st = {"result", "pkt", "idx", "bufs", "items"}
      BY <2>1 DEF GroState
    <2>3. r = [st EXCEPT !.result = "TableInsert", !.items = Append(@, new)]
      BY <1>1, <2>2
    <2>4. r.result = "TableInsert" /\ r.items = Append(its, new) /\ r.bufs = bs
      BY <2>2, <2>3
    <2> QED BY <2>1, <2>4 DEF Adding, r, new, idx
  <1>12. CASE Declined(st, p, idx, bs, full)
    <2>1. PICK its : Thinned(its, full) /\ st = GroState("Noop", p, idx, bs, its)
      BY <1>12 DEF Declined
    <2> HIDE DEF new, r, idx
    <2>2. /\ st.result = "Noop" /\ st.items = its /\ st.bufs = bs
          /\ DOMAIN st = {"result", "pkt", "idx", "bufs", "items"}
      BY <2>1 DEF GroState
    <2>3. CASE p.proto = "udp"
      <3>1. r = [st EXCEPT !.result = "TableInsert", !.items = Append(@, new)]
        BY <1>1, <2>2, <2>3
      <3>2. r.result = "TableInsert" /\ r.items = Append(its, new) /\ r.bufs = bs
        BY <2>2, <3>1
      <3> QED BY <2>1, <3>2 DEF Adding, r, new, idx
    <2>4. CASE p.proto # "udp"
      <3>1. r = st
        BY <1>1, <2>2, <2>4
      <3> QED BY <2>1, <2>2, <3>1 DEF Adding, r, idx
    <2> QED BY <2>3, <2>4
  <1>13. CASE Merging(st, p, idx, bs, full)
    <2>1. st.result = "Coalesced"
      BY <1>13 DEF Merging, MergedInto, GroState
    <2>2. r = st
      BY <1>1, <2>1
    <2> QED BY <1>13, <2>2
  <1> HIDE DEF r
  <1> QED BY <1>10, <1>11, <1>12, <1>13 DEF Reached, r

-----------------------------------------------------------------------------
(* The table, the buffers and what has been written                         *)

\* The lists of the table, the buffers bs and the indices tw are of their types.
Typed(bs, table, tw) ==
    /\ bs \in Seq(Buf) /\ table \in [Keys -> Seq(Item)] /\ tw \in Seq(1 .. Len(bs))

\* An item is about a buffer of its flow that is written.
Stands(bs, tw, k, it) ==
    /\ \E h \in 1 .. Len(tw) : tw[h] = it.idx
    /\ Key(bs[it.idx]) = k /\ Describes(it, bs[it.idx])
Tables(bs, table, tw) ==
    \A k \in Keys : /\ Apart(table[k])
                    /\ \A j \in 1 .. Len(table[k]) : Stands(bs, tw, k, table[k][j])

Once(tw) == \A i, j \in 1 .. Len(tw) : tw[i] = tw[j] => i = j

Outputs(bs, table, tw) == [k \in 1 .. Len(tw) |-> Written(bs, table, tw[k])]

\* Every packet has its place in what is delivered.
Sound(bs, table, tw, r) ==
    /\ Typed(bs, table, tw) /\ r \in Seq(GroPackets) /\ Tables(bs, table, tw) /\ Once(tw)
    /\ Placed(Outputs(bs, table, tw), Len(tw), r)

GroInv == roomy \in BOOLEAN /\ Sound(bufs, items_by_flow, to_write, received)

\* The items that say how buffer i is split.
MergedAt(table, i) == {it \in UNION {ToSet(table[k]) : k \in Keys} : it.idx = i /\ it.merged > 0}

LEMMA MergedAre ==
    ASSUME NEW table \in [Keys -> Seq(Item)], NEW i, NEW x
    PROVE  x \in MergedAt(table, i) <=>
             /\ \E k \in Keys : \E j \in 1 .. Len(table[k]) : table[k][j] = x
             /\ x.idx = i /\ x.merged > 0
  <1>1. ASSUME NEW k \in Keys
        PROVE  ToSet(table[k]) = {table[k][j] : j \in 1 .. Len(table[k])}
    <2>1. table[k] \in Seq(Item)
      OBVIOUS
    <2>2. DOMAIN table[k] = 1 .. Len(table[k])
      BY <2>1, LenProperties
    <2> QED BY <2>2 DEF ToSet
  <1>2. x \in UNION {ToSet(table[k]) : k \in Keys}
          <=> \E k \in Keys : \E j \in 1 .. Len(table[k]) : table[k][j] = x
    <2>1. x \in UNION {ToSet(table[k]) : k \in Keys} <=> \E k \in Keys : x \in ToSet(table[k])
      OBVIOUS
    <2> QED BY <1>1, <2>1
  <1> QED BY <1>2 DEF MergedAt

GsoOf(S) == IF S = {} THEN 0 ELSE (CHOOSE it \in S : TRUE).gso

LEMMA WrittenIs ==
    ASSUME NEW bs, NEW table, NEW i
    PROVE  Written(bs, table, i) = GsoSplit(bs[i], GsoOf(MergedAt(table, i)))
  BY DEF Written, GsoSize, MergedAt, GsoOf

\* What is written of a buffer that an item is about.
LEMMA WrittenItem ==
    ASSUME NEW bs, NEW table, NEW tw, Typed(bs, table, tw), Tables(bs, table, tw),
           NEW k \in Keys, NEW j \in 1 .. Len(table[k]), NEW it, it = table[k][j]
    PROVE  IsSplit(Written(bs, table, it.idx), bs[it.idx], it.gso, it.merged + 1)
  <1> DEFINE b == bs[it.idx]
             S == MergedAt(table, it.idx)
             w == Written(bs, table, it.idx)
  <1>1. bs \in Seq(Buf) /\ table \in [Keys -> Seq(Item)] /\ tw \in Seq(1 .. Len(bs))
    BY DEF Typed
  <1>2. table[k] \in Seq(Item) /\ it \in Item
    BY <1>1, ElementOfSeq
  <1>3. Stands(bs, tw, k, it)
    BY DEF Tables
  <1>4. b \in Buf
    <2>1. PICK h \in 1 .. Len(tw) : tw[h] = it.idx
      BY <1>3 DEF Stands
    <2>2. it.idx \in 1 .. Len(bs)
      BY <1>1, <2>1, ElementOfSeq
    <2> QED BY <1>1, <2>2, ElementOfSeq
  <1>5. ASSUME NEW x \in S PROVE x = it
    <2> HIDE DEF b, w
    <2>0. /\ \E l \in Keys : \E g \in 1 .. Len(table[l]) : table[l][g] = x
          /\ x.idx = it.idx /\ x.merged > 0
      <3> DEFINE i == it.idx
      <3>1. x \in MergedAt(table, i)
        OBVIOUS
      <3> HIDE DEF i, S
      <3>2. /\ \E l \in Keys : \E g \in 1 .. Len(table[l]) : table[l][g] = x
            /\ x.idx = i /\ x.merged > 0
        BY <1>1, <3>1, MergedAre
      <3> QED BY <3>2 DEF i
    <2>1. PICK l \in Keys : \E g \in 1 .. Len(table[l]) : table[l][g] = x
      BY <2>0
    <2>2. PICK g \in 1 .. Len(table[l]) : table[l][g] = x
      BY <2>1
    <2>3. x.idx = it.idx
      BY <2>0
    <2>4. Stands(bs, tw, l, x)
      BY <2>2 DEF Tables
    <2>5. l = k
      BY <1>3, <2>3, <2>4 DEF Stands
    <2>6. Apart(table[k])
      BY DEF Tables
    <2>7. g = j
      BY <2>2, <2>3, <2>5, <2>6 DEF Apart
    <2> QED BY <2>2, <2>5, <2>7
  <1>6. w = GsoSplit(b, IF S = {} THEN 0 ELSE (CHOOSE x \in S : TRUE).gso)
    BY WrittenIs DEF GsoOf
  <1>7. Describes(it, b) /\ it.merged \in Nat
    BY <1>2, <1>3 DEF Stands, Item
  <1>8. CASE it.merged = 0
    <2>1. S = {}
      <3>1. ASSUME NEW x \in S PROVE FALSE
        <4>1. x = it /\ x.merged > 0
          BY <1>1, <1>5, MergedAre
        <4> QED BY <1>8, <4>1
      <3> QED BY <3>1
    <2> HIDE DEF b, S, w
    <2>2. w = GsoSplit(b, 0)
      BY <1>6, <2>1
    <2>3. it.gso = Len(b.data) /\ it.gso \in Nat \ {0}
      BY <1>2, <1>7, <1>8 DEF Describes, Item
    <2>4. b.data # <<>>
      BY <2>3
    <2>5. IsSplit(GsoSplit(b, 0), b, Len(b.data), 1)
      BY <1>4, <2>4, SplitAlone
    <2>6. it.merged + 1 = 1
      BY <1>8
    <2>7. IsSplit(w, b, it.gso, it.merged + 1)
      BY <2>2, <2>3, <2>5, <2>6
    <2> QED BY <2>7 DEF b, w
  <1>9. CASE it.merged # 0
    <2>1. it \in S
      <3>1. it.merged > 0
        BY <1>7, <1>9
      <3> QED BY <1>1, <3>1, MergedAre
    <2> HIDE DEF b, S, w
    <2>2. S # {} /\ (CHOOSE x \in S : TRUE) = it
      BY <1>5, <2>1
    <2>3. w = GsoSplit(b, it.gso)
      BY <1>6, <2>2
    <2> DEFINE m == it.merged + 1
    <2>4. m # 1 /\ Pieces(b.data, it.gso, m)
      BY <1>7, <1>9 DEF Describes
    <2> HIDE DEF m
    <2>5. IsSplit(GsoSplit(b, it.gso), b, it.gso, m)
      BY <1>4, <2>4, SplitMany
    <2>6. IsSplit(w, b, it.gso, m)
      BY <2>3, <2>5
    <2> QED BY <2>6 DEF b, w, m
  <1> QED BY <1>8, <1>9

\* its is full with a new item, or one that has become new, and perhaps without items that
\* have not been merged.
Revised(its, full, new) ==
    /\ its \in Seq(Item) /\ Apart(its)
    /\ \A j \in 1 .. Len(its) :
          \/ its[j] = new
          \/ \E h \in 1 .. Len(full) : its[j] = full[h] /\ full[h].idx # new.idx
    /\ \A h \in 1 .. Len(full) : full[h].merged # 0 /\ full[h].idx # new.idx =>
          \E j \in 1 .. Len(its) : its[j] = full[h]

Replaces(table2, table, k, its) == table2 = [table EXCEPT ![k] = its]

OthersKept(bs2, table2, tw2, table, new) ==
    /\ Tables(bs2, table2, tw2) /\ table2 \in [Keys -> Seq(Item)]
    /\ \A i : i # new.idx => MergedAt(table2, i) = MergedAt(table, i)
    /\ \A x \in MergedAt(table2, new.idx) : x = new

OnlyNew(bs, table, tw, k, its, new, bs2, tw2) ==
    /\ \A i \in 1 .. Len(bs) : i # new.idx => bs2[i] = bs[i]
    /\ \A h \in 1 .. Len(tw) : \E g \in 1 .. Len(tw2) : tw2[g] = tw[h]
    /\ (\E j \in 1 .. Len(its) : its[j] = new) => Stands(bs2, tw2, k, new)
    /\ \A l \in Keys : l # k => \A j \in 1 .. Len(table[l]) : table[l][j].idx # new.idx

\* A flow's list is revised: the other buffers keep their items and their splits.
LEMMA Revision ==
    ASSUME NEW bs, NEW table, NEW tw, Typed(bs, table, tw), Tables(bs, table, tw),
           NEW k \in Keys, NEW its, NEW new, Revised(its, table[k], new),
           NEW bs2, NEW tw2,
           OnlyNew(bs, table, tw, k, its, new, bs2, tw2),
           NEW table2, Replaces(table2, table, k, its)
    PROVE  OthersKept(bs2, table2, tw2, table, new)
  <1>1. bs \in Seq(Buf) /\ table \in [Keys -> Seq(Item)] /\ tw \in Seq(1 .. Len(bs))
    BY DEF Typed
  <1>2. /\ its \in Seq(Item) /\ Apart(its)
        /\ \A j \in 1 .. Len(its) :
              \/ its[j] = new
              \/ \E h \in 1 .. Len(table[k]) : its[j] = table[k][h] /\ table[k][h].idx # new.idx
        /\ \A h \in 1 .. Len(table[k]) : table[k][h].merged # 0 /\ table[k][h].idx # new.idx =>
              \E j \in 1 .. Len(its) : its[j] = table[k][h]
    BY DEF Revised
  <1>0. /\ \A i \in 1 .. Len(bs) : i # new.idx => bs2[i] = bs[i]
        /\ \A h \in 1 .. Len(tw) : \E g \in 1 .. Len(tw2) : tw2[g] = tw[h]
        /\ (\E j \in 1 .. Len(its) : its[j] = new) => Stands(bs2, tw2, k, new)
        /\ \A l \in Keys : l # k => \A j \in 1 .. Len(table[l]) : table[l][j].idx # new.idx
    BY DEF OnlyNew
  <1>3. /\ table2 \in [Keys -> Seq(Item)] /\ table2[k] = its
        /\ \A l \in Keys : l # k => table2[l] = table[l]
    BY <1>1, <1>2 DEF Replaces
  <1>4. ASSUME NEW l \in Keys, NEW x, \E j \in 1 .. Len(table2[l]) : table2[l][j] = x
        PROVE  \/ l = k /\ x = new /\ \E j \in 1 .. Len(its) : its[j] = new
               \/ x.idx # new.idx /\ \E j \in 1 .. Len(table[l]) : table[l][j] = x
    <2>1. CASE l = k
      <3>1. PICK j \in 1 .. Len(its) : its[j] = x
        BY <1>3, <1>4, <2>1
      <3>2. CASE x = new
        BY <2>1, <3>1, <3>2
      <3>3. CASE x # new
        <4>1. PICK h \in 1 .. Len(table[k]) : its[j] = table[k][h] /\ table[k][h].idx # new.idx
          BY <1>2, <3>1, <3>3
        <4> QED BY <2>1, <3>1, <4>1
      <3> QED BY <3>2, <3>3
    <2>2. CASE l # k
      <3>1. PICK j \in 1 .. Len(table[l]) : table[l][j] = x
        BY <1>3, <1>4, <2>2
      <3>2. table[l][j].idx # new.idx
        BY <1>0, <2>2
      <3> QED BY <3>1, <3>2
    <2> QED BY <2>1, <2>2
  <1>5. ASSUME NEW l \in Keys, NEW x, \E j \in 1 .. Len(table[l]) : table[l][j] = x,
               x.idx # new.idx
        PROVE  Stands(bs2, tw2, l, x)
    <2>1. PICK j \in 1 .. Len(table[l]) : table[l][j] = x
      BY <1>5
    <2>2. Stands(bs, tw, l, x)
      BY <2>1 DEF Tables
    <2>3. PICK h \in 1 .. Len(tw) : tw[h] = x.idx
      BY <2>2 DEF Stands
    <2>4. x.idx \in 1 .. Len(bs)
      BY <1>1, <2>3, ElementOfSeq
    <2>5. bs2[x.idx] = bs[x.idx]
      BY <1>0, <1>5, <2>4
    <2>6. \E g \in 1 .. Len(tw2) : tw2[g] = x.idx
      BY <1>0, <2>3
    <2> QED BY <2>2, <2>5, <2>6 DEF Stands
  <1>6. Tables(bs2, table2, tw2)
    <2>1. ASSUME NEW l \in Keys, NEW j \in 1 .. Len(table2[l])
          PROVE  Stands(bs2, tw2, l, table2[l][j])
      <3> DEFINE x == table2[l][j]
      <3>1. \E i \in 1 .. Len(table2[l]) : table2[l][i] = x
        OBVIOUS
      <3> HIDE DEF x
      <3>2. \/ l = k /\ x = new /\ \E i \in 1 .. Len(its) : its[i] = new
            \/ x.idx # new.idx /\ \E i \in 1 .. Len(table[l]) : table[l][i] = x
        BY <1>4, <3>1
      <3>3. Stands(bs2, tw2, l, x)
        BY <1>0, <1>5, <3>2
      <3> QED BY <3>3 DEF x
    <2>2. ASSUME NEW l \in Keys PROVE Apart(table2[l])
      <3>1. Apart(table[l])
        BY DEF Tables
      <3> QED BY <1>2, <1>3, <3>1
    <2> QED BY <2>1, <2>2 DEF Tables
  <1>7. ASSUME NEW i, i # new.idx PROVE MergedAt(table2, i) = MergedAt(table, i)
    <2>1. ASSUME NEW x, x \in MergedAt(table2, i) PROVE x \in MergedAt(table, i)
      <3>1. /\ \E l \in Keys : \E j \in 1 .. Len(table2[l]) : table2[l][j] = x
            /\ x.idx = i /\ x.merged > 0
        BY <1>3, <2>1, MergedAre
      <3>2. PICK l \in Keys : \E j \in 1 .. Len(table2[l]) : table2[l][j] = x
        BY <3>1
      <3>3. \E j \in 1 .. Len(table[l]) : table[l][j] = x
        BY <1>4, <1>7, <3>1, <3>2
      <3>4. \E l_ \in Keys : \E j \in 1 .. Len(table[l_]) : table[l_][j] = x
        BY <3>3
      <3> QED BY <1>1, <3>1, <3>4, MergedAre
    <2>2. ASSUME NEW x, x \in MergedAt(table, i) PROVE x \in MergedAt(table2, i)
      <3>1. /\ \E l \in Keys : \E j \in 1 .. Len(table[l]) : table[l][j] = x
            /\ x.idx = i /\ x.merged > 0
        BY <1>1, <2>2, MergedAre
      <3>2. PICK l \in Keys : \E j \in 1 .. Len(table[l]) : table[l][j] = x
        BY <3>1
      <3>3. PICK j \in 1 .. Len(table[l]) : table[l][j] = x
        BY <3>2
      <3>4. \E h \in 1 .. Len(table2[l]) : table2[l][h] = x
        <4>1. CASE l = k
          <5>1. x \in Item
            <6>1. table[l] \in Seq(Item)
              BY <1>1
            <6> QED BY <3>3, <6>1, ElementOfSeq
          <5>2. x.merged # 0
            BY <3>1, <5>1 DEF Item
          <5>3. \E h \in 1 .. Len(its) : its[h] = table[k][j]
            BY <1>2, <1>7, <3>1, <3>3, <4>1, <5>2
          <5> QED BY <1>3, <3>3, <4>1, <5>3
        <4>2. CASE l # k
          BY <1>3, <3>3, <4>2
        <4> QED BY <4>1, <4>2
      <3>5. \E l_ \in Keys : \E h \in 1 .. Len(table2[l_]) : table2[l_][h] = x
        BY <3>4
      <3> QED BY <1>3, <3>1, <3>5, MergedAre
    <2> HIDE DEF MergedAt
    <2> QED BY <2>1, <2>2 DEF MergedAt
  <1>8. ASSUME NEW x \in MergedAt(table2, new.idx) PROVE x = new
    <2> DEFINE i == new.idx
    <2>1. x \in MergedAt(table2, i)
      OBVIOUS
    <2> HIDE DEF i
    <2>2. /\ \E l \in Keys : \E j \in 1 .. Len(table2[l]) : table2[l][j] = x
          /\ x.idx = i
      BY <1>3, <2>1, MergedAre
    <2>3. PICK l \in Keys : \E j \in 1 .. Len(table2[l]) : table2[l][j] = x
      BY <2>2
    <2>4. x.idx = new.idx
      BY <2>2 DEF i
    <2> QED BY <1>4, <2>3, <2>4
  <1> QED BY <1>3, <1>6, <1>7, <1>8 DEF OthersKept

\* A buffer that no item of another index changes is written as before.
LEMMA WrittenSame ==
    ASSUME NEW bs, NEW table, NEW bs2, NEW table2, NEW i, bs2[i] = bs[i],
           MergedAt(table2, i) = MergedAt(table, i)
    PROVE  Written(bs2, table2, i) = Written(bs, table, i)
  BY WrittenIs

-----------------------------------------------------------------------------
(* A packet in a buffer of its own                                          *)

LEMMA NewItemIs ==
    ASSUME NEW p \in GroPackets, Candidate(p), NEW idx \in Nat
    PROVE  NewItem(p, idx) \in Item /\ Describes(NewItem(p, idx), Own(p))
  <1> DEFINE new == NewItem(p, idx)
             n == Len(p.data)
  <1>1. /\ Own(p).seq = p.seq /\ Own(p).psh = p.psh
        /\ Own(p).data = p.data /\ Own(p).proto = p.proto
        /\ p.data \in Seq(Byte) /\ p.seq \in 0 .. SeqSpace - 1 /\ p.psh \in BOOLEAN
        /\ (p.proto = "udp" => p.seq = 0 /\ ~p.psh)
    BY OwnIsBuf
  <1>2. n \in Nat \ {0}
    <2>1. p.data # <<>>
      BY DEF Candidate
    <2>2. n \in Nat /\ n # 0
      BY <1>1, <2>1, LenProperties, EmptySeq
    <2> QED BY <2>2
  <1>3. /\ new.idx = idx /\ new.seq = p.seq /\ new.merged = 0 /\ new.gso = n /\ new.psh = p.psh
    BY DEF NewItem
  <1>4. new \in Item
    BY <1>1, <1>2 DEF NewItem, Item
  <1>5. Pieces(p.data, n, 0 + 1)
    <2> HIDE DEF n
    <2>1. n * (0 + 1 - 1) = 0 /\ n * (0 + 1) = n /\ 0 + 1 \in Nat \ {0} /\ 0 < n /\ n <= n
      BY <1>2
    <2>2. n * (0 + 1 - 1) < n /\ n <= n * (0 + 1)
      BY <2>1
    <2> QED BY <1>1, <1>2, <2>1, <2>2 DEF Pieces, n
  <1>6. Describes(new, Own(p))
    <2>1. p.proto \in {"tcp", "udp"}
      BY DEF Candidate
    <2> HIDE DEF new
    <2> QED BY <1>1, <1>3, <1>5, <2>1 DEF Describes
  <1> QED BY <1>4, <1>6

LEMMA AddRevises ==
    ASSUME NEW full \in Seq(Item), NEW its, Thinned(its, full), NEW new,
           \A h \in 1 .. Len(full) : full[h].idx # new.idx
    PROVE  Revised(its, full, new) /\ (new \in Item => Revised(Append(its, new), full, new))
  <1>1. /\ its \in Seq(Item) /\ Apart(its)
        /\ \A j \in 1 .. Len(its) : \E h \in 1 .. Len(full) : its[j] = full[h]
        /\ \A h \in 1 .. Len(full) : full[h].merged # 0 => \E j \in 1 .. Len(its) : its[j] = full[h]
    BY DEF Thinned
  <1>2. Revised(its, full, new)
    BY <1>1 DEF Revised
  <1>3. ASSUME new \in Item PROVE Revised(Append(its, new), full, new)
    <2> DEFINE r == Append(its, new)
               n == Len(its)
    <2>1. /\ r \in Seq(Item) /\ Len(r) = n + 1 /\ n \in Nat /\ r[n + 1] = new
          /\ \A j \in 1 .. n : r[j] = its[j]
      BY <1>1, <1>3, AppendProperties, LenProperties
    <2>2. \A j \in 1 .. n + 1 : j = n + 1 \/ j \in 1 .. n
      BY <2>1
    <2>2a. \A j \in 1 .. n : j \in 1 .. n + 1
      BY <2>1
    <2>3. \A j \in 1 .. n : its[j].idx # new.idx
      BY <1>1
    <2> HIDE DEF r, n
    <2>4. ASSUME NEW i \in 1 .. n + 1, NEW j \in 1 .. n + 1, r[i].idx = r[j].idx PROVE i = j
      <3>1. CASE i \in 1 .. n /\ j \in 1 .. n
        <4>1. its[i].idx = its[j].idx
          BY <2>1, <2>4, <3>1
        <4> QED BY <1>1, <3>1, <4>1 DEF Apart, n
      <3>2. CASE i = n + 1 /\ j \in 1 .. n
        BY <2>1, <2>3, <2>4, <3>2
      <3>3. CASE i \in 1 .. n /\ j = n + 1
        BY <2>1, <2>3, <2>4, <3>3
      <3> QED BY <2>2, <3>1, <3>2, <3>3
    <2>5. Apart(r)
      BY <2>1, <2>4 DEF Apart
    <2>6. ASSUME NEW j \in 1 .. Len(r)
          PROVE  r[j] = new \/ \E h \in 1 .. Len(full) : r[j] = full[h] /\ full[h].idx # new.idx
      <3>1. CASE j \in 1 .. n
        <4>1. r[j] = its[j] /\ j \in 1 .. Len(its)
          BY <2>1, <3>1 DEF n
        <4>2. PICK h \in 1 .. Len(full) : its[j] = full[h]
          BY <1>1, <4>1
        <4> QED BY <4>1, <4>2
      <3>2. CASE j = n + 1
        BY <2>1, <3>2
      <3> QED BY <2>1, <2>2, <3>1, <3>2
    <2>7. ASSUME NEW h \in 1 .. Len(full), full[h].merged # 0
          PROVE  \E j \in 1 .. Len(r) : r[j] = full[h]
      <3>1. PICK j \in 1 .. Len(its) : its[j] = full[h]
        BY <1>1, <2>7
      <3>2. j \in 1 .. Len(r) /\ r[j] = full[h]
        BY <2>1, <2>2a, <3>1 DEF n
      <3> QED BY <3>2
    <2> QED BY <2>1, <2>5, <2>6, <2>7 DEF Revised, r
  <1> QED BY <1>2, <1>3

\* p is buffer n, which is to be written, and the new list has an item for it, or none.
Adds(p, n, bs, tw, its, bs2, tw2, jts) ==
    /\ n = Len(bs) + 1 /\ bs2 = Append(bs, Own(p)) /\ tw2 = Append(tw, n)
    /\ jts = its \/ (Candidate(p) /\ jts = Append(its, NewItem(p, n)))

LEMMA AddSound ==
    ASSUME NEW bs, NEW table, NEW tw, NEW r, Sound(bs, table, tw, r), NEW p \in GroPackets,
           NEW n, NEW bs2, NEW tw2, NEW its, Thinned(its, table[Key(p)]), NEW jts,
           Adds(p, n, bs, tw, its, bs2, tw2, jts),
           NEW table2, Replaces(table2, table, Key(p), jts)
    PROVE  Sound(bs2, table2, tw2, Append(r, p))
  <1> DEFINE k == Key(p)
             full == table[k]
             new == NewItem(p, n)
             m == Len(tw)
  <1>1. /\ bs \in Seq(Buf) /\ table \in [Keys -> Seq(Item)] /\ tw \in Seq(1 .. Len(bs))
        /\ r \in Seq(GroPackets) /\ Tables(bs, table, tw) /\ Once(tw)
        /\ Placed(Outputs(bs, table, tw), m, r) /\ Typed(bs, table, tw)
    BY DEF Sound, Typed
  <1>2. k \in Keys /\ full \in Seq(Item)
    BY <1>1 DEF Keys
  <1>3. /\ Len(bs) \in Nat /\ n \in Nat /\ m \in Nat /\ n \notin 1 .. Len(bs)
        /\ n \in 1 .. n /\ \A i \in 1 .. Len(bs) : i \in 1 .. n /\ i # n
    BY <1>1, LenProperties DEF Adds
  <1>4. \A h \in 1 .. m : tw[h] \in 1 .. Len(bs)
    BY <1>1, ElementOfSeq
  <1>5. /\ bs2 \in Seq(Buf) /\ Len(bs2) = n /\ bs2[n] = Own(p)
        /\ \A i \in 1 .. Len(bs) : bs2[i] = bs[i]
    <2>1. Own(p) \in Buf
      BY OwnIsBuf
    <2> QED BY <1>1, <2>1, AppendProperties DEF Adds
  <1>6. /\ tw2 \in Seq(1 .. n) /\ Len(tw2) = m + 1 /\ tw2[m + 1] = n
        /\ \A h \in 1 .. m : tw2[h] = tw[h]
    <2>1. tw \in Seq(1 .. n)
      <3>1. DOMAIN tw = 1 .. m /\ tw = [h \in 1 .. m |-> tw[h]]
        BY <1>1, LenProperties
      <3>2. \A h \in 1 .. m : tw[h] \in 1 .. n
        BY <1>3, <1>4
      <3> QED BY <1>3, <3>1, <3>2, IsASeq
    <2> HIDE DEF m
    <2> QED BY <1>3, <2>1, AppendProperties DEF m, Adds
  <1>7. new.idx = n /\ new.merged = 0
    BY DEF NewItem
  <1>8. ASSUME NEW l \in Keys, NEW h \in 1 .. Len(table[l]) PROVE table[l][h].idx \in 1 .. Len(bs)
    <2>1. Stands(bs, tw, l, table[l][h])
      BY <1>1 DEF Tables
    <2> QED BY <1>4, <2>1 DEF Stands
  <1>9. \A h \in 1 .. Len(full) : full[h].idx # new.idx
    BY <1>2, <1>3, <1>7, <1>8
  <1>10. \A h \in 1 .. m : \E g \in 1 .. Len(tw2) : tw2[g] = tw[h]
    <2>1. \A h \in 1 .. m : h \in 1 .. m + 1
      BY <1>3
    <2> QED BY <1>6, <2>1
  <1> HIDE DEF new
  <1>11. Revised(jts, full, new) /\ ((\E j \in 1 .. Len(jts) : jts[j] = new) => Candidate(p))
    <2> HIDE DEF full
    <2>1. Thinned(its, full)
      BY DEF full, k
    <2>2. CASE jts = its
      <3>1. Revised(its, full, new)
        BY <1>2, <1>9, <2>1, AddRevises
      <3>2. ASSUME NEW j \in 1 .. Len(its), its[j] = new PROVE FALSE
        <4>1. PICK h \in 1 .. Len(full) : its[j] = full[h]
          BY <2>1 DEF Thinned
        <4> QED BY <1>9, <3>2, <4>1
      <3> QED BY <2>2, <3>1, <3>2
    <2>3. CASE Candidate(p) /\ jts = Append(its, new)
      <3>1. new \in Item
        BY <1>3, <2>3, NewItemIs DEF new
      <3>2. Revised(Append(its, new), full, new)
        BY <1>2, <1>9, <2>1, <3>1, AddRevises
      <3> QED BY <2>3, <3>2
    <2> QED BY <2>2, <2>3 DEF new, Adds
  <1>12. ASSUME Candidate(p) PROVE Stands(bs2, tw2, k, new)
    <2>1. Describes(new, Own(p))
      BY <1>3, <1>12, NewItemIs DEF new
    <2>2. Key(Own(p)) = k
      BY OwnIsBuf
    <2>3. m + 1 \in 1 .. Len(tw2) /\ tw2[m + 1] = new.idx
      BY <1>3, <1>6, <1>7
    <2> QED BY <1>5, <1>7, <2>1, <2>2, <2>3 DEF Stands
  <1>13a. OthersKept(bs2, table2, tw2, table, new)
    <2>1. \A i \in 1 .. Len(bs) : i # new.idx => bs2[i] = bs[i]
      BY <1>5
    <2>2. (\E j \in 1 .. Len(jts) : jts[j] = new) => Stands(bs2, tw2, k, new)
      BY <1>11, <1>12
    <2>3. \A l \in Keys : l # k => \A j \in 1 .. Len(table[l]) : table[l][j].idx # new.idx
      BY <1>3, <1>7, <1>8
    <2>4. Replaces(table2, table, k, jts) /\ Revised(jts, table[k], new)
      BY <1>11
    <2>5. OnlyNew(bs, table, tw, k, jts, new, bs2, tw2)
      BY <1>10, <2>1, <2>2, <2>3 DEF OnlyNew
    <2> HIDE DEF k, full, m
    <2> QED BY <1>1, <1>2, <2>4, <2>5, Revision
  <1>13. /\ Tables(bs2, table2, tw2) /\ table2 \in [Keys -> Seq(Item)]
         /\ \A i : i # new.idx => MergedAt(table2, i) = MergedAt(table, i)
         /\ \A x \in MergedAt(table2, new.idx) : x = new
    BY <1>13a DEF OthersKept
  <1>14. Typed(bs2, table2, tw2)
    BY <1>5, <1>6, <1>13 DEF Typed
  <1>15. Once(tw2)
    <2>1. ASSUME NEW i \in 1 .. m + 1, NEW j \in 1 .. m + 1, tw2[i] = tw2[j] PROVE i = j
      <3>1. CASE i \in 1 .. m /\ j \in 1 .. m
        <4>1. tw[i] = tw[j]
          BY <1>6, <2>1, <3>1
        <4> QED BY <1>1, <3>1, <4>1 DEF Once
      <3>2. CASE i \in 1 .. m /\ j = m + 1
        BY <1>3, <1>4, <1>6, <2>1, <3>2
      <3>3. CASE i = m + 1 /\ j \in 1 .. m
        BY <1>3, <1>4, <1>6, <2>1, <3>3
      <3>4. CASE i = m + 1 /\ j = m + 1
        BY <3>4
      <3>5. (i \in 1 .. m \/ i = m + 1) /\ (j \in 1 .. m \/ j = m + 1)
        BY <1>3
      <3> QED BY <3>1, <3>2, <3>3, <3>4, <3>5
    <2> QED BY <1>6, <2>1 DEF Once
  <1>16. Placed(Outputs(bs2, table2, tw2), Len(tw2), Append(r, p))
    <2> DEFINE w == Outputs(bs, table, tw)
               v == Outputs(bs2, table2, tw2)
    <2>1. ASSUME NEW h \in 1 .. m PROVE v[h] = w[h]
      <3>1. tw2[h] = tw[h] /\ tw[h] \in 1 .. Len(bs) /\ h \in 1 .. Len(tw2)
        BY <1>3, <1>4, <1>6
      <3>2. tw[h] # new.idx
        BY <1>3, <1>7, <3>1
      <3> DEFINE i == tw[h]
      <3>3. bs2[i] = bs[i] /\ MergedAt(table2, i) = MergedAt(table, i)
        BY <1>5, <1>13, <3>1, <3>2
      <3> HIDE DEF i
      <3>4. Written(bs2, table2, i) = Written(bs, table, i)
        BY <3>3, WrittenSame
      <3> QED BY <3>1, <3>4 DEF Outputs, i
    <2>2. v[m + 1] = <<Own(p)>>
      <3>1. MergedAt(table2, n) = {}
        <4>1. ASSUME NEW x \in MergedAt(table2, n) PROVE FALSE
          <5>1. x = new
            BY <1>7, <1>13
          <5>2. x.merged > 0
            BY DEF MergedAt
          <5> QED BY <1>7, <5>1, <5>2
        <4> QED BY <4>1
      <3>2. Written(bs2, table2, n) = GsoSplit(Own(p), 0)
        BY <1>5, <3>1, WrittenIs DEF GsoOf
      <3>3. GsoSplit(Own(p), 0) = <<Own(p)>>
        BY DEF GsoSplit
      <3>4. m + 1 \in 1 .. Len(tw2)
        BY <1>3, <1>6
      <3> QED BY <1>6, <3>2, <3>3, <3>4 DEF Outputs
    <2>3. Len(v[m + 1]) = 1 /\ Same(v[m + 1][1], p)
      <3>1. Seen(Own(p)) = Seen(p) /\ Own(p).psh = p.psh
        BY OwnIsBuf
      <3> HIDE DEF v
      <3> QED BY <2>2, <3>1 DEF Same
    <2> HIDE DEF v, w, m
    <2>4. Placed(v, m + 1, Append(r, p))
      <3>1. Placed(w, m, r) /\ m \in Nat /\ r \in Seq(GroPackets)
        BY <1>1, <1>3 DEF w
      <3> QED BY <2>1, <2>3, <3>1, PlacedApart
    <2> QED BY <1>6, <2>4 DEF v
  <1>17. Append(r, p) \in Seq(GroPackets)
    BY <1>1, AppendProperties
  <1> QED BY <1>13, <1>14, <1>15, <1>16, <1>17 DEF Sound

-----------------------------------------------------------------------------
(* A packet that is merged                                                  *)

\* The i-th segments of two buffers that are split are the same, o further in the second.
MergedBuf(mode, p, it, b, c, jt) ==
    /\ c \in Buf /\ Key(c) = Key(b) /\ jt \in Item /\ jt.idx = it.idx
    /\ jt.merged = it.merged + 1 /\ Describes(jt, c)
    /\ \E o \in {0, 1} :
          /\ \A i \in 1 .. it.merged + 1 : Look(c, jt.gso, i + o) = Look(b, it.gso, i)
          /\ Look(c, jt.gso, IF o = 0 THEN it.merged + 2 ELSE 1) = Seen(p)
          /\ c.psh => p.psh /\ o = 0

LEMMA BothMerge ==
    ASSUME NEW p \in GroPackets, Candidate(p), NEW it \in Item, NEW b \in Buf, Describes(it, b),
           Key(b) = Key(p), NEW mode, Merges(mode, p, it, b)
    PROVE  MergedBuf(mode, p, it, b, Coalesced(mode, p, Own(p), b), Grown(mode, p, it))
  <1> DEFINE c == Coalesced(mode, p, Own(p), b)
             jt == Grown(mode, p, it)
  <1>1. /\ mode \in {"Append", "Prepend"} /\ CanCoalesce(p, it, b) = mode
        /\ CoalesceResult(mode, p, Own(p), it, b) = "Success"
    BY DEF Merges
  <1> HIDE DEF c, jt
  <1>2. CASE mode = "Append"
    <2>1. c = Coalesced("Append", p, Own(p), b) /\ jt = Grown("Append", p, it)
      BY <1>2 DEF c, jt
    <2>2. /\ CanCoalesce(p, it, b) = "Append"
          /\ CoalesceResult("Append", p, Own(p), it, b) = "Success"
      BY <1>1, <1>2
    <2>3. /\ c \in Buf /\ Key(c) = Key(b) /\ jt \in Item /\ jt.idx = it.idx
          /\ jt.merged = it.merged + 1 /\ Describes(jt, c)
          /\ \A i \in 1 .. it.merged + 1 : Look(c, jt.gso, i) = Look(b, it.gso, i)
          /\ Look(c, jt.gso, it.merged + 2) = Seen(p) /\ (c.psh => p.psh)
      BY <2>1, <2>2, AppendMerges
    <2>4. it.merged \in Nat
      BY DEF Item
    <2>5. \A i \in 1 .. it.merged + 1 : Look(c, jt.gso, i + 0) = Look(b, it.gso, i)
      <3>1. \A i \in 1 .. it.merged + 1 : i + 0 = i
        BY <2>4
      <3> QED BY <2>3, <3>1
    <2> DEFINE o == 0
    <2>6. /\ o \in {0, 1}
          /\ \A i \in 1 .. it.merged + 1 : Look(c, jt.gso, i + o) = Look(b, it.gso, i)
          /\ Look(c, jt.gso, IF o = 0 THEN it.merged + 2 ELSE 1) = Seen(p)
          /\ c.psh => p.psh /\ o = 0
      BY <2>3, <2>5
    <2> HIDE DEF o
    <2> QED BY <2>3, <2>6 DEF MergedBuf, c, jt
  <1>3. CASE mode = "Prepend"
    <2>1. c = Coalesced("Prepend", p, Own(p), b) /\ jt = Grown("Prepend", p, it)
      BY <1>3 DEF c, jt
    <2>2. /\ CanCoalesce(p, it, b) = "Prepend"
          /\ CoalesceResult("Prepend", p, Own(p), it, b) = "Success"
      BY <1>1, <1>3
    <2>3. /\ c \in Buf /\ Key(c) = Key(b) /\ jt \in Item /\ jt.idx = it.idx
          /\ jt.merged = it.merged + 1 /\ Describes(jt, c)
          /\ \A i \in 1 .. it.merged + 1 : Look(c, jt.gso, i + 1) = Look(b, it.gso, i)
          /\ Look(c, jt.gso, 1) = Seen(p) /\ ~c.psh
      BY <2>1, <2>2, PrependMerges
    <2> DEFINE o == 1
    <2>6. /\ o \in {0, 1}
          /\ \A i \in 1 .. it.merged + 1 : Look(c, jt.gso, i + o) = Look(b, it.gso, i)
          /\ Look(c, jt.gso, IF o = 0 THEN it.merged + 2 ELSE 1) = Seen(p)
          /\ c.psh => p.psh /\ o = 0
      BY <2>3
    <2> HIDE DEF o
    <2> QED BY <2>3, <2>6 DEF MergedBuf, c, jt
  <1> QED BY <1>1, <1>2, <1>3 DEF c, jt

LEMMA MergeRevises ==
    ASSUME NEW full \in Seq(Item), NEW its, Thinned(its, full), NEW j \in 1 .. Len(its),
           NEW new \in Item, new.idx = its[j].idx
    PROVE  Revised([its EXCEPT ![j] = new], full, new)
  <1> DEFINE r == [its EXCEPT ![j] = new]
             n == Len(its)
  <1>1. /\ its \in Seq(Item) /\ Apart(its) /\ n \in Nat
        /\ \A h \in 1 .. n : \E g \in 1 .. Len(full) : its[h] = full[g]
        /\ \A h \in 1 .. Len(full) : full[h].merged # 0 => \E i \in 1 .. n : its[i] = full[h]
    BY LenProperties DEF Thinned
  <1>2. r \in Seq(Item) /\ Len(r) = n /\ r[j] = new /\ \A h \in 1 .. n : h # j => r[h] = its[h]
    BY <1>1
  <1> HIDE DEF r
  <1>3. \A h \in 1 .. n : r[h].idx = its[h].idx /\ (h # j => its[h].idx # new.idx)
    BY <1>1, <1>2 DEF Apart
  <1>4. Apart(r)
    BY <1>1, <1>2, <1>3 DEF Apart
  <1>5. ASSUME NEW h \in 1 .. Len(r)
        PROVE  r[h] = new \/ \E g \in 1 .. Len(full) : r[h] = full[g] /\ full[g].idx # new.idx
    <2>1. CASE h = j
      BY <1>2, <2>1
    <2>2. CASE h # j
      <3>1. h \in 1 .. n /\ r[h] = its[h] /\ its[h].idx # new.idx
        BY <1>2, <1>3, <2>2
      <3>2. PICK g \in 1 .. Len(full) : its[h] = full[g]
        BY <1>1, <3>1
      <3> QED BY <3>1, <3>2
    <2> QED BY <2>1, <2>2
  <1>6. ASSUME NEW h \in 1 .. Len(full), full[h].merged # 0, full[h].idx # new.idx
        PROVE  \E i \in 1 .. Len(r) : r[i] = full[h]
    <2>1. PICK i \in 1 .. n : its[i] = full[h]
      BY <1>1, <1>6
    <2>2. i # j
      BY <1>6, <2>1
    <2> QED BY <1>2, <2>1, <2>2
  <1> QED BY <1>2, <1>4, <1>5, <1>6 DEF Revised, r

\* Item j of the list and its buffer change, whatever items have been removed.
MergesInto(p, bs, its, j, mode, b, c, jt, bs2, jts) ==
    /\ j \in 1 .. Len(its) /\ b = Append(bs, Own(p))[its[j].idx] /\ Merges(mode, p, its[j], b)
    /\ c = Coalesced(mode, p, Own(p), b) /\ jt = Grown(mode, p, its[j])
    /\ bs2 = [Append(bs, Own(p)) EXCEPT ![its[j].idx] = c]
    /\ jts = [its EXCEPT ![j] = jt]

LEMMA MergeSound ==
    ASSUME NEW bs, NEW table, NEW tw, NEW r, Sound(bs, table, tw, r), NEW p \in GroPackets,
           Candidate(p), NEW bs2, NEW its, Thinned(its, table[Key(p)]), NEW jts, NEW j, NEW mode,
           NEW b, NEW c, NEW jt, MergesInto(p, bs, its, j, mode, b, c, jt, bs2, jts),
           NEW table2, Replaces(table2, table, Key(p), jts)
    PROVE  Sound(bs2, table2, tw, Append(r, p))
  <1> DEFINE k == Key(p)
             full == table[k]
             it == its[j]
             i == it.idx
             n == Len(tw)
             m == it.merged + 1
             w == Outputs(bs, table, tw)
             v == Outputs(bs2, table2, tw)
  <1>1. /\ bs \in Seq(Buf) /\ table \in [Keys -> Seq(Item)] /\ tw \in Seq(1 .. Len(bs))
        /\ r \in Seq(GroPackets) /\ Tables(bs, table, tw) /\ Once(tw)
        /\ Placed(w, n, r) /\ Typed(bs, table, tw)
    BY DEF Sound, Typed
  <1>2. k \in Keys /\ full \in Seq(Item)
    BY <1>1 DEF Keys
  <1>3. Len(bs) \in Nat /\ n \in Nat
    BY <1>1, LenProperties
  <1>4. \A h \in 1 .. n : tw[h] \in 1 .. Len(bs)
    BY <1>1, ElementOfSeq
  <1>5. j \in 1 .. Len(its) /\ \E h \in 1 .. Len(full) : full[h] = it
    BY DEF Thinned, MergesInto
  <1>6. PICK f \in 1 .. Len(full) : full[f] = it
    BY <1>5
  <1>7. it \in Item /\ Stands(bs, tw, k, it)
    <2>1. Stands(bs, tw, k, full[f])
      BY <1>1, <1>2 DEF Tables
    <2>2. full[f] \in Item
      BY <1>2, ElementOfSeq
    <2> QED BY <1>6, <2>1, <2>2
  <1>8. PICK a \in 1 .. n : tw[a] = i
    BY <1>7 DEF Stands
  <1>9. i \in 1 .. Len(bs)
    BY <1>4, <1>8
  <1> DEFINE wide == Append(bs, Own(p))
  <1>10. /\ wide \in Seq(Buf) /\ Len(wide) = Len(bs) + 1 /\ \A h \in 1 .. Len(bs) : wide[h] = bs[h]
    <2>1. Own(p) \in Buf
      BY OwnIsBuf
    <2> QED BY <1>1, <2>1, AppendProperties
  <1>11. b = bs[i] /\ b \in Buf
    <2>1. b = wide[i]
      BY DEF MergesInto
    <2> HIDE DEF wide, i
    <2> QED BY <1>1, <1>9, <1>10, <2>1, ElementOfSeq
  <1>12. MergedBuf(mode, p, it, b, c, jt)
    <2>1. Merges(mode, p, it, b) /\ c = Coalesced(mode, p, Own(p), b) /\ jt = Grown(mode, p, it)
      BY DEF MergesInto
    <2>2. Describes(it, b) /\ Key(b) = Key(p)
      BY <1>7, <1>11 DEF Stands
    <2> HIDE DEF it
    <2>3. MergedBuf(mode, p, it, b, Coalesced(mode, p, Own(p), b), Grown(mode, p, it))
      BY <1>7, <1>11, <2>1, <2>2, BothMerge
    <2> QED BY <2>1, <2>3
  <1>13. /\ c \in Buf /\ Key(c) = k /\ jt \in Item /\ jt.idx = i /\ jt.merged = m /\ Describes(jt, c)
    BY <1>7, <1>11, <1>12 DEF MergedBuf, Stands
  <1>14. /\ bs2 \in Seq(Buf) /\ Len(bs2) = Len(bs) + 1 /\ bs2[i] = c
         /\ \A h \in 1 .. Len(bs) : h # i => bs2[h] = bs[h]
    <2>1. bs2 = [wide EXCEPT ![i] = c]
      BY DEF MergesInto
    <2>2. i \in 1 .. Len(wide) /\ \A h \in 1 .. Len(bs) : h \in 1 .. Len(wide)
      BY <1>3, <1>9, <1>10
    <2> HIDE DEF wide, i
    <2>3. bs2 \in Seq(Buf) /\ Len(bs2) = Len(wide) /\ bs2[i] = c
          /\ \A h \in 1 .. Len(wide) : h # i => bs2[h] = wide[h]
      BY <1>10, <1>13, <2>1, <2>2
    <2> QED BY <1>10, <2>2, <2>3
  <1>15. Revised(jts, full, jt)
    <2>1. jts = [its EXCEPT ![j] = jt]
      BY DEF MergesInto
    <2> HIDE DEF full
    <2>2. Revised([its EXCEPT ![j] = jt], full, jt)
      BY <1>2, <1>5, <1>13, MergeRevises DEF full
    <2> QED BY <2>1, <2>2
  <1>16. Stands(bs2, tw, k, jt)
    BY <1>8, <1>13, <1>14 DEF Stands
  <1>17. OnlyNew(bs, table, tw, k, jts, jt, bs2, tw)
    <2>1. ASSUME NEW l \in Keys, NEW h \in 1 .. Len(table[l]), table[l][h].idx = i PROVE l = k
      <3>1. Stands(bs, tw, l, table[l][h])
        BY <1>1 DEF Tables
      <3> QED BY <1>7, <2>1, <3>1 DEF Stands
    <2>2. \A l \in Keys : l # k => \A h \in 1 .. Len(table[l]) : table[l][h].idx # jt.idx
      BY <1>13, <2>1
    <2>3. \A h \in 1 .. Len(bs) : h # jt.idx => bs2[h] = bs[h]
      BY <1>13, <1>14
    <2> QED BY <1>16, <2>2, <2>3 DEF OnlyNew
  <1>18. OthersKept(bs2, table2, tw, table, jt)
    <2>1. Replaces(table2, table, k, jts)
      OBVIOUS
    <2> HIDE DEF k
    <2> QED BY <1>1, <1>2, <1>15, <1>17, <2>1, Revision DEF full
  <1>19. /\ Tables(bs2, table2, tw) /\ table2 \in [Keys -> Seq(Item)]
         /\ \A h : h # i => MergedAt(table2, h) = MergedAt(table, h)
    BY <1>13, <1>18 DEF OthersKept
  <1>20. Typed(bs2, table2, tw)
    <2>1. tw \in Seq(1 .. Len(bs2))
      <3>1. DOMAIN tw = 1 .. n /\ tw = [h \in 1 .. n |-> tw[h]]
        BY <1>1, LenProperties
      <3>2. \A h \in 1 .. n : tw[h] \in 1 .. Len(bs2)
        BY <1>3, <1>4, <1>14
      <3> QED BY <1>3, <3>1, <3>2, IsASeq
    <2> QED BY <1>14, <1>19, <2>1 DEF Typed
  <1>21. ASSUME NEW h \in 1 .. n, h # a PROVE v[h] = w[h]
    <2> DEFINE e == tw[h]
    <2>1. e # i
      BY <1>1, <1>8, <1>21 DEF Once
    <2>2. e \in 1 .. Len(bs)
      BY <1>4
    <2>3. bs2[e] = bs[e] /\ MergedAt(table2, e) = MergedAt(table, e)
      BY <1>14, <1>19, <2>1, <2>2
    <2> HIDE DEF e
    <2>4. Written(bs2, table2, e) = Written(bs, table, e)
      BY <2>3, WrittenSame
    <2> QED BY <2>4 DEF Outputs, e
  <1>22. IsSplit(w[a], b, it.gso, m)
    <2>1. it = table[k][f] /\ f \in 1 .. Len(table[k])
      BY <1>6
    <2> HIDE DEF it, k
    <2>2. IsSplit(Written(bs, table, it.idx), bs[it.idx], it.gso, it.merged + 1)
      BY <1>1, <1>2, <2>1, WrittenItem
    <2>3. w[a] = Written(bs, table, i)
      BY <1>8 DEF Outputs
    <2> QED BY <1>11, <2>2, <2>3
  <1>23. IsSplit(v[a], c, jt.gso, m + 1)
    <2>1. PICK g \in 1 .. Len(table2[k]) : table2[k][g] = jt
      <3>1. table2[k] = jts
        BY <1>1, <1>2 DEF Replaces
      <3>2. jts = [its EXCEPT ![j] = jt] /\ its \in Seq(Item)
        BY DEF MergesInto, Thinned
      <3>3. Len(jts) = Len(its) /\ jts[j] = jt
        BY <1>5, <1>13, <3>2
      <3> HIDE DEF k
      <3> QED BY <1>5, <3>1, <3>3
    <2> HIDE DEF k
    <2>2. IsSplit(Written(bs2, table2, jt.idx), bs2[jt.idx], jt.gso, jt.merged + 1)
      BY <1>2, <1>19, <1>20, <2>1, WrittenItem
    <2>3. v[a] = Written(bs2, table2, i)
      BY <1>8 DEF Outputs
    <2> HIDE DEF v, i, m
    <2> QED BY <1>13, <1>14, <2>2, <2>3
  <1>24. m \in Nat /\ m = it.merged + 1 /\ m + 1 = it.merged + 2
    BY <1>7 DEF Item
  <1>25. PICK o \in {0, 1} :
           /\ \A h \in 1 .. m : Look(c, jt.gso, h + o) = Look(b, it.gso, h)
           /\ Look(c, jt.gso, IF o = 0 THEN m + 1 ELSE 1) = Seen(p)
           /\ c.psh => p.psh /\ o = 0
    BY <1>12, <1>24 DEF MergedBuf
  <1> HIDE DEF m, it
  <1>26. Len(w[a]) = m /\ Len(v[a]) = m + 1
    BY <1>22, <1>23 DEF IsSplit
  <1> DEFINE s == IF o = 0 THEN m + 1 ELSE 1
  <1>27. s \in 1 .. m + 1
    BY <1>24
  <1>28. Same(v[a][s], p)
    <2>1. Seen(v[a][s]) = Look(c, jt.gso, s) /\ (v[a][s].psh => c.psh)
      <3> HIDE DEF s
      <3> QED BY <1>23, <1>27 DEF IsSplit
    <2> HIDE DEF v
    <2> QED BY <1>25, <2>1 DEF Same
  <1>29. ASSUME NEW h \in 1 .. m
         PROVE  Seen(v[a][h + o]) = Seen(w[a][h]) /\ (v[a][h + o].psh => w[a][h].psh)
    <2>1. h + o \in 1 .. m + 1 /\ (o = 0 => h + o # m + 1)
      BY <1>24
    <2> DEFINE z == h + o
    <2>2. z \in 1 .. m + 1 /\ (o = 0 => z # m + 1)
      BY <2>1
    <2>3. Look(c, jt.gso, z) = Look(b, it.gso, h)
      BY <1>25
    <2> HIDE DEF z, v, w
    <2>4. Seen(v[a][z]) = Look(c, jt.gso, z) /\ (v[a][z].psh => c.psh /\ z = m + 1)
      BY <1>23, <2>2 DEF IsSplit
    <2>5. Seen(w[a][h]) = Look(b, it.gso, h)
      BY <1>22 DEF IsSplit
    <2>6. ~v[a][z].psh
      BY <1>25, <2>2, <2>4
    <2> QED BY <2>3, <2>4, <2>5, <2>6 DEF z
  <1>30. Placed(v, n, Append(r, p))
    <2> HIDE DEF v, w, n, s
    <2>1. s = (IF o = 0 THEN m + 1 ELSE 1)
      BY DEF s
    <2>2. GoesInside(p, w, v, n, a, o, m, s)
      BY <1>21, <1>26, <1>28, <1>29, <2>1 DEF GoesInside
    <2> QED BY <1>1, <1>3, <1>24, <2>2, PlacedInside
  <1>31. Append(r, p) \in Seq(GroPackets)
    BY <1>1, AppendProperties
  <1> QED BY <1>1, <1>19, <1>20, <1>30, <1>31 DEF Sound

-----------------------------------------------------------------------------
(* The steps                                                                *)

LEMMA GroInvInit == GroInit => GroInv
  <1> SUFFICES ASSUME GroInit PROVE GroInv
    OBVIOUS
  <1>1. /\ roomy \in BOOLEAN /\ bufs = <<>> /\ to_write = <<>> /\ received = <<>>
        /\ items_by_flow = [k \in Keys |-> <<>>]
    BY DEF GroInit
  <1>2. <<>> \in Seq(Buf) /\ <<>> \in Seq(Item) /\ <<>> \in Seq(GroPackets) /\ Len(<<>>) = 0
    OBVIOUS
  <1>3. <<>> \in Seq(1 .. Len(<<>>))
    OBVIOUS
  <1>4. Typed(bufs, items_by_flow, to_write)
    BY <1>1, <1>2, <1>3 DEF Typed
  <1>5. Tables(bufs, items_by_flow, to_write)
    <2>1. \A k \in Keys : Len(items_by_flow[k]) = 0
      BY <1>1, <1>2
    <2> QED BY <2>1 DEF Tables, Apart
  <1>6. Once(to_write)
    BY <1>1, <1>2 DEF Once
  <1>7. Placed(Outputs(bufs, items_by_flow, to_write), Len(to_write), received)
    <2> DEFINE w == Outputs(bufs, items_by_flow, to_write)
               place == [i \in 1 .. 0 |-> i]
    <2>1. Len(to_write) = 0 /\ Len(received) = 0
      BY <1>1, <1>2
    <2> HIDE DEF w
    <2>2. Slots(w, 0) = {}
      BY DEF Slots
    <2>3. place \in Bijection(1 .. 0, {})
      BY DEF Bijection, Injection, Surjection, IsInjective
    <2> HIDE DEF place
    <2>4. IsPlaced(place, w, 0, received)
      <3> DEFINE I == 1 .. Len(received)
      <3>1. I = 1 .. 0 /\ \A i \in I : FALSE
        BY <2>1
      <3>2. place \in Bijection(I, Slots(w, 0))
        BY <2>2, <2>3, <3>1
      <3> HIDE DEF I
      <3>3. \A i \in I : Same(At(w, place[i]), received[i])
        BY <3>1
      <3> QED BY <3>2, <3>3 DEF IsPlaced, I
    <2>5. Placed(w, 0, received)
      BY <2>4 DEF Placed
    <2> QED BY <2>1, <2>5 DEF w
  <1> QED BY <1>1, <1>2, <1>4, <1>5, <1>6, <1>7 DEF GroInv, Sound

LEMMA HandleGroSound ==
    ASSUME GroInv, NEW p \in GroPackets, HandleGro(p)
    PROVE  Sound(bufs', items_by_flow', to_write', received')
  <1> DEFINE k == Key(p)
             full == items_by_flow[k]
             wide == Append(bufs, Own(p))
             n == Len(bufs) + 1
             st == IF Candidate(p) THEN Gro(p, wide, full)
                   ELSE [result |-> "Noop", bufs |-> wide, items |-> full]
  <1>1. /\ bufs' = st.bufs /\ items_by_flow' = [items_by_flow EXCEPT ![k] = st.items]
        /\ to_write' = (IF st.result = "Coalesced" THEN to_write ELSE Append(to_write, Len(wide)))
        /\ received' = Append(received, p)
    BY DEF HandleGro
  <1>2. /\ Sound(bufs, items_by_flow, to_write, received)
        /\ bufs \in Seq(Buf) /\ items_by_flow \in [Keys -> Seq(Item)]
        /\ to_write \in Seq(1 .. Len(bufs)) /\ Tables(bufs, items_by_flow, to_write)
    BY DEF GroInv, Sound, Typed
  <1>3. k \in Keys /\ full \in Seq(Item) /\ Apart(full)
    BY <1>2 DEF Keys, Tables
  <1>4. wide \in Seq(Buf) /\ Len(wide) = n /\ wide[n] = Own(p) /\ n \in Nat \ {0}
    <2>1. Own(p) \in Buf
      BY OwnIsBuf
    <2> QED BY <1>2, <2>1, AppendProperties, LenProperties
  <1>5. Replaces(items_by_flow', items_by_flow, k, st.items)
    BY <1>1 DEF Replaces
  <1>6. ASSUME NEW its, Thinned(its, full), st.result # "Coalesced", st.bufs = wide,
               st.items = its \/ (Candidate(p) /\ st.items = Append(its, NewItem(p, n)))
        PROVE  Sound(bufs', items_by_flow', to_write', received')
    <2>1. Adds(p, n, bufs, to_write, its, bufs', to_write', st.items)
      BY <1>1, <1>4, <1>6 DEF Adds
    <2>2. /\ Thinned(its, items_by_flow[Key(p)])
          /\ Replaces(items_by_flow', items_by_flow, Key(p), st.items)
      BY <1>5, <1>6
    <2> DEFINE jts == st.items
    <2> HIDE DEF jts, n
    <2>3. /\ Adds(p, n, bufs, to_write, its, bufs', to_write', jts)
          /\ Replaces(items_by_flow', items_by_flow, Key(p), jts)
      BY <2>1, <2>2 DEF jts
    <2>4. Sound(bufs', items_by_flow', to_write', Append(received, p))
      BY <1>2, <2>2, <2>3, AddSound
    <2> QED BY <1>1, <2>4
  <1>7. CASE ~Candidate(p)
    <2>1. st.result = "Noop" /\ st.bufs = wide /\ st.items = full
      BY <1>7
    <2>2. Thinned(full, full)
      BY <1>3 DEF Thinned
    <2> HIDE DEF st, full
    <2> QED BY <1>6, <2>1, <2>2
  <1>8. CASE Candidate(p)
    <2>1. st = Gro(p, wide, full)
      BY <1>8
    <2> HIDE DEF st, full, k
    <2>2. \A h \in 1 .. Len(full) : full[h].idx \in 1 .. Len(wide)
      <3> TAKE h \in 1 .. Len(full)
      <3>1. Stands(bufs, to_write, k, full[h])
        BY <1>2, <1>3 DEF Tables, full
      <3>2. PICK g \in 1 .. Len(to_write) : to_write[g] = full[h].idx
        BY <3>1 DEF Stands
      <3>3. full[h].idx \in 1 .. Len(bufs)
        BY <1>2, <3>2, ElementOfSeq
      <3> QED BY <1>2, <1>4, <3>3, LenProperties
    <2>3. wide # <<>> /\ wide[Len(wide)] = Own(p)
      BY <1>4
    <2> HIDE DEF wide
    <2>4. Adding(st, p, Len(wide), wide, full) \/ Merging(st, p, Len(wide), wide, full)
      BY <1>3, <1>4, <1>8, <2>1, <2>2, <2>3, GroDoes
    <2>5. CASE Adding(st, p, Len(wide), wide, full)
      <3>1. PICK its : /\ Thinned(its, full) /\ st.result # "Coalesced" /\ st.bufs = wide
                       /\ (st.items = its \/ st.items = Append(its, NewItem(p, Len(wide))))
        BY <2>5 DEF Adding
      <3> HIDE DEF n
      <3> QED BY <1>4, <1>6, <1>8, <3>1
    <2>6. CASE Merging(st, p, Len(wide), wide, full)
      <3>1. PICK its, j, mode : Thinned(its, full)
                                /\ MergedInto(st, p, Len(wide), wide, its, j, mode)
        BY <2>6 DEF Merging
      <3> DEFINE b == wide[its[j].idx]
                 c == Coalesced(mode, p, Own(p), b)
                 jt == Grown(mode, p, its[j])
                 more == [wide EXCEPT ![its[j].idx] = c]
                 jts == [its EXCEPT ![j] = jt]
      <3>2. /\ j \in 1 .. Len(its) /\ Merges(mode, p, its[j], b)
            /\ st = GroState("Coalesced", p, Len(wide), more, jts)
        BY <3>1 DEF MergedInto
      <3>3. MergesInto(p, bufs, its, j, mode, b, c, jt, more, jts)
        BY <3>2 DEF MergesInto, wide
      <3> HIDE DEF b, c, jt, more, jts
      <3>4. st.result = "Coalesced" /\ st.bufs = more /\ st.items = jts
        BY <3>2 DEF GroState
      <3>5. /\ bufs' = more /\ to_write' = to_write
            /\ Replaces(items_by_flow', items_by_flow, Key(p), jts)
        BY <1>1, <1>5, <3>4 DEF k
      <3>6. Thinned(its, items_by_flow[Key(p)])
        BY <3>1 DEF full, k
      <3>7. Sound(more, items_by_flow', to_write, Append(received, p))
        BY <1>2, <1>8, <3>3, <3>5, <3>6, MergeSound
      <3> QED BY <1>1, <3>5, <3>7
    <2> QED BY <2>4, <2>5, <2>6
  <1> QED BY <1>7, <1>8

LEMMA GroInvStep == GroInv /\ [GroNext]_groVars => GroInv'
  <1> SUFFICES ASSUME GroInv, [GroNext]_groVars PROVE GroInv'
    OBVIOUS
  <1>1. CASE GroNext
    <2>1. PICK p \in GroPackets : HandleGro(p)
      BY <1>1 DEF GroNext
    <2>2. roomy' = roomy
      BY <1>1 DEF GroNext
    <2>3. Sound(bufs', items_by_flow', to_write', received')
      BY <2>1, HandleGroSound
    <2> QED BY <2>2, <2>3 DEF GroInv
  <1>2. CASE UNCHANGED groVars
    <2>1. /\ roomy' = roomy /\ bufs' = bufs /\ items_by_flow' = items_by_flow
          /\ to_write' = to_write /\ received' = received
      BY <1>2 DEF groVars
    <2>2. Sound(bufs', items_by_flow', to_write', received')
      BY <2>1 DEF GroInv
    <2> QED BY <2>1, <2>2 DEF GroInv
  <1> QED BY <1>1, <1>2

LEMMA PlacedRoundTrip == GroInv => RoundTrip
  <1> SUFFICES ASSUME GroInv PROVE RoundTrip
    OBVIOUS
  <1> DEFINE n == Len(to_write)
             w == Outputs(bufs, items_by_flow, to_write)
             D == Delivered
  <1>1. received \in Seq(GroPackets) /\ Placed(w, n, received)
    BY DEF GroInv, Sound
  <1>2. \A k \in 1 .. n : Written(bufs, items_by_flow, to_write[k]) = w[k]
    BY DEF Outputs
  <1>3. D = Slots(w, n)
    <2> HIDE DEF w
    <2> QED BY <1>2 DEF Delivered, Slots
  <1>4. \A s \in D : Segment(s) = At(w, s)
    <2> TAKE s \in D
    <2> HIDE DEF w, D
    <2>1. PICK k \in 1 .. n : \E i \in 1 .. Len(w[k]) : s = <<k, i>>
      BY <1>3, SlotsAre
    <2>2. s[1] \in 1 .. n
      BY <2>1
    <2>3. Written(bufs, items_by_flow, to_write[s[1]]) = w[s[1]]
      BY <1>2, <2>2
    <2> QED BY <2>3 DEF Segment, At
  <1> HIDE DEF w, n, D
  <1>5. /\ Cardinality(D) = Len(received)
        /\ \A x : Cardinality(Alike(w, n, x))
                    = Cardinality({j \in 1 .. Len(received) : Seen(received[j]) = x})
        /\ \A s \in D : At(w, s).psh =>
              \E j \in 1 .. Len(received) : received[j].psh /\ Seen(received[j]) = Seen(At(w, s))
    BY <1>1, <1>3, PlacedCount
  <1>6. ASSUME NEW i \in 1 .. Len(received)
        PROVE  Cardinality({s \in D : Seen(Segment(s)) = Seen(received[i])})
                 = Cardinality({j \in 1 .. Len(received) : Seen(received[j]) = Seen(received[i])})
    <2> DEFINE x == Seen(received[i])
    <2> HIDE DEF x
    <2>1. Alike(w, n, x) = {s \in D : Seen(Segment(s)) = x}
      BY <1>3, <1>4 DEF Alike
    <2>2. Cardinality({s \in D : Seen(Segment(s)) = x})
            = Cardinality({j \in 1 .. Len(received) : Seen(received[j]) = x})
      BY <1>5, <2>1
    <2> QED BY <2>2 DEF x
  <1>7. ASSUME NEW s \in D, Segment(s).psh
        PROVE  \E j \in 1 .. Len(received) :
                  received[j].psh /\ Seen(received[j]) = Seen(Segment(s))
    BY <1>4, <1>5, <1>7
  <1> QED BY <1>5, <1>6, <1>7 DEF RoundTrip, D

\* handle_gro merges packets, in either order and whatever the loop over the items has
\* removed or refused; what the kernel then splits is what came in, packet for packet.
THEOREM GroRoundTrip == Spec => []RoundTrip
  <1>1. Init => GroInv
    BY GroInvInit DEF Init
  <1> QED BY <1>1, GroInvStep, PlacedRoundTrip, PartSteps, PTL DEF Spec

-----------------------------------------------------------------------------
(* The ICMP forwarder                                                       *)

LEMMA IcmpInvInit == IcmpInit => IcmpInv
  <1> SUFFICES ASSUME IcmpInit PROVE IcmpInv
    OBVIOUS
  <1>1. (CHOOSE k \in FlowKey : TRUE) \in FlowKey
    BY IcmpAssumption
  <1>2. IcmpTypeOK
    BY <1>1 DEF IcmpInit, IcmpTypeOK, NoTask
  <1>3. RepliesGoToAskers /\ forwarding = NoTask /\ \A k \in FlowKey : flows[k] = NoTask
    BY DEF IcmpInit, RepliesGoToAskers
  <1> QED BY <1>2, <1>3 DEF IcmpInv

LEMMA NoTaskIsNone == NoTask \notin Task
  BY DEF Task, NoTask

LEMMA IcmpTypeStep == IcmpTypeOK /\ [IcmpNext]_icmpVars => IcmpTypeOK'
  <1> SUFFICES ASSUME IcmpTypeOK, [IcmpNext]_icmpVars PROVE IcmpTypeOK'
    OBVIOUS
  <1> USE DEF IcmpTypeOK
  <1>1. ASSUME NEW k \in FlowKey, Forward(k) PROVE IcmpTypeOK'
    BY <1>1 DEF Forward
  <1>2. CASE ForwardSend \/ IcmpGc \/ IcmpTick
    BY <1>2 DEF ForwardSend, IcmpGc, IcmpTick
  <1>3. ASSUME NEW t \in Task, FlowTask(t) \/ ReceiveError(t) PROVE IcmpTypeOK'
    BY <1>3 DEF FlowTask, OpenIcmpSocket, SendRequest, FlowEnds, WriteReply, ReceiveError
  <1>4. CASE UNCHANGED icmpVars
    BY <1>4 DEF icmpVars
  <1> QED BY <1>1, <1>2, <1>3, <1>4 DEF IcmpNext

LEMMA IcmpInvStep == IcmpInv /\ [IcmpNext]_icmpVars => IcmpInv'
  <1> SUFFICES ASSUME IcmpInv, [IcmpNext]_icmpVars PROVE IcmpInv'
    OBVIOUS
  <1>1. IcmpTypeOK /\ IcmpTypeOK'
    BY IcmpTypeStep DEF IcmpInv
  <1>2. ASSUME NEW k \in FlowKey, Forward(k) PROVE IcmpInv'
    <2>1. CASE flows[k] # NoTask
      BY <1>1, <1>2, <2>1, NoTaskIsNone
         DEF Forward, IcmpInv, IcmpTypeOK, Kept, RepliesGoToAskers
    <2>2. CASE flows[k] = NoTask
      <3>1. PICK t \in Task : /\ task[t] = "unborn" /\ forwarding' = t
                              /\ flows' = [flows EXCEPT ![k] = t]
                              /\ task' = [task EXCEPT ![t] = "opening"]
                              /\ keyOf' = [keyOf EXCEPT ![t] = k]
                              /\ answered' = answered
        BY <1>2, <2>2 DEF Forward
      <3>2. \A j \in FlowKey : flows'[j] # NoTask =>
                keyOf'[flows'[j]] = j /\ task'[flows'[j]] \notin {"unborn", "closed"}
        <4> SUFFICES ASSUME NEW j \in FlowKey, flows'[j] # NoTask
                     PROVE  keyOf'[flows'[j]] = j /\ task'[flows'[j]] \notin {"unborn", "closed"}
          OBVIOUS
        <4>1. CASE j = k
          BY <1>1, <3>1, <4>1 DEF IcmpTypeOK
        <4>2. CASE j # k
          <5>1. flows'[j] = flows[j] /\ flows[j] \in Task
            BY <1>1, <3>1, <4>2 DEF IcmpTypeOK
          <5>2. keyOf[flows[j]] = j /\ task[flows[j]] \notin {"unborn", "closed"}
            BY <5>1 DEF IcmpInv, Kept
          <5> QED BY <1>1, <3>1, <5>1, <5>2 DEF IcmpTypeOK
        <4> QED BY <4>1, <4>2
      <3>3. RepliesGoToAskers'
        BY <1>1, <3>1 DEF IcmpInv, IcmpTypeOK, RepliesGoToAskers
      <3> QED BY <1>1, <3>1, <3>2, <3>3 DEF IcmpInv, IcmpTypeOK, Kept
    <2> QED BY <2>1, <2>2
  <1>3. CASE ForwardSend \/ IcmpGc \/ IcmpTick
    BY <1>1, <1>3 DEF ForwardSend, IcmpGc, IcmpTick, IcmpInv, IcmpTypeOK, Kept,
       RepliesGoToAskers
  <1>4. ASSUME NEW t \in Task, OpenIcmpSocket(t) \/ ReceiveError(t) PROVE IcmpInv'
    <2>1. /\ \E s \in {"dgram", "raw", "failed"} : task' = [task EXCEPT ![t] = s]
          /\ UNCHANGED <<flows, keyOf, forwarding, answered>>
      BY <1>4 DEF OpenIcmpSocket, ReceiveError
    <2> QED BY <1>1, <2>1 DEF IcmpInv, IcmpTypeOK, Kept, RepliesGoToAskers
  <1>5. ASSUME NEW t \in Task, SendRequest(t) PROVE IcmpInv'
    BY <1>1, <1>5 DEF SendRequest, IcmpInv, IcmpTypeOK, Kept, RepliesGoToAskers
  <1>6. ASSUME NEW t \in Task, FlowEnds(t) PROVE IcmpInv'
    <2>1. /\ task' = [task EXCEPT ![t] = "closed"] /\ flows[keyOf[t]] # t /\ forwarding # t
          /\ UNCHANGED <<flows, keyOf, forwarding, answered>> /\ task[t] # "unborn"
      BY <1>6 DEF FlowEnds, HasIcmpSender
    <2> QED BY <1>1, <2>1 DEF IcmpInv, IcmpTypeOK, Kept, RepliesGoToAskers
  <1>7. ASSUME NEW t \in Task, WriteReply(t) PROVE IcmpInv'
    <2>1. /\ task[t] # "unborn" /\ answered' = answered \cup {EchoReply(keyOf[t])}
          /\ UNCHANGED <<flows, task, keyOf, forwarding>>
      BY <1>7 DEF WriteReply
    <2>2. RepliesGoToAskers'
      BY <2>1 DEF IcmpInv, RepliesGoToAskers, EchoReply
    <2> QED BY <1>1, <2>1, <2>2 DEF IcmpInv, Kept
  <1>8. CASE UNCHANGED icmpVars
    BY <1>8 DEF icmpVars, IcmpInv, IcmpTypeOK, Kept, RepliesGoToAskers
  <1> QED BY <1>2, <1>3, <1>4, <1>5, <1>6, <1>7, <1>8 DEF IcmpNext, FlowTask

\* The clone of a sender that forward takes under the lock keeps its flow task alive
\* until try_send has used it, whatever spawn_gc removes in between.
THEOREM GcSparesRequests == Spec => []GcLosesNoRequest
  <1>1. Init => IcmpInv
    BY IcmpInvInit DEF Init
  <1>2. IcmpInv => GcLosesNoRequest
    BY DEF IcmpInv, Kept, GcLosesNoRequest
  <1> QED BY <1>1, <1>2, IcmpInvStep, PartSteps, PTL DEF Spec

\* build_echo_reply_packet answers only clients that have asked, from the host that they
\* have asked, also with the replies a raw socket has overheard.
THEOREM RepliesOnlyToAskers == Spec => []RepliesGoToAskers
  <1>1. Init => IcmpInv
    BY IcmpInvInit DEF Init
  <1>2. IcmpInv => RepliesGoToAskers
    BY DEF IcmpInv
  <1> QED BY <1>1, <1>2, IcmpInvStep, PartSteps, PTL DEF Spec

-----------------------------------------------------------------------------
(* The interface monitor                                                    *)

LEMMA KnownType ==
    ASSUME NEW scan \in [Iface -> State]
    PROVE  Known(scan) \in [Iface -> {"down", "up", "other"}]
  BY DEF Known, Announced, State

LEMMA MonitorTypeStep == MonitorInv /\ [MonitorNext]_monitorVars => MonitorTypeOK'
  <1> SUFFICES ASSUME MonitorInv, [MonitorNext]_monitorVars PROVE MonitorTypeOK'
    OBVIOUS
  <1>1. MonitorTypeOK
    BY DEF MonitorInv
  <1>2. /\ MaxRegs \in Nat
        /\ Known(last_events) \in [Iface -> {"down", "up", "other"}]
        /\ Known(sys) \in [Iface -> {"down", "up", "other"}]
    BY <1>1, KnownType, MonitorAssumption DEF MonitorTypeOK
  <1> USE DEF MonitorTypeOK
  <1>3. CASE Change
    BY <1>1, <1>3 DEF Change
  <1>4. CASE Register
    BY <1>1, <1>2, <1>4 DEF Register
  <1>5. CASE StartTask
    BY <1>1, <1>2, <1>5 DEF StartTask
  <1>6. CASE Unregister
    BY <1>1, <1>6 DEF Unregister
  <1>7. CASE Poll \/ NetlinkEvent \/ Debounced
    BY <1>1, <1>7 DEF Poll, NetlinkEvent, Debounced, Rescan
  <1>8. CASE Notify
    <2>1. ASSUME NEW i \in Iface, \E e \in changed : e.name = i
          PROVE  (CHOOSE e \in changed : e.name = i).says \in {"down", "up", "other"}
      <3>1. PICK e \in changed : e.name = i
        BY <2>1
      <3>2. (CHOOSE f \in changed : f.name = i) \in changed
        BY <3>1
      <3>3. \A f \in changed : f.says \in {"down", "up", "other"}
        BY <1>1 DEF MonitorInv, Announced, State
      <3> QED BY <3>2, <3>3
    <2>2. view' \in [0 .. MaxRegs - 1 -> [Iface -> {"down", "up", "other"}]]
      BY <1>1, <1>8, <2>1 DEF Notify
    <2> QED BY <1>1, <1>8, <2>2 DEF Notify
  <1>9. CASE RuntimeDropped \/ NextEmitPasses \/ UNCHANGED monitorVars
    BY <1>1, <1>9 DEF RuntimeDropped, NextEmitPasses, monitorVars
  <1> QED BY <1>3, <1>4, <1>5, <1>6, <1>7, <1>8, <1>9 DEF MonitorNext

\* With nothing to announce a callback knows what its view says; with the events that
\* the last scan has found it will know that scan.
LEMMA ToldNothing ==
    ASSUME NEW v \in [Iface -> {"down", "up", "other"}]
    PROVE  Told(v, {}) = v
  BY DEF Told

LEMMA ToldIsTheScan ==
    ASSUME NEW events, NEW scan, NEW v,
           \A e \in events : e.name \in Iface /\ e.says = Announced(scan[e.name]),
           \A i \in Iface : (\A e \in events : e.name # i) => v[i] = Announced(scan[i])
    PROVE  Told(v, events) = Known(scan)
  <1>1. ASSUME NEW i \in Iface
        PROVE  (IF \E e \in events : e.name = i
                THEN (CHOOSE e \in events : e.name = i).says ELSE v[i])
                  = Announced(scan[i])
    <2>1. CASE \E e \in events : e.name = i
      <3>1. /\ (CHOOSE f \in events : f.name = i) \in events
            /\ (CHOOSE f \in events : f.name = i).name = i
        BY <2>1
      <3> QED BY <2>1, <3>1
    <2>2. CASE ~ \E e \in events : e.name = i
      BY <2>2
    <2> QED BY <2>1, <2>2
  <1> QED BY <1>1 DEF Told, Known

LEMMA MonitorInvInit == MonitorInit => MonitorInv
  <1> SUFFICES ASSUME MonitorInit PROVE MonitorInv
    OBVIOUS
  <1>1. sys \in [Iface -> State]
    BY DEF MonitorInit, State
  <1>2. MonitorTypeOK
    BY <1>1, KnownType, MonitorAssumption DEF MonitorInit, MonitorTypeOK
  <1> QED BY <1>2 DEF MonitorInit, MonitorInv

LEMMA MonitorInvStep == MonitorInv /\ [MonitorNext]_monitorVars => MonitorInv'
  <1> SUFFICES ASSUME MonitorInv, [MonitorNext]_monitorVars PROVE MonitorInv'
    OBVIOUS
  <1>1. MonitorTypeOK /\ MonitorTypeOK'
    BY MonitorTypeStep DEF MonitorInv
  <1>2. /\ monitor = "off" <=> ~task_running
        /\ monitor \in {"off", "starting", "waiting"} => changed = {}
        /\ \A e \in changed : e.name \in Iface /\ e.says = Announced(last_events[e.name])
        /\ monitor # "ended" => \A c \in callbacks : Told(view[c], changed) = Known(last_events)
    BY DEF MonitorInv
  <1>3. CASE Change \/ Unregister \/ NextEmitPasses \/ RuntimeDropped \/ UNCHANGED monitorVars
    <2>1. /\ UNCHANGED <<task_running, last_events, changed, view>>
          /\ callbacks' \subseteq callbacks
          /\ monitor' = monitor \/ (monitor # "off" /\ monitor' = "ended")
      <3>1. CASE Change \/ NextEmitPasses \/ UNCHANGED monitorVars
        BY <3>1 DEF Change, NextEmitPasses, monitorVars
      <3>2. CASE Unregister
        BY <3>2 DEF Unregister
      <3>3. CASE RuntimeDropped
        BY <3>3 DEF RuntimeDropped
      <3> QED BY <1>3, <3>1, <3>2, <3>3
    <2> QED BY <1>1, <1>2, <2>1 DEF MonitorInv
  <1>4. CASE Register
    <2>1. /\ UNCHANGED <<last_events, changed>> /\ task_running'
          /\ callbacks' = callbacks \cup {next_id}
          /\ monitor' = IF task_running THEN monitor ELSE "starting"
          /\ view' = [view EXCEPT ![next_id] = Known(last_events)]
          /\ next_id \in 0 .. MaxRegs - 1
      BY <1>1, <1>4, MonitorAssumption DEF Register, MonitorTypeOK
    <2>2. Told(Known(last_events), changed) = Known(last_events)
      BY <1>2, ToldIsTheScan DEF Known
    <2>3. monitor # "ended" =>
            \A c \in callbacks' : Told(view'[c], changed) = Known(last_events)
      BY <1>1, <1>2, <2>1, <2>2 DEF MonitorTypeOK
    <2> QED BY <1>1, <1>2, <2>1, <2>3 DEF MonitorInv
  <1>5. CASE StartTask
    <2>1. /\ changed' = {} /\ UNCHANGED <<callbacks, task_running>>
          /\ monitor = "starting" /\ monitor' = "waiting"
          /\ last_events' = sys /\ \A c \in callbacks : view'[c] = Known(sys)
      BY <1>1, <1>2, <1>5 DEF StartTask, MonitorTypeOK
    <2>2. \A c \in callbacks' : Told(view'[c], changed') = Known(last_events')
      BY <2>1 DEF Told, Known
    <2> QED BY <1>1, <1>2, <2>1, <2>2 DEF MonitorInv
  <1>6. CASE Poll \/ NetlinkEvent \/ Debounced
    <2>1. /\ monitor = "waiting" /\ changed = {} /\ UNCHANGED <<callbacks, task_running, view>>
          /\ Rescan \/ UNCHANGED <<monitor, last_events, changed>>
      BY <1>2, <1>6 DEF Poll, NetlinkEvent, Debounced
    <2>2. \A c \in callbacks : view[c] = Known(last_events)
      BY <1>1, <1>2, <2>1, ToldNothing DEF MonitorTypeOK
    <2>3. CASE UNCHANGED <<monitor, last_events, changed>>
      BY <1>1, <1>2, <2>1, <2>3 DEF MonitorInv, Told, Known
    <2>4. CASE /\ monitor' = "notifying" /\ last_events' = sys
               /\ changed' = DiffEvents(last_events, sys)
      <3>1. \A e \in changed' : e.name \in Iface /\ e.says = Announced(last_events'[e.name])
        BY <2>4 DEF DiffEvents
      <3>2. ASSUME NEW c \in callbacks', NEW i \in Iface, \A e \in changed' : e.name # i
            PROVE  view'[c][i] = Announced(last_events'[i])
        <4>1. [name |-> i, says |-> Announced(sys[i])] \notin changed'
          BY <3>2
        <4>2. sys[i] = last_events[i]
          BY <2>4, <4>1 DEF DiffEvents
        <4>3. view'[c][i] = Announced(last_events[i])
          BY <2>1, <2>2 DEF Known
        <4> QED BY <2>4, <4>2, <4>3
      <3>3. \A c \in callbacks' : Told(view'[c], changed') = Known(last_events')
        BY <3>1, <3>2, ToldIsTheScan
      <3> QED BY <1>1, <1>2, <2>1, <2>4, <3>1, <3>3 DEF MonitorInv
    <2> QED BY <2>1, <2>3, <2>4 DEF Rescan
  <1>7. CASE Notify
    <2>1. /\ monitor = "notifying" /\ monitor' = "waiting" /\ changed' = {}
          /\ UNCHANGED <<callbacks, task_running, last_events>>
          /\ \A c \in callbacks : view'[c] = Told(view[c], changed)
      BY <1>1, <1>7 DEF Notify, Told, MonitorTypeOK
    <2>2. ASSUME NEW c \in callbacks PROVE Told(view'[c], changed') = Known(last_events')
      <3>1. view'[c] = Known(last_events)
        BY <1>2, <2>1
      <3> QED BY <2>1, <3>1 DEF Told, Known
    <2> QED BY <1>1, <1>2, <2>1, <2>2 DEF MonitorInv
  <1> QED BY <1>3, <1>4, <1>5, <1>6, <1>7 DEF MonitorNext

\* rescan_and_notify takes the registry only for the announcement, and register does not
\* wait for the scan: still no callback misses an event or is left with an old one.
THEOREM CallbacksFollowTheScans == Spec => []CallbacksKnowTheScan
  <1>1. Init => MonitorInv
    BY MonitorInvInit DEF Init
  <1>2. MonitorInv => CallbacksKnowTheScan
    <2> SUFFICES ASSUME MonitorInv, monitor = "waiting", NEW c \in callbacks
                 PROVE  view[c] = Known(last_events)
      BY DEF CallbacksKnowTheScan
    <2>1. changed = {} /\ Told(view[c], changed) = Known(last_events)
      BY DEF MonitorInv
    <2>2. view[c] \in [Iface -> {"down", "up", "other"}]
      BY DEF MonitorInv, MonitorTypeOK
    <2> QED BY <2>1, <2>2, ToldNothing
  <1> QED BY <1>1, <1>2, MonitorInvStep, PartSteps, PTL DEF Spec
=============================================================================
