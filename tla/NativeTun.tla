------------------------------ MODULE NativeTun ------------------------------
(***************************************************************************)
(* The two halves of the Linux TUN device (native_tun.rs).                 *)
(*                                                                         *)
(* Reader: do_batch_read fills up to `batch` buffers.  A frame of the      *)
(* device is one packet or, with GSO, several segments; what does not fit  *)
(* waits in pending_segments for the next call.  The stacks use it with    *)
(* batch = 1 (read_packet: gvisor, mixed) and batch = BATCH_SIZE (system). *)
(*                                                                         *)
(* Writer: poll_write puts a virtio_net_hdr in front of the packet in a    *)
(* staging buffer, which survives a write that was given up or has failed. *)
(* The device takes a packet whole, later, or not at all.                  *)
(***************************************************************************)
EXTENDS Integers, Sequences, SequencesExt, FiniteSets

CONSTANTS
    BATCH_SIZE,          \* buffers of the system stack's read loop
    IDEAL_BATCH_SIZE,    \* output buffers of gso_split
    MaxFrame,            \* bound: segments the kernel puts into one frame
    MaxSegment,          \* bound: segments the device delivers in all
    Content,             \* packets, told apart by their bytes
    Refused,             \* the packets the kernel never takes
    MaxWrites            \* bound: calls of write_all

NoPacket == "none"

ASSUME NativeTunAssumption ==
    /\ BATCH_SIZE \in Nat \ {0} /\ IDEAL_BATCH_SIZE \in Nat \ {0}
    /\ MaxFrame \in Nat /\ MaxSegment \in Nat /\ MaxWrites \in Nat
    /\ Refused \subseteq Content /\ NoPacket \notin Content

VARIABLES
    batch,               \* bufs.len() of the calls
    pending_segments,    \* left over from the last GSO frame
    reading,             \* where the call is: idle, at the device, after the end
    held,                \* packets the call already holds
    delivered, lost,     \* packets handed to the stack, and discarded
    nextSegment,         \* the next segment the device delivers

    write_buf,           \* the staged packet, or NoPacket
    call,                \* the packet write_all is writing, or NoPacket
    gro,                 \* GRO still allowed (probe_tcp_gro)
    written,             \* packets the kernel has taken
    reported,            \* packets write_all has returned Ok for
    calls                \* packets of all calls of write_all

readerVars == <<batch, pending_segments, reading, held, delivered, lost, nextSegment>>
writerVars == <<write_buf, call, gro, written, reported, calls>>

ReaderInit ==
    /\ batch \in {1, BATCH_SIZE}
    /\ pending_segments = <<>> /\ held = <<>> /\ delivered = <<>>
    /\ lost = {} /\ nextSegment = 1
    /\ reading = "idle"

WriterInit ==
    /\ write_buf = NoPacket /\ call = NoPacket /\ gro = TRUE
    /\ written = <<>> /\ reported = <<>> /\ calls = <<>>

-----------------------------------------------------------------------------
(* do_batch_read                                                            *)

Least(a, b) == IF a <= b THEN a ELSE b
Take(s, n) == SubSeq(s, 1, Least(n, Len(s)))
Rest(s, n) == SubSeq(s, Least(n, Len(s)) + 1, Len(s))

\* The device is read although the batch is full already.
BatchReadGreedy ==
    /\ reading = "idle"
    /\ pending_segments' = Rest(pending_segments, batch)
    /\ held' = Take(pending_segments, batch) /\ reading' = "device"
    /\ UNCHANGED <<batch, delivered, lost, nextSegment>>

\* Left-over segments first; a full batch is returned without the device.
BatchRead ==
    /\ reading = "idle"
    /\ pending_segments' = Rest(pending_segments, batch)
    /\ IF Len(pending_segments) >= batch
       THEN /\ delivered' = delivered \o Take(pending_segments, batch)
            /\ UNCHANGED <<reading, held>>
       ELSE /\ held' = pending_segments /\ reading' = "device"
            /\ UNCHANGED delivered
    /\ UNCHANGED <<batch, lost, nextSegment>>

\* gso_split refuses a frame of more segments than it has buffers.
CanSplit(n) == n <= IDEAL_BATCH_SIZE

\* The segments that find no buffer are dropped.
DeviceReadNoPending(n) ==
    /\ reading = "device" /\ nextSegment + n - 1 <= MaxSegment
    /\ LET segs == [i \in 1 .. n |-> nextSegment + i - 1] IN
        /\ delivered' = delivered \o held \o Take(segs, batch - Len(held))
        /\ UNCHANGED <<pending_segments, lost>>
    /\ nextSegment' = nextSegment + n
    /\ held' = <<>> /\ reading' = "idle"
    /\ UNCHANGED batch

DeviceRead(n) ==
    /\ reading = "device" /\ nextSegment + n - 1 <= MaxSegment
    /\ LET segs == [i \in 1 .. n |-> nextSegment + i - 1] IN
        IF CanSplit(n)
        THEN /\ delivered' = delivered \o held \o Take(segs, batch - Len(held))
             /\ pending_segments' = Rest(segs, batch - Len(held))
             /\ UNCHANGED lost
        ELSE /\ lost' = lost \cup ToSet(segs) \cup ToSet(held)
             /\ UNCHANGED <<delivered, pending_segments>>
    /\ nextSegment' = nextSegment + n
    /\ held' = <<>> /\ reading' = "idle"
    /\ UNCHANGED batch

\* read(..).await? : what the call held goes with it.  The read loops go on.
ReadError ==
    /\ reading = "device"
    /\ lost' = lost \cup ToSet(held)
    /\ held' = <<>> /\ reading' = "idle"
    /\ UNCHANGED <<batch, pending_segments, delivered, nextSegment>>

\* A read of 0 bytes: only an empty result means that the device is closed.
ReadEof ==
    /\ reading = "device"
    /\ delivered' = delivered \o held
    /\ reading' = IF held = <<>> THEN "closed" ELSE "idle"
    /\ held' = <<>>
    /\ UNCHANGED <<batch, pending_segments, lost, nextSegment>>

ReaderNext ==
    \/ BatchRead \/ ReadError \/ ReadEof
    \/ \E n \in 1 .. MaxFrame : DeviceRead(n)

-----------------------------------------------------------------------------
(* LinuxTunWriter, IFF_VNET_HDR in force                                    *)

WriteStart(p) ==
    /\ call = NoPacket /\ Len(calls) < MaxWrites
    /\ call' = p /\ calls' = Append(calls, p)
    /\ UNCHANGED <<write_buf, gro, written, reported>>

\* What the device may answer to a packet.
Answer(p) == IF p \in Refused THEN {"pending", "error"} ELSE {"ok", "pending", "error"}

\* poll_write returned Ok: write_all is done.
Done(p) == call' = NoPacket /\ reported' = Append(reported, p)

\* The packet of this call is staged and offered to the device.  A failure ends the
\* call and leaves the packet staged.
Stage(before) ==
    \E a \in Answer(call) :
        /\ written' = IF a = "ok" THEN Append(before, call) ELSE before
        /\ write_buf' = IF a = "ok" THEN NoPacket ELSE call
        /\ CASE a = "ok"      -> Done(call)
             [] a = "pending" -> UNCHANGED <<call, reported>>
             [] a = "error"   -> call' = NoPacket /\ UNCHANGED reported

\* Any packet that was staged counts as the one being written.
SamePacketAlways == TRUE

\* data == write_buf[VIRTIO_NET_HDR_LEN..]
SamePacket == call = write_buf

\* poll_write.  A staged packet is flushed first; if it is this call's the call is
\* done, otherwise the call's own packet follows.
PollWrite ==
    /\ call # NoPacket
    /\ IF write_buf = NoPacket
       THEN Stage(written)
       ELSE \E a \in Answer(write_buf) :
             CASE a = "ok" ->
                    IF SamePacket
                    THEN /\ written' = Append(written, write_buf)
                         /\ write_buf' = NoPacket
                         /\ Done(call)
                    ELSE Stage(Append(written, write_buf))
               [] a = "pending" -> UNCHANGED <<write_buf, written, call, reported>>
               [] a = "error" -> /\ call' = NoPacket
                                 /\ UNCHANGED <<write_buf, written, reported>>
    /\ UNCHANGED <<gro, calls>>

\* The task that writes is aborted: its packet stays staged.
Abandon ==
    /\ call # NoPacket
    /\ call' = NoPacket
    /\ UNCHANGED <<write_buf, gro, written, reported, calls>>

\* probe_tcp_gro, before anything is written: a refused probe disables GRO.
ProbeTcpGro ==
    /\ calls = <<>> /\ gro
    /\ gro' = FALSE
    /\ UNCHANGED <<write_buf, call, written, reported, calls>>

WriterNext ==
    \/ PollWrite \/ Abandon \/ ProbeTcpGro
    \/ \E p \in Content : WriteStart(p)

-----------------------------------------------------------------------------
Count(s, p) == Cardinality({i \in DOMAIN s : s[i] = p})

Increasing(s) == \A i, j \in 1 .. Len(s) : i < j => s[i] < s[j]

\* Every segment before n is kept, in the order of the device, or discarded, not both.
AllInOrder(kept, discarded, n) ==
    /\ Increasing(kept)
    /\ ToSet(kept) \cap discarded = {}
    /\ ToSet(kept) \cup discarded = 1 .. n - 1

\* Every segment that the device has delivered is in one place: with the stack, in the
\* call, among the left-over segments or, when a read or a split fails, lost; and the
\* stack gets the segments in the order of the device.
SegmentsInOrder == AllInOrder(delivered \o held \o pending_segments, lost, nextSegment)

\* read_packet, the call of the gvisor and mixed stacks, never waits for the device
\* while it holds a packet, so that no packet waits for the next one and none is lost
\* with a failing read.  (The batches of the system stack do both.)
ReadPacketHoldsNothing == batch = 1 => held = <<>>

\* Whatever writes are given up, fail or are repeated: a packet is written at most
\* once for each call that asked for it, and a call that returns Ok has had its packet
\* written.  The staging buffer of poll_write must not answer for another packet.
WritesAreHonest ==
    \A p \in Content :
        /\ Count(written, p) <= Count(calls, p)
        /\ Count(reported, p) <= Count(written, p)

-----------------------------------------------------------------------------
(* The inductive invariants behind the theorems of DeviceTasksProofs        *)

ReaderTypeOK ==
    /\ batch \in Nat \ {0}
    /\ reading \in {"idle", "device", "closed"}
    /\ pending_segments \in Seq(Nat) /\ held \in Seq(Nat) /\ delivered \in Seq(Nat)
    /\ nextSegment \in Nat \ {0}

\* The device is read only when nothing is left over, and with a buffer to spare.
ReaderInv ==
    /\ ReaderTypeOK
    /\ reading = "device" => pending_segments = <<>>
    /\ reading # "device" => held = <<>>
    /\ Len(held) < batch
    /\ SegmentsInOrder

WriterTypeOK ==
    /\ write_buf \in Content \cup {NoPacket} /\ call \in Content \cup {NoPacket}
    /\ written \in Seq(Content) /\ reported \in Seq(Content) /\ calls \in Seq(Content)

\* The writes of p that may still happen: the staged packet and the one of the call,
\* which is one write when they are the same.
Owed(p) == IF p \in {write_buf, call} THEN 1 ELSE 0

WriterInv ==
    /\ WriterTypeOK
    /\ \A p \in Content : /\ Count(written, p) + Owed(p) <= Count(calls, p)
                          /\ Count(reported, p) <= Count(written, p)
=============================================================================
