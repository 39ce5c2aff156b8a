------------------------------- MODULE GroTable -------------------------------
(***************************************************************************)
(* gso.rs: handle_gro merges the packets of a batch that follow each other *)
(* into one that the kernel splits again; gso_split is the same split, for *)
(* what the kernel hands to the reader.  A payload is a sequence of bytes; *)
(* `flow` stands for the addresses, ports and acknowledgement of a flow    *)
(* key, `hdr` for the TOS, TTL, fragment bits and TCP options that must    *)
(* agree.                                                                  *)
(***************************************************************************)
EXTENDS Naturals, Sequences, SequencesExt, FiniteSets, Loops

CONSTANTS
    GroPackets,          \* [proto, flow, hdr, seq, psh, csum, data]
    SeqSpace,            \* 2^32 sequence numbers
    Room,                \* bytes a roomy buffer has beyond its packet
    MaxBatch             \* bound: packets in one batch

\* A datagram has neither a sequence number nor a PSH.
Packet(p) ==
    /\ p.seq \in 0 .. SeqSpace - 1 /\ p.psh \in BOOLEAN /\ p.csum \in BOOLEAN
    /\ p.data \in Seq(ToSet(p.data))
    /\ p.proto = "udp" => p.seq = 0 /\ ~p.psh

ASSUME GroAssumption ==
    /\ SeqSpace \in Nat \ {0} /\ Room \in Nat /\ MaxBatch \in Nat
    /\ \A p \in GroPackets : Packet(p)

VARIABLES
    roomy,               \* the buffers have room; those of do_batch_write have none
    bufs,                \* buffers: a packet, cap (payload it has space for)
    items_by_flow,       \* items: [idx, seq, merged, gso, psh]
    to_write,            \* indices of the buffers to write
    received             \* the packets that came in

groVars == <<roomy, bufs, items_by_flow, to_write, received>>

Key(p) == <<p.proto, p.flow>>
Keys == {Key(p) : p \in GroPackets}

GroInit ==
    /\ roomy \in BOOLEAN /\ bufs = <<>> /\ to_write = <<>> /\ received = <<>>
    /\ items_by_flow = [k \in Keys |-> <<>>]

-----------------------------------------------------------------------------
\* Without the check that the last packet is a full one.
AppendsAny(p, it, b) ==
    /\ p.seq = (it.seq + it.gso * (it.merged + 1)) % SeqSpace
    /\ ~it.psh /\ Len(p.data) <= it.gso

\* After a full segment, by a segment that is not longer.
Appends(p, it, b) ==
    /\ p.seq = (it.seq + it.gso * (it.merged + 1)) % SeqSpace
    /\ ~it.psh /\ Len(b.data) % it.gso = 0 /\ Len(p.data) <= it.gso

\* Before all of it, by a segment as long; a longer one may precede a single packet.
Prepends(p, it) ==
    /\ (p.seq + Len(p.data)) % SeqSpace = it.seq
    /\ ~p.psh /\ Len(p.data) >= it.gso /\ (Len(p.data) > it.gso => it.merged = 0)

\* tcp_packets_can_coalesce, udp_packets_can_coalesce
CanCoalesce(p, it, b) ==
    CASE p.hdr # b.hdr -> "Unavailable"
      [] p.hdr = b.hdr /\ p.proto = "udp" ->
            IF Len(b.data) % it.gso = 0 /\ Len(p.data) <= it.gso THEN "Append" ELSE "Unavailable"
      [] p.hdr = b.hdr /\ p.proto = "tcp" ->
            IF p.seq = (it.seq + it.gso * (it.merged + 1)) % SeqSpace
            THEN (IF Appends(p, it, b) THEN "Append" ELSE "Unavailable")
            ELSE (IF Prepends(p, it) THEN "Prepend" ELSE "Unavailable")

\* The buffer of the item, or of the packet for a prepend, must hold both, and the
\* checksums must be right: they are replaced by one for the whole.  The 16-bit length of
\* the merged packet is left out: it takes a buffer of more than 64 KB to exceed it, and
\* those of do_batch_write have no room behind their packet.
CoalesceResult(mode, p, pb, it, b) ==
    LET cap == IF mode = "Prepend" THEN pb.cap ELSE b.cap
    IN  CASE cap < Len(b.data) + Len(p.data) -> "InsufficientCap"
          [] cap >= Len(b.data) + Len(p.data) /\ it.merged = 0 /\ ~b.csum -> "ItemInvalidCsum"
          [] cap >= Len(b.data) + Len(p.data) /\ (it.merged > 0 \/ b.csum) ->
                IF p.csum THEN "Success" ELSE "PktInvalidCsum"

\* coalesce_tcp_packets, coalesce_udp_packets: a prepend keeps the packet's buffer and
\* header, an append the item's, which takes over the PSH.
Coalesced(mode, p, pb, b) ==
    IF mode = "Prepend" THEN [pb EXCEPT !.data = @ \o b.data]
    ELSE [b EXCEPT !.data = @ \o p.data, !.psh = @ \/ p.psh]

Grown(mode, p, it) ==
    [it EXCEPT !.merged = @ + 1,
               !.seq = IF mode = "Prepend" THEN p.seq ELSE @,
               !.psh = @ \/ (mode = "Append" /\ p.psh),
               !.gso = IF Len(p.data) > @ THEN Len(p.data) ELSE @]

\* One item of the flow, from the last to the first: st.result is "go" until it is settled.
TryItem(st, j) ==
    LET p == st.pkt
        it == st.items[j]
        b == st.bufs[it.idx]
        mode == CanCoalesce(p, it, b)
        result == CoalesceResult(mode, p, st.bufs[st.idx], it, b)
    IN  CASE st.result # "go" \/ mode = "Unavailable" -> st
          [] st.result = "go" /\ mode # "Unavailable" ->
             CASE result = "Success" ->
                    [st EXCEPT !.result = "Coalesced",
                               !.items = ReplaceAt(@, j, Grown(mode, p, it)),
                               !.bufs = ReplaceAt(@, it.idx, Coalesced(mode, p, st.bufs[st.idx], b))]
               [] result = "PktInvalidCsum" -> [st EXCEPT !.result = "Noop"]
               [] result = "ItemInvalidCsum" /\ p.proto = "tcp" ->
                    [st EXCEPT !.items = RemoveAt(@, j)]
               [] OTHER -> st

\* tcp_gro tries every item of the flow, udp_gro only the last, where nothing settles it.
Gro(p, bs, items) ==
    LET n == Len(items)
        order == IF p.proto = "tcp" THEN [i \in 1 .. n |-> n + 1 - i]
                 ELSE IF n = 0 THEN <<>> ELSE <<n>>
        st == InOrder(TryItem,
                      [result |-> "go", pkt |-> p, idx |-> Len(bs), bufs |-> bs, items |-> items],
                      order)
        new == [idx |-> Len(bs), seq |-> p.seq, merged |-> 0, gso |-> Len(p.data), psh |-> p.psh]
        inserts == st.result = "go" \/ (st.result = "Noop" /\ p.proto = "udp")
    IN  IF inserts THEN [st EXCEPT !.result = "TableInsert", !.items = Append(@, new)] ELSE st

\* packet_is_gro_candidate and the checks before the table: without payload there is
\* nothing to merge.
Candidate(p) == p.proto \in {"tcp", "udp"} /\ p.data # <<>>

\* A packet in its buffer.
Own(p) == [proto |-> p.proto, flow |-> p.flow, hdr |-> p.hdr, seq |-> p.seq, psh |-> p.psh,
           csum |-> p.csum, data |-> p.data,
           cap |-> Len(p.data) + (IF roomy THEN Room ELSE 0)]

\* One packet of handle_gro.
HandleGro(p) ==
    LET bs == Append(bufs, Own(p))
        st == IF Candidate(p) THEN Gro(p, bs, items_by_flow[Key(p)])
              ELSE [result |-> "Noop", bufs |-> bs, items |-> items_by_flow[Key(p)]]
    IN  /\ bufs' = st.bufs
        /\ items_by_flow' = [items_by_flow EXCEPT ![Key(p)] = st.items]
        /\ to_write' = IF st.result = "Coalesced" THEN to_write ELSE Append(to_write, Len(bs))
        /\ received' = Append(received, p)

GroNext ==
    /\ Len(received) < MaxBatch /\ UNCHANGED roomy
    /\ \E p \in GroPackets : HandleGro(p)

-----------------------------------------------------------------------------
\* The accounting: a merged buffer gets a GSO header with the segment size, and the kernel
\* makes the checksums.
GsoSize(table, i) ==
    LET merged == {it \in UNION {ToSet(table[k]) : k \in Keys} : it.idx = i /\ it.merged > 0}
    IN  IF merged = {} THEN 0 ELSE (CHOOSE it \in merged : TRUE).gso

\* gso_split: one copy, or segments of `gso` bytes with their sequence numbers, the PSH on
\* the last one only.
GsoSplit(b, gso) ==
    LET len == Len(b.data)
        n == IF gso = 0 \/ len < gso THEN 1 ELSE (len + gso - 1) \div gso
        end(i) == IF i * gso < len THEN i * gso ELSE len
    IN  IF n = 1 THEN <<b>>
        ELSE [i \in 1 .. n |->
                [b EXCEPT !.seq = IF b.proto = "tcp" THEN (@ + gso * (i - 1)) % SeqSpace ELSE @,
                          !.data = SubSeq(@, (i - 1) * gso + 1, end(i)),
                          !.psh = @ /\ i = n]]

\* What comes out when the kernel has split what was written: the i-th segment of the
\* k-th buffer.
Written(bs, table, i) == GsoSplit(bs[i], GsoSize(table, i))
Delivered ==
    UNION {{<<k, i>> : i \in 1 .. Len(Written(bufs, items_by_flow, to_write[k]))} :
             k \in 1 .. Len(to_write)}
Segment(s) == Written(bufs, items_by_flow, to_write[s[1]])[s[2]]

Seen(p) == <<p.proto, p.flow, p.hdr, p.csum, p.seq, p.data>>

\* Splitting what handle_gro writes gives back the packets that came in, each as often as
\* it came, with their sequence numbers and bytes, in whatever order they came and however
\* they were merged; no packet gets a PSH it did not have.
RoundTrip ==
    LET came == 1 .. Len(received)
    IN  /\ Cardinality(Delivered) = Len(received)
        /\ \A i \in came :
              Cardinality({s \in Delivered : Seen(Segment(s)) = Seen(received[i])})
                = Cardinality({j \in came : Seen(received[j]) = Seen(received[i])})
        /\ \A s \in Delivered : Segment(s).psh =>
              \E j \in came : received[j].psh /\ Seen(received[j]) = Seen(Segment(s))
=============================================================================
