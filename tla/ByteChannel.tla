---------------------------- MODULE ByteChannel ----------------------------
(***************************************************************************)
(* What a ring buffer of the netstack promises its two users: a bounded    *)
(* byte stream.  Bytes are named by their position in the stream, so it is *)
(* enough to say how many have gone in and how many have come out.         *)
(***************************************************************************)
EXTENDS Naturals

CONSTANT Bound      \* bytes the channel can hold

VARIABLES sent, rcvd

Init == sent = 0 /\ rcvd = 0

Put == /\ rcvd' = rcvd
       /\ sent' \in Nat /\ sent' > sent /\ sent' <= rcvd + Bound

Take == /\ sent' = sent
        /\ rcvd' \in Nat /\ rcvd' > rcvd /\ rcvd' <= sent

Next == Put \/ Take

Spec == Init /\ [][Next]_<<sent, rcvd>>
=============================================================================
