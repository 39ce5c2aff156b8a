----------------------------- MODULE PortLease -----------------------------
(***************************************************************************)
(* What the TCP NAT promises: a table of port leases.  A flow holds at     *)
(* most one port, two flows never hold the same port, and a lease ends     *)
(* only by being revoked: it is never moved to another port or taken over  *)
(* by another flow.                                                        *)
(***************************************************************************)
CONSTANTS Flow, PortSet, NoLease

VARIABLE lease      \* lease[f] is the port of flow f, or NoLease

TypeOK == lease \in [Flow -> PortSet \cup {NoLease}]

Init == lease = [f \in Flow |-> NoLease]

Grant(f, p) ==
    /\ lease[f] = NoLease
    /\ \A g \in Flow : lease[g] # p
    /\ lease' = [lease EXCEPT ![f] = p]

Revoke(S) == lease' = [f \in Flow |-> IF f \in S THEN NoLease ELSE lease[f]]

Next ==
    \/ \E f \in Flow, p \in PortSet : Grant(f, p)
    \/ \E S \in SUBSET Flow : Revoke(S)

Spec == Init /\ [][Next]_lease
=============================================================================
