-------------------------------- MODULE Loops --------------------------------
(***************************************************************************)
(* A loop of the program over a list, as the recursive function of what is *)
(* there after each element.                                               *)
(***************************************************************************)
EXTENDS Naturals, Sequences

\* What is left of `start` after Op of every element of q, in order.
InOrder(Op(_, _), start, q) ==
    LET after[i \in 0 .. Len(q)] == IF i = 0 THEN start ELSE Op(after[i - 1], q[i])
    IN  after[Len(q)]
=============================================================================
