--------------------------- MODULE MCBoundedQueue ---------------------------
(***************************************************************************)
(* Values for the constants of BoundedQueue.                               *)
(***************************************************************************)
EXTENDS BoundedQueue, TLC

CONSTANTS p1, p2, c1, c2

Symmetric == Permutations(Producers) \cup Permutations(Consumers)
=============================================================================
