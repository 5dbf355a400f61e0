------------------------------- MODULE MCShim -------------------------------
(* Shim with concrete shards.                                              *)
EXTENDS Shim, TLC

CONSTANTS p1, p2

\* Two addresses in different shards.
ShardMap == [p \in Ptr |-> IF p = p1 THEN 0 ELSE 1]

Symmetry == Permutations(Conn) \cup Permutations(Thread) \cup Permutations(Job)
=============================================================================
