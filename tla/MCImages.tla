------------------------------ MODULE MCImages ------------------------------
(* Allocations of one byte each.                                           *)
EXTENDS Images, TLC

CONSTANTS a, b

Chunk(p) == [ptr |-> p, size |-> 1]

\* The application allocates and frees a and b in any order: b moves to the front
\* of device.bin when a is freed.
AllLayouts == {<<Chunk(a)>>, <<Chunk(a), Chunk(b)>>, <<Chunk(b)>>, <<Chunk(b), Chunk(a)>>}

Symmetry == Permutations(Path)
=============================================================================
