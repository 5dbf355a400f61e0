----------------------------- MODULE MCWorkers -----------------------------
(* Two requests with two workers each.                                     *)
EXTENDS Workers

A(base, size, ctx) == [base |-> base, size |-> size, ctx |-> ctx]

\* Two parts that make one block; and two blocks, the second before the first.
SmallLists == {<<A(2, 1, 1), A(3, 1, 1)>>, <<A(2, 1, 1), A(1, 1, 1)>>}

\* The image of a process that had the allocations <<A(2, 1, 1), A(1, 1, 1)>>.
OneImage ==
  {[entries |-> <<[base |-> 2, size |-> 1, off |-> 0], [base |-> 1, size |-> 1, off |-> 1]>>,
    bytes |-> <<2, 1>>, manifest |-> "whole", made |-> "whole"]}
=============================================================================
