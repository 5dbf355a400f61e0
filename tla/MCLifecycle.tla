---------------------------- MODULE MCLifecycle ----------------------------
(* Every allocation in the one shard.                                      *)
EXTENDS Lifecycle

OneShard == [p \in Ptr |-> 0]
=============================================================================
