------------------------------ MODULE MCTracker ------------------------------
(* Two threads over two addresses, a stream, an event and two work items:   *)
(* enough for an address to be freed by one thread and handed out to the    *)
(* other between the halves of the free.                                    *)
EXTENDS Tracker, TLC

Symmetry == Permutations(Thread) \cup Permutations(Ptr) \cup Permutations(Job)
=============================================================================
