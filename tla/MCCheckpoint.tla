---------------------------- MODULE MCCheckpoint ----------------------------
(* Two operations of two attempts each: the second overwrites the image of  *)
(* the first, or finds what a crash has left.                               *)
EXTENDS Checkpoint

EveryStep == Step \cup {"rmstaging"}
=============================================================================
