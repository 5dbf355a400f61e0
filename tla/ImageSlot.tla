----------------------------- MODULE ImageSlot ------------------------------
(***************************************************************************)
(* What checkpoints, retried, failed or killed, do to an image path, as    *)
(* seen by those who read it: only an operation under way changes it; the  *)
(* image that is there goes file by file; and a new one comes in one step, *)
(* when nothing is left of the old, with all its files unless the image GC *)
(* has deleted from the directory it was made in.                          *)
(*                                                                         *)
(* Module Checkpoint implements this, and module Promote reads the path.   *)
(***************************************************************************)

\* "gpu" stands for all that the shim writes.
File == {"COMPLETE", "criu", "gpu", "meta"}

VARIABLES
  there,  \* whether there is a directory at the path
  image,  \* its files
  phase,  \* whether an operation is under way: "busy", or "rest"
  hurt    \* whether the GC has deleted from what the operation has made so far

slot == <<there, image, phase, hurt>>

Init == there = FALSE /\ image = {} /\ phase = "rest" /\ hurt = FALSE

Begin == phase = "rest" /\ phase' = "busy" /\ UNCHANGED <<there, image, hurt>>

\* The operation returns or is killed.
End == phase = "busy" /\ phase' = "rest" /\ UNCHANGED <<there, image, hurt>>

\* os.RemoveAll of Finalize takes a file, or the empty directory.
Remove ==
  /\ phase = "busy"
  /\ \/ \E f \in image : image' = image \ {f} /\ UNCHANGED there
     \/ image = {} /\ there' = FALSE /\ UNCHANGED image
  /\ UNCHANGED <<phase, hurt>>

\* The rename of Finalize.
Install ==
  /\ phase = "busy"
  /\ there = FALSE
  /\ there' = TRUE
  /\ image' \in SUBSET File
  /\ hurt = FALSE => image' = File
  /\ hurt' = FALSE
  /\ UNCHANGED phase

Harm == hurt' = TRUE /\ UNCHANGED <<there, image, phase>>

\* The operation makes a new directory to begin with.
Fresh == phase = "busy" /\ hurt' = FALSE /\ UNCHANGED <<there, image, phase>>

Next == Begin \/ End \/ Remove \/ Install \/ Harm \/ Fresh

Spec == Init /\ [][Next]_slot
=============================================================================
