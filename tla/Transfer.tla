------------------------------ MODULE Transfer ------------------------------
(***************************************************************************)
(* What SNAPSHOT and RESTORE promise about the bytes they move: each of    *)
(* the allocations of an operation is moved, to the image or to the        *)
(* device, in any order and several at a time, and the operation succeeds  *)
(* only when all have been.  It may fail at any time.  A SNAPSHOT may also *)
(* end short: it answers ok as well, without noticing that the disk did    *)
(* not take everything.                                                    *)
(*                                                                         *)
(* Module Workers shows that the threads, the shared index and the pool of *)
(* pinned buffers implement this.                                          *)
(***************************************************************************)
EXTENDS Naturals

CONSTANTS
  Task,      \* operations that may run at the same time
  MaxAllocs  \* bound on the allocations of one operation

VARIABLES
  kind,   \* kind[s]: "snapshot" or "restore"
  todo,   \* todo[s]: the allocations of s that have still to be moved, by number
  result  \* result[s]: "idle", "busy", "ok", "short" or "err"

vars == <<kind, todo, result>>

Init ==
  /\ kind = [s \in Task |-> "snapshot"]
  /\ todo = [s \in Task |-> {}]
  /\ result = [s \in Task |-> "idle"]

Begin(s) ==
  /\ result[s] # "busy"
  /\ \E k \in {"snapshot", "restore"} : kind' = [kind EXCEPT ![s] = k]
  /\ \E n \in 0..MaxAllocs : todo' = [todo EXCEPT ![s] = 1..n]
  /\ result' = [result EXCEPT ![s] = "busy"]

Move(s) ==
  /\ result[s] = "busy"
  /\ \E moved \in SUBSET todo[s] : todo' = [todo EXCEPT ![s] = @ \ moved]
  /\ UNCHANGED <<kind, result>>

Succeed(s) ==
  /\ result[s] = "busy"
  /\ todo[s] = {}
  /\ result' = [result EXCEPT ![s] = "ok"]
  /\ UNCHANGED <<kind, todo>>

\* All has been handed over, and the disk has not taken all of it.
EndShort(s) ==
  /\ kind[s] = "snapshot" /\ result[s] = "busy"
  /\ todo[s] = {}
  /\ result' = [result EXCEPT ![s] = "short"]
  /\ UNCHANGED <<kind, todo>>

Fail(s) ==
  /\ result[s] = "busy"
  /\ result' = [result EXCEPT ![s] = "err"]
  /\ todo' = [todo EXCEPT ![s] = {}]
  /\ UNCHANGED kind

Next == \E s \in Task : Begin(s) \/ Move(s) \/ Succeed(s) \/ EndShort(s) \/ Fail(s)

Spec == Init /\ [][Next]_vars
=============================================================================
