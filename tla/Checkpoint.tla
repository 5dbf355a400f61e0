----------------------------- MODULE Checkpoint -----------------------------
(***************************************************************************)
(* The checkpoint operation of the orchestrator: CheckpointWithRetry and   *)
(* doCheckpoint (pkg/control), WriteStaging and Finalize (pkg/image), on   *)
(* one image path, against the image directories, the agent's image GC     *)
(* (pkg/control/retention.go, pkg/agent) and a crash of the orchestrator.  *)
(*                                                                         *)
(* A directory is the set of files in it.  os.RemoveAll deletes them one   *)
(* by one, in any order, and then the directory.                           *)
(***************************************************************************)
EXTENDS Naturals, FiniteSets

CONSTANTS
  MaxAttempts,  \* RetryPolicy.MaxAttempts
  MaxOps,       \* bound on checkpoint operations of one orchestrator process
  FaultAt,      \* the steps that may return an error, and the removal of the staging directory
  GCEnabled,    \* whether the agent runs image GC
  MayCrash      \* whether the orchestrator may be killed

Step == {"mkdir", "freeze", "snapshot", "verify", "process", "dump", "meta", "complete",
         "rmdest", "rename"}

ASSUME CheckpointAssumption ==
  /\ MaxAttempts \in Nat \ {0}
  /\ MaxOps \in Nat
  /\ FaultAt \subseteq Step \cup {"rmstaging"}
  /\ GCEnabled \in BOOLEAN
  /\ MayCrash \in BOOLEAN

\* "gpu" stands for what the shim writes: manifest.bin, device.bin, dev.bin,
\* ctx.bin, streams.bin, modules.bin.
Artifact == {"gpu", "criu", "meta"}
File == Artifact \cup {"COMPLETE"}

VARIABLES
  pc,        \* where the orchestrator is
  attempt,   \* attempt of applyRetry
  staging,   \* <dest>.staging: whether it is there, its files, and a ghost:
             \* whether the GC has deleted from it since Mkdir
  dest,      \* the image path: the same, the ghost being whether the GC had deleted
             \* from the staging directory that became this image
  app,       \* the application: running, frozen, or gone with the CRIU dump
  gc,        \* whether the agent is removing the staging directory it planned to
  total,     \* checkpoints_total
  failures,  \* checkpoint_failures_total
  ops,       \* operations begun
  finals,    \* ghost: operations that renamed their image into place
  placed,    \* ghost: an image has been put in place, by this process or one before
  gap,       \* ghost: Finalize has begun to remove the image at the path, and no
             \* rename has followed since
  dump,      \* ghost: the directory that the last CRIU dump is in
  harmed     \* ghost: since that dump one of the three things has happened that lose
             \* it: see DumpSurvives

counters == <<total, failures, ops, finals>>
past == <<placed, gap>>
fate == <<dump, harmed>>
vars == <<pc, attempt, staging, dest, app, gc, counters, past, fate>>

Absent == [there |-> FALSE, files |-> {}, cut |-> FALSE]
Dir == [there : BOOLEAN, files : SUBSET File, cut : BOOLEAN]

TypeOK ==
  /\ pc \in Step \cup {"idle", "clean", "cleanup", "failed", "done"}
  /\ attempt \in 0..MaxAttempts
  /\ staging \in Dir
  /\ dest \in Dir
  /\ app \in {"running", "frozen", "dumped"}
  /\ gc \in BOOLEAN
  /\ total \in 0..MaxOps
  /\ failures \in 0..MaxOps
  /\ ops \in 0..MaxOps
  /\ finals \in 0..MaxOps
  /\ placed \in BOOLEAN /\ gap \in BOOLEAN
  /\ dump \in {"none", "staging", "dest"}
  /\ harmed \in BOOLEAN

Init ==
  /\ pc = "idle" /\ attempt = 0
  /\ staging = Absent /\ dest = Absent
  /\ app = "running" /\ gc = FALSE
  /\ total = 0 /\ failures = 0 /\ ops = 0 /\ finals = 0
  /\ placed = FALSE /\ gap = FALSE
  /\ dump = "none" /\ harmed = FALSE

-----------------------------------------------------------------------------

Complete(d) == File \subseteq d.files

Put(d, f) == [d EXCEPT !.files = @ \cup {f}]

\* One deletion of os.RemoveAll: a file, or the directory once it is empty.
RemoveOne(d) ==
  IF d.files = {} THEN {[d EXCEPT !.there = FALSE]}
                  ELSE {[d EXCEPT !.files = @ \ {f}] : f \in d.files}

\* ... of the GC.
CutOne(d) == {[e EXCEPT !.cut = TRUE] : e \in RemoveOne(d)}

\* A step of the callback given to WriteStaging succeeds and the next one
\* follows, or returns an error, upon which the staging directory is removed.
Then(s, next) ==
  /\ pc = s
  /\ pc' = next
  /\ UNCHANGED <<attempt, dest, gc, counters, past>>

FailsAt(s, next) ==
  /\ s \in FaultAt
  /\ Then(s, next)
  /\ harmed' = (harmed \/ s \in {"meta", "complete", "rmdest", "rename"})
  /\ UNCHANGED <<staging, app, dump>>

\* Nothing is asked about the process: it may have been dumped already, with the
\* dump in the staging directory that is removed next.
Start ==
  /\ pc = "idle" /\ ops < MaxOps
  /\ ops' = ops + 1
  /\ attempt' = 1
  /\ pc' = "clean"
  /\ harmed' = (harmed \/ (app = "dumped" /\ dump = "staging"))
  /\ UNCHANGED <<staging, dest, app, gc, total, failures, finals, past, dump>>

\* An operator resumes a frozen application or restores a dumped one.
Revive ==
  /\ pc = "idle"
  /\ app # "running"
  /\ app' = "running"
  /\ UNCHANGED <<pc, attempt, staging, dest, gc, counters, past, fate>>

\* Mutant: an earlier image is cleared away when the checkpoint begins.
RemoveStagingAndDest ==
  /\ pc \in {"clean", "cleanup"}
  /\ staging' \in RemoveOne(staging)
  /\ dest' = Absent
  /\ pc' = IF staging'.there THEN pc ELSE IF pc = "clean" THEN "mkdir" ELSE "failed"
  /\ UNCHANGED <<attempt, app, gc, counters, past, fate>>

\* WriteStaging removes a staging directory left by an earlier attempt, and
\* its own after an error.  An error of RemoveAll, with part of the directory left,
\* is ignored.
RemoveStaging ==
  /\ pc \in {"clean", "cleanup"}
  /\ \/ /\ staging' \in RemoveOne(staging)
        /\ pc' = IF staging'.there THEN pc ELSE IF pc = "clean" THEN "mkdir" ELSE "failed"
     \/ /\ "rmstaging" \in FaultAt /\ UNCHANGED staging
        /\ pc' = IF pc = "clean" THEN "mkdir" ELSE "failed"
  /\ UNCHANGED <<attempt, dest, app, gc, counters, past, fate>>

\* Mutant: the image path is made along with the staging directory.
MkdirBoth ==
  /\ pc = "mkdir" /\ pc' = "freeze"
  /\ staging' = [staging EXCEPT !.there = TRUE, !.cut = FALSE]
  /\ dest' = [dest EXCEPT !.there = TRUE]
  /\ UNCHANGED <<attempt, app, gc, counters, past, fate>>

Mkdir ==
  \/ /\ Then("mkdir", "freeze")
     /\ staging' = [staging EXCEPT !.there = TRUE, !.cut = FALSE]
     /\ UNCHANGED <<app, fate>>
  \/ FailsAt("mkdir", "failed")

\* FREEZE over RPC; there is nobody to dial once the process has been dumped.
Freeze ==
  \/ app # "dumped" /\ Then("freeze", "snapshot") /\ app' = "frozen" /\ UNCHANGED <<staging, fate>>
  \/ app = "dumped" /\ Then("freeze", "cleanup") /\ UNCHANGED <<staging, app, fate>>
  \/ FailsAt("freeze", "cleanup")

\* SNAPSHOT over RPC: the shim opens its files in the staging directory.
Snapshot ==
  \/ staging.there /\ Then("snapshot", "verify") /\ staging' = Put(staging, "gpu") /\ UNCHANGED <<app, fate>>
  \/ ~staging.there /\ Then("snapshot", "cleanup") /\ UNCHANGED <<staging, app, fate>>
  \/ FailsAt("snapshot", "cleanup")

\* verifyImage reads the manifest and device.bin back.
Verify ==
  \/ "gpu" \in staging.files /\ Then("verify", "process") /\ UNCHANGED <<staging, app, fate>>
  \/ "gpu" \notin staging.files /\ Then("verify", "cleanup") /\ UNCHANGED <<staging, app, fate>>
  \/ FailsAt("verify", "cleanup")

\* ProcessImage; with no option set it does not touch the directory.
Process ==
  \/ Then("process", "dump") /\ UNCHANGED <<staging, app, fate>>
  \/ FailsAt("process", "cleanup")

\* Mutant: the error of criu.Dump is ignored.
DumpErrorIgnored ==
  \/ /\ Then("dump", "meta")
     /\ staging' = [staging EXCEPT !.there = TRUE, !.files = @ \cup {"criu"}]
     /\ app' = "dumped" /\ dump' = "staging" /\ harmed' = FALSE
  \/ FailsAt("dump", "meta")

\* criu.Dump makes the directory if it is missing; CRIU ends the process.
Dump ==
  \/ /\ Then("dump", "meta")
     /\ staging' = [staging EXCEPT !.there = TRUE, !.files = @ \cup {"criu"}]
     /\ app' = "dumped" /\ dump' = "staging" /\ harmed' = FALSE
  \/ FailsAt("dump", "cleanup")

\* dev.bin is read, an error ignored, and meta.bin written.
Meta ==
  \/ staging.there /\ Then("meta", "complete") /\ staging' = Put(staging, "meta") /\ UNCHANGED <<app, fate>>
  \/ ~staging.there /\ Then("meta", "cleanup") /\ UNCHANGED <<staging, app, fate>>
  \/ FailsAt("meta", "cleanup")

\* Finalize writes the marker ...
MarkComplete ==
  \/ /\ staging.there
     /\ Then("complete", "rmdest")
     /\ staging' = Put(staging, "COMPLETE")
     /\ UNCHANGED <<app, fate>>
  \/ ~staging.there /\ Then("complete", "failed") /\ UNCHANGED <<staging, app, fate>>
  \/ FailsAt("complete", "failed")

\* Mutant: RemoveAll is called on the staging directory.
RemoveStagingForDest ==
  /\ pc = "rmdest"
  /\ staging' \in RemoveOne(staging)
  /\ pc' = IF staging'.there THEN "rmdest" ELSE "rename"
  /\ UNCHANGED <<attempt, dest, app, gc, counters, past, fate>>

\* ... removes the image that is at the destination ...
RemoveDest ==
  \/ /\ pc = "rmdest"
     /\ dest' \in RemoveOne(dest) /\ gap' = TRUE
     /\ pc' = IF dest'.there THEN "rmdest" ELSE "rename"
     /\ UNCHANGED <<attempt, staging, app, gc, counters, placed, fate>>
  \/ FailsAt("rmdest", "failed")

\* ... and renames.
Rename ==
  \/ /\ pc = "rename" /\ staging.there
     /\ dest' = staging /\ staging' = Absent
     /\ dump' = IF dump = "staging" THEN "dest" ELSE dump
     /\ finals' = finals + 1 /\ placed' = TRUE /\ gap' = FALSE
     /\ pc' = "done"
     /\ UNCHANGED <<attempt, app, gc, total, failures, ops, harmed>>
  \/ ~staging.there /\ Then("rename", "failed") /\ UNCHANGED <<staging, app, fate>>
  \/ FailsAt("rename", "failed")

Succeed ==
  /\ pc = "done"
  /\ total' = total + 1
  /\ pc' = "idle" /\ attempt' = 0
  /\ UNCHANGED <<staging, dest, app, gc, failures, ops, finals, past, fate>>

\* Mutant: every attempt that fails is counted.
RetryCountingAttempts ==
  /\ pc = "failed"
  /\ failures' = failures + 1
  /\ IF attempt < MaxAttempts THEN pc' = "clean" /\ attempt' = attempt + 1
                              ELSE pc' = "idle" /\ attempt' = 0
  /\ UNCHANGED <<staging, dest, app, gc, total, ops, finals, past, fate>>

\* Mutant: the loop makes one attempt too many.
RetryOnceMore ==
  /\ pc = "failed"
  /\ IF attempt <= MaxAttempts
       THEN pc' = "clean" /\ attempt' = attempt + 1 /\ UNCHANGED failures
       ELSE pc' = "idle" /\ attempt' = 0 /\ failures' = failures + 1
  /\ UNCHANGED <<staging, dest, app, gc, total, ops, finals, past, fate>>

\* Mutant: the attempts are not counted.
RetryForever ==
  /\ pc = "failed"
  /\ pc' = "clean"
  /\ UNCHANGED <<attempt, staging, dest, app, gc, counters, past, fate>>

\* applyRetry tries again, or gives up and the failure is counted.  No error of
\* doCheckpoint has the Unsupported code that would end the loop early.
Retry ==
  /\ pc = "failed"
  /\ IF attempt < MaxAttempts
       THEN pc' = "clean" /\ attempt' = attempt + 1 /\ UNCHANGED failures
       ELSE pc' = "idle" /\ attempt' = 0 /\ failures' = failures + 1
  /\ UNCHANGED <<staging, dest, app, gc, total, ops, finals, past, fate>>

Orchestrator ==
  \/ Start \/ RemoveStaging \/ Mkdir \/ Freeze \/ Snapshot \/ Verify \/ Process \/ Dump
  \/ Meta \/ MarkComplete \/ RemoveDest \/ Rename \/ Succeed \/ Retry

\* PlanImageGC puts every *.staging directory on its list; images within the
\* retention window or pinned, as this one is, are kept.
GCPlan ==
  /\ GCEnabled
  /\ ~gc /\ staging.there
  /\ gc' = TRUE
  /\ UNCHANGED <<pc, attempt, staging, dest, app, counters, past, fate>>

\* ApplyGCPlan removes what is there now under the planned name.
GCApply ==
  /\ gc
  /\ staging' \in CutOne(staging)
  /\ gc' = staging'.there
  /\ harmed' = (harmed \/ dump = "staging")
  /\ UNCHANGED <<pc, attempt, dest, app, counters, past, dump>>

\* The orchestrator is killed, and its counters go with it.
Crash ==
  /\ MayCrash
  /\ pc # "idle"
  /\ pc' = "idle" /\ attempt' = 0
  /\ total' = 0 /\ failures' = 0 /\ ops' = 0 /\ finals' = 0
  /\ UNCHANGED <<staging, dest, app, gc, past, fate>>

Next == Orchestrator \/ Revive \/ GCPlan \/ GCApply \/ Crash

Spec == Init /\ [][Next]_vars
FairSpec == Spec /\ WF_vars(Orchestrator)

-----------------------------------------------------------------------------
(* Properties.                                                             *)

\* docs/OPERATIONS.md, line 9: a directory with the COMPLETE marker may be used.
\* Unless Finalize has begun to remove it, or the GC had deleted from it while it
\* was a staging directory, every part of the checkpoint is in it, whichever steps
\* failed, were retried or were cut short by a crash.
CompleteIsWhole ==
  "COMPLETE" \in dest.files /\ ~gap /\ ~dest.cut => Artifact \subseteq dest.files

\* Once a checkpoint has been put in place the path holds a complete image at all
\* times, through failed attempts, crashes, the GC and later checkpoints.  Two cases
\* are excepted.  From the first deletion of Finalize to its rename there is none,
\* and if the operation ends in between, there is none until a later one succeeds.
\* And an image is put in place although the GC has deleted from its staging
\* directory: Finalize does not look, and it stays until the next.
LastGoodKept == placed /\ ~gap /\ ~dest.cut => Complete(dest)

\* docs/OPERATIONS.md, lines 155 and 156: one operation adds one to one counter,
\* however many attempts it took, and checkpoints_total counts exactly the
\* operations whose image was put in place.
MetricsExact == pc = "idle" => total = finals /\ total + failures = ops

\* A process that CRIU has dumped and ended is not lost: its dump, not that of an
\* earlier checkpoint, is in the staging directory or in the image, also when the
\* orchestrator is killed at any point of Finalize.  Three things lose it while it is
\* in the staging directory only: an error after the dump, upon which WriteStaging or
\* the next attempt removes it; the image GC; and another checkpoint of the process,
\* begun after the orchestrator was killed, which removes the staging directory
\* before it finds the process gone.  Once the image is in place none of them does.
DumpSurvives ==
  app = "dumped" /\ ~harmed =>
    \/ dump = "staging" /\ "criu" \in staging.files
    \/ dump = "dest" /\ "criu" \in dest.files

\* Every checkpoint operation ends: the attempts are bounded.
OperationEnds == pc # "idle" ~> pc = "idle"

\* Seen from the image path a checkpoint is what module ImageSlot says: an old
\* image goes only while an operation is under way, a new one comes in one step
\* and whole, wherever the orchestrator fails, retries or is killed, unless the
\* GC has deleted from the staging directory.
Slot == INSTANCE ImageSlot WITH
  there <- dest.there, image <- dest.files, hurt <- staging.cut,
  phase <- IF pc = "idle" THEN "rest" ELSE "busy"
ImplementsSlot == Slot!Spec
=============================================================================
