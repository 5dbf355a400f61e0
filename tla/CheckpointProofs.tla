-------------------------- MODULE CheckpointProofs --------------------------
(***************************************************************************)
(* Proofs about the checkpoint operation, for any number of attempts and   *)
(* operations, any set of failing steps, with and without image GC and     *)
(* crashes.                                                                *)
(***************************************************************************)
EXTENDS Checkpoint, TLAPS

\* The names of groups of variables.
USE DEF past, fate

\* Where the operation stands tells what has been counted.
CountInv ==
  /\ pc = "idle" => total = finals /\ total + failures = ops
  /\ pc = "done" => finals = total + 1 /\ total + failures + 1 = ops
  /\ pc \notin {"idle", "done"} => total = finals /\ total + failures + 1 = ops

\* ... and what is in the staging directory, unless the GC has been there.
FilesInv ==
  staging.cut = FALSE =>
    /\ pc \in {"verify", "process", "dump", "meta", "complete", "rmdest", "rename"}
         => "gpu" \in staging.files
    /\ pc \in {"meta", "complete", "rmdest", "rename"} => "criu" \in staging.files
    /\ pc \in {"complete", "rmdest", "rename"} => "meta" \in staging.files
    /\ pc \in {"rmdest", "rename"} => "COMPLETE" \in staging.files

\* The image at the path is the last one placed, or Finalize has begun to
\* replace it, or the GC had been at it before it was placed.
KeptInv == placed = TRUE /\ gap = FALSE /\ dest.cut = FALSE => Complete(dest)
MarkedInv == "COMPLETE" \in dest.files /\ gap = FALSE /\ dest.cut = FALSE => Artifact \subseteq dest.files
DestInv == KeptInv /\ MarkedInv

WholeInv == TypeOK /\ CountInv /\ FilesInv /\ DestInv

\* The invariant holds at first.
LEMMA WholeInit == Init => WholeInv
<1> SUFFICES ASSUME Init PROVE WholeInv
  OBVIOUS
<1>1. Absent \in Dir
  BY DEF Absent, Dir
<1>2. TypeOK
  <2>1. gc \in BOOLEAN /\ placed \in BOOLEAN /\ gap \in BOOLEAN /\ harmed \in BOOLEAN
    BY Zenon DEF Init
  <2> QED
    BY <1>1, <2>1, CheckpointAssumption DEF Init, TypeOK
<1>3. CountInv /\ FilesInv
  BY DEF Init, CountInv, FilesInv
<1>4. DestInv
  BY DEF Init, DestInv, KeptInv, MarkedInv, Absent
<1> QED
  BY <1>2, <1>3, <1>4 DEF WholeInv

\* What os.RemoveAll leaves after one deletion.
LEMMA RemoveOneType ==
  ASSUME NEW d \in Dir, NEW e \in RemoveOne(d)
  PROVE  e \in Dir /\ e.cut = d.cut
<1>1. CASE d.files = {}
  <2>1. e = [d EXCEPT !.there = FALSE]
    BY <1>1 DEF RemoveOne
  <2> QED
    BY <2>1 DEF Dir
<1>2. CASE d.files # {}
  <2>1. PICK f \in d.files : e = [d EXCEPT !.files = d.files \ {f}]
    BY <1>2 DEF RemoveOne
  <2> QED
    BY <2>1 DEF Dir
<1> QED
  BY <1>1, <1>2

\* A directory from which a file has been deleted.
LEMMA CutOneType ==
  ASSUME NEW d \in Dir, NEW e \in CutOne(d)
  PROVE  e \in Dir /\ e.cut = TRUE
<1>1. PICK x \in RemoveOne(d) : e = [x EXCEPT !.cut = TRUE]
  BY DEF CutOne
<1>2. x \in Dir
  BY <1>1, RemoveOneType
<1> QED
  BY <1>1, <1>2 DEF Dir

\* A directory into which a file has been written.
LEMMA PutType ==
  ASSUME NEW d \in Dir, NEW f \in File
  PROVE  /\ Put(d, f) \in Dir /\ Put(d, f).files = d.files \cup {f}
         /\ Put(d, f).cut = d.cut /\ Put(d, f).there = d.there
BY DEF Dir, Put

\* A step that leaves the image alone.
LEMMA DestFrame ==
  ASSUME DestInv, UNCHANGED <<dest, placed, gap>>
  PROVE  DestInv'
BY DEF DestInv, KeptInv, MarkedInv, Complete

\* A step inside an operation that counts nothing.
LEMMA CountFrame ==
  ASSUME CountInv, pc \notin {"idle", "done"}, pc' \notin {"idle", "done"}, UNCHANGED counters
  PROVE  CountInv'
BY DEF CountInv, counters

\* A step of the callback of WriteStaging or of Finalize that succeeds or fails.
LEMMA ThenStep ==
  ASSUME WholeInv, NEW s \in Step, NEW t \in Step \cup {"cleanup", "failed"}, Then(s, t),
         staging' \in Dir, app' \in {"running", "frozen", "dumped"}, harmed' \in BOOLEAN,
         dump' \in {"none", "staging", "dest"}
  PROVE  TypeOK' /\ CountInv' /\ DestInv'
<1>1. TypeOK'
  BY DEF WholeInv, TypeOK, Then, counters
<1>2. CountInv'
  BY CountFrame DEF WholeInv, Then, Step
<1>3. DestInv'
  BY DestFrame DEF WholeInv, Then
<1> QED
  BY <1>1, <1>2, <1>3

\* A step of the operation that fails.
LEMMA FailsAtStep ==
  ASSUME WholeInv, NEW s \in Step, NEW t \in {"cleanup", "failed"}, FailsAt(s, t)
  PROVE  WholeInv'
<1>1. Then(s, t) /\ UNCHANGED <<staging, app, dump>> /\ harmed' \in BOOLEAN
  BY DEF FailsAt
<1>2. TypeOK' /\ CountInv' /\ DestInv'
  BY <1>1, ThenStep DEF WholeInv, TypeOK
<1>3. FilesInv'
  BY <1>1 DEF Then, FilesInv
<1> QED
  BY <1>2, <1>3 DEF WholeInv

\* Every step of the orchestrator.
LEMMA OrchestratorStep ==
  ASSUME WholeInv, Orchestrator
  PROVE  WholeInv'
<1>0. TypeOK /\ CountInv /\ FilesInv /\ DestInv /\ staging \in Dir /\ dest \in Dir
  BY DEF WholeInv, TypeOK
<1>1. CASE Start
  <2>1. harmed' \in BOOLEAN
    BY <1>1, Zenon DEF Start
  <2>2. TypeOK'
    BY <1>0, <1>1, <2>1, CheckpointAssumption DEF Start, TypeOK
  <2>3. CountInv' /\ FilesInv'
    BY <1>0, <1>1 DEF Start, TypeOK, CountInv, FilesInv
  <2> QED
    BY <1>0, <1>1, <2>2, <2>3, DestFrame DEF Start, WholeInv
<1>2. CASE RemoveStaging
  <2>1. staging' \in Dir
    BY <1>0, <1>2, RemoveOneType DEF RemoveStaging
  <2>2. pc \in {"clean", "cleanup"} /\ pc' \in {"clean", "cleanup", "mkdir", "failed"}
    BY <1>2 DEF RemoveStaging
  <2>3. TypeOK'
    BY <1>0, <1>2, <2>1, <2>2 DEF RemoveStaging, TypeOK, counters, Step
  <2>4. CountInv' /\ FilesInv'
    BY <1>0, <1>2, <2>2, CountFrame DEF RemoveStaging, FilesInv
  <2> QED
    BY <1>0, <1>2, <2>3, <2>4, DestFrame DEF RemoveStaging, WholeInv
<1>3. CASE Mkdir
  <2>1. CASE FailsAt("mkdir", "failed")
    BY <2>1, FailsAtStep DEF Step
  <2>2. CASE /\ Then("mkdir", "freeze")
             /\ staging' = [staging EXCEPT !.there = TRUE, !.cut = FALSE]
             /\ UNCHANGED <<app, fate>>
    <3>1. staging' \in Dir
      BY <1>0, <2>2 DEF Dir
    <3>2. TypeOK' /\ CountInv' /\ DestInv'
      BY <1>0, <2>2, <3>1, ThenStep DEF Step, TypeOK
    <3>3. FilesInv'
      BY <2>2 DEF Then, FilesInv
    <3> QED
      BY <3>2, <3>3 DEF WholeInv
  <2> QED
    BY <1>3, <2>1, <2>2 DEF Mkdir
<1>4. CASE Freeze
  <2>1. CASE FailsAt("freeze", "cleanup")
    BY <2>1, FailsAtStep DEF Step
  <2>2. CASE ~FailsAt("freeze", "cleanup")
    <3>1. PICK t \in {"snapshot", "cleanup"} : Then("freeze", t)
      BY <1>4, <2>2 DEF Freeze
    <3>2. UNCHANGED <<staging, fate>> /\ app' \in {"running", "frozen", "dumped"}
      BY <1>0, <1>4, <2>2 DEF Freeze, TypeOK
    <3>3. TypeOK' /\ CountInv' /\ DestInv'
      BY <1>0, <3>1, <3>2, ThenStep DEF Step, TypeOK
    <3>4. FilesInv'
      BY <3>1 DEF Then, FilesInv
    <3> QED
      BY <3>3, <3>4 DEF WholeInv
  <2> QED
    BY <2>1, <2>2
<1>5. CASE Snapshot
  <2>1. CASE FailsAt("snapshot", "cleanup")
    BY <2>1, FailsAtStep DEF Step
  <2>2. CASE Then("snapshot", "verify") /\ staging' = Put(staging, "gpu") /\ UNCHANGED <<app, fate>>
    <3>1. staging' \in Dir /\ "gpu" \in staging'.files
      BY <1>0, <2>2, PutType DEF File, Artifact
    <3>2. TypeOK' /\ CountInv' /\ DestInv'
      BY <1>0, <2>2, <3>1, ThenStep DEF Step, TypeOK
    <3>3. FilesInv'
      BY <2>2, <3>1 DEF Then, FilesInv
    <3> QED
      BY <3>2, <3>3 DEF WholeInv
  <2>3. CASE Then("snapshot", "cleanup") /\ UNCHANGED <<staging, app, fate>>
    <3>1. TypeOK' /\ CountInv' /\ DestInv'
      BY <1>0, <2>3, ThenStep DEF Step, TypeOK
    <3>2. FilesInv'
      BY <2>3 DEF Then, FilesInv
    <3> QED
      BY <3>1, <3>2 DEF WholeInv
  <2> QED
    BY <1>5, <2>1, <2>2, <2>3 DEF Snapshot
<1>6. CASE Verify
  <2>1. CASE FailsAt("verify", "cleanup")
    BY <2>1, FailsAtStep DEF Step
  <2>2. CASE ~FailsAt("verify", "cleanup")
    <3>1. PICK t \in {"process", "cleanup"} : Then("verify", t)
      BY <1>6, <2>2 DEF Verify
    <3>2. UNCHANGED <<staging, app, fate>>
      BY <1>6, <2>2 DEF Verify
    <3>3. TypeOK' /\ CountInv' /\ DestInv'
      BY <1>0, <3>1, <3>2, ThenStep DEF Step, TypeOK
    <3>4. FilesInv'
      BY <1>0, <3>1, <3>2 DEF Then, FilesInv
    <3> QED
      BY <3>3, <3>4 DEF WholeInv
  <2> QED
    BY <2>1, <2>2
<1>7. CASE Process
  <2>1. CASE FailsAt("process", "cleanup")
    BY <2>1, FailsAtStep DEF Step
  <2>2. CASE Then("process", "dump") /\ UNCHANGED <<staging, app, fate>>
    <3>1. TypeOK' /\ CountInv' /\ DestInv'
      BY <1>0, <2>2, ThenStep DEF Step, TypeOK
    <3>2. FilesInv'
      BY <1>0, <2>2 DEF Then, FilesInv
    <3> QED
      BY <3>1, <3>2 DEF WholeInv
  <2> QED
    BY <1>7, <2>1, <2>2 DEF Process
<1>8. CASE Dump
  <2>1. CASE FailsAt("dump", "cleanup")
    BY <2>1, FailsAtStep DEF Step
  <2>2. CASE /\ Then("dump", "meta")
             /\ staging' = [staging EXCEPT !.there = TRUE, !.files = @ \cup {"criu"}]
             /\ app' = "dumped" /\ dump' = "staging" /\ harmed' = FALSE
    <3>0. harmed' \in BOOLEAN
      BY <2>2, Zenon
    <3>1. /\ staging' \in Dir /\ staging'.files = staging.files \cup {"criu"}
          /\ staging'.cut = staging.cut
      BY <1>0, <2>2 DEF Dir, File, Artifact
    <3>2. TypeOK' /\ CountInv' /\ DestInv'
      BY <1>0, <2>2, <3>0, <3>1, ThenStep DEF Step, TypeOK
    <3>3. FilesInv'
      BY <1>0, <2>2, <3>1 DEF Then, FilesInv
    <3> QED
      BY <3>2, <3>3 DEF WholeInv
  <2> QED
    BY <1>8, <2>1, <2>2 DEF Dump
<1>9. CASE Meta
  <2>1. CASE FailsAt("meta", "cleanup")
    BY <2>1, FailsAtStep DEF Step
  <2>2. CASE Then("meta", "complete") /\ staging' = Put(staging, "meta") /\ UNCHANGED <<app, fate>>
    <3>1. /\ staging' \in Dir /\ staging'.files = staging.files \cup {"meta"}
          /\ staging'.cut = staging.cut
      BY <1>0, <2>2, PutType DEF File, Artifact
    <3>2. TypeOK' /\ CountInv' /\ DestInv'
      BY <1>0, <2>2, <3>1, ThenStep DEF Step, TypeOK
    <3>3. FilesInv'
      BY <1>0, <2>2, <3>1 DEF Then, FilesInv
    <3> QED
      BY <3>2, <3>3 DEF WholeInv
  <2>3. CASE Then("meta", "cleanup") /\ UNCHANGED <<staging, app, fate>>
    <3>1. TypeOK' /\ CountInv' /\ DestInv'
      BY <1>0, <2>3, ThenStep DEF Step, TypeOK
    <3>2. FilesInv'
      BY <2>3 DEF Then, FilesInv
    <3> QED
      BY <3>1, <3>2 DEF WholeInv
  <2> QED
    BY <1>9, <2>1, <2>2, <2>3 DEF Meta
<1>10. CASE MarkComplete
  <2>1. CASE FailsAt("complete", "failed")
    BY <2>1, FailsAtStep DEF Step
  <2>2. CASE Then("complete", "rmdest") /\ staging' = Put(staging, "COMPLETE") /\ UNCHANGED <<app, fate>>
    <3>1. /\ staging' \in Dir /\ staging'.files = staging.files \cup {"COMPLETE"}
          /\ staging'.cut = staging.cut
      BY <1>0, <2>2, PutType DEF File
    <3>2. TypeOK' /\ CountInv' /\ DestInv'
      BY <1>0, <2>2, <3>1, ThenStep DEF Step, TypeOK
    <3>3. FilesInv'
      BY <1>0, <2>2, <3>1 DEF Then, FilesInv
    <3> QED
      BY <3>2, <3>3 DEF WholeInv
  <2>3. CASE Then("complete", "failed") /\ UNCHANGED <<staging, app, fate>>
    <3>1. TypeOK' /\ CountInv' /\ DestInv'
      BY <1>0, <2>3, ThenStep DEF Step, TypeOK
    <3>2. FilesInv'
      BY <2>3 DEF Then, FilesInv
    <3> QED
      BY <3>1, <3>2 DEF WholeInv
  <2> QED
    BY <1>10, <2>1, <2>2, <2>3 DEF MarkComplete
<1>11. CASE RemoveDest
  <2>1. CASE FailsAt("rmdest", "failed")
    BY <2>1, FailsAtStep DEF Step
  <2>2. CASE /\ pc = "rmdest"
             /\ dest' \in RemoveOne(dest) /\ gap' = TRUE
             /\ pc' = IF dest'.there THEN "rmdest" ELSE "rename"
             /\ UNCHANGED <<attempt, staging, app, gc, counters, placed, fate>>
    <3>1. dest' \in Dir /\ gap' \in BOOLEAN /\ gap' # FALSE /\ pc' \in {"rmdest", "rename"}
      <4>1. gap' \in BOOLEAN /\ gap' # FALSE
        BY <2>2, Zenon
      <4> QED
        BY <1>0, <2>2, <4>1, RemoveOneType
    <3>2. TypeOK'
      BY <1>0, <2>2, <3>1 DEF TypeOK, Step, counters
    <3>3. CountInv' /\ FilesInv'
      BY <1>0, <2>2, <3>1, CountFrame DEF FilesInv
    <3>4. DestInv'
      BY <3>1 DEF DestInv, KeptInv, MarkedInv
    <3> QED
      BY <3>2, <3>3, <3>4 DEF WholeInv
  <2> QED
    BY <1>11, <2>1, <2>2 DEF RemoveDest
<1>12. CASE Rename
  <2>1. CASE FailsAt("rename", "failed")
    BY <2>1, FailsAtStep DEF Step
  <2>2. CASE /\ pc = "rename"
             /\ dest' = staging /\ staging' = Absent
             /\ dump' = (IF dump = "staging" THEN "dest" ELSE dump)
             /\ finals' = finals + 1 /\ placed' = TRUE /\ gap' = FALSE
             /\ pc' = "done"
             /\ UNCHANGED <<attempt, app, gc, total, failures, ops, harmed>>
    <3>1. staging' \in Dir /\ dest' \in Dir /\ placed' \in BOOLEAN /\ gap' \in BOOLEAN
      BY <1>0, <2>2 DEF Absent, Dir
    <3>2. CountInv' /\ finals' \in 0..MaxOps
      BY <1>0, <2>2, CheckpointAssumption DEF CountInv, TypeOK
    <3>3. TypeOK'
      BY <1>0, <2>2, <3>1, <3>2 DEF TypeOK, Step
    <3>4. FilesInv'
      BY <2>2 DEF FilesInv
    <3>5. staging.cut = FALSE => File \subseteq staging.files
      BY <1>0, <2>2 DEF FilesInv, File, Artifact
    <3>6. DestInv'
      BY <2>2, <3>5 DEF DestInv, KeptInv, MarkedInv, Complete, File
    <3> QED
      BY <3>2, <3>3, <3>4, <3>6 DEF WholeInv
  <2>3. CASE Then("rename", "failed") /\ UNCHANGED <<staging, app, fate>>
    <3>1. TypeOK' /\ CountInv' /\ DestInv'
      BY <1>0, <2>3, ThenStep DEF Step, TypeOK
    <3>2. FilesInv'
      BY <2>3 DEF Then, FilesInv
    <3> QED
      BY <3>1, <3>2 DEF WholeInv
  <2> QED
    BY <1>12, <2>1, <2>2, <2>3 DEF Rename
<1>13. CASE Succeed
  <2>1. TypeOK' /\ CountInv' /\ FilesInv'
    BY <1>0, <1>13, CheckpointAssumption DEF Succeed, TypeOK, CountInv, FilesInv
  <2> QED
    BY <1>0, <1>13, <2>1, DestFrame DEF Succeed, WholeInv
<1>14. CASE Retry
  <2>1. TypeOK' /\ CountInv' /\ FilesInv'
    BY <1>0, <1>14, CheckpointAssumption DEF Retry, TypeOK, CountInv, FilesInv
  <2> QED
    BY <1>0, <1>14, <2>1, DestFrame DEF Retry, WholeInv
<1> QED
  BY <1>1, <1>2, <1>3, <1>4, <1>5, <1>6, <1>7, <1>8, <1>9, <1>10, <1>11, <1>12, <1>13, <1>14
  DEF Orchestrator

\* The operator, the image GC and a crash.
LEMMA EnvironmentStep ==
  ASSUME WholeInv, Revive \/ GCPlan \/ GCApply \/ Crash
  PROVE  WholeInv'
<1>0. TypeOK /\ CountInv /\ FilesInv /\ DestInv /\ staging \in Dir
  BY DEF WholeInv, TypeOK
<1>1. CASE Revive
  <2>1. TypeOK' /\ CountInv' /\ FilesInv'
    BY <1>0, <1>1 DEF Revive, TypeOK, CountInv, FilesInv, counters
  <2> QED
    BY <1>0, <1>1, <2>1, DestFrame DEF Revive, WholeInv
<1>2. CASE GCPlan
  <2>1. gc' \in BOOLEAN
    BY <1>2, Zenon DEF GCPlan
  <2>2. TypeOK' /\ CountInv' /\ FilesInv'
    BY <1>0, <1>2, <2>1 DEF GCPlan, TypeOK, CountInv, FilesInv, counters
  <2> QED
    BY <1>0, <1>2, <2>2, DestFrame DEF GCPlan, WholeInv
<1>3. CASE GCApply
  <2>1. staging' \in Dir /\ staging'.cut = TRUE
    BY <1>0, <1>3, CutOneType DEF GCApply
  <2>2. gc' \in BOOLEAN /\ harmed' \in BOOLEAN
    <3>1. gc' = staging'.there /\ harmed' = (harmed \/ dump = "staging")
      BY <1>3 DEF GCApply
    <3>2. staging'.there \in BOOLEAN
      BY <2>1 DEF Dir
    <3> QED
      BY <3>1, <3>2, Zenon
  <2>3. TypeOK'
    BY <1>0, <1>3, <2>1, <2>2 DEF GCApply, TypeOK, counters
  <2>4. CountInv' /\ FilesInv'
    BY <1>0, <1>3, <2>1 DEF GCApply, CountInv, FilesInv, counters
  <2> QED
    BY <1>0, <1>3, <2>3, <2>4, DestFrame DEF GCApply, WholeInv
<1>4. CASE Crash
  <2>1. TypeOK' /\ CountInv' /\ FilesInv'
    BY <1>0, <1>4, CheckpointAssumption DEF Crash, TypeOK, CountInv, FilesInv
  <2> QED
    BY <1>0, <1>4, <2>1, DestFrame DEF Crash, WholeInv
<1> QED
  BY <1>1, <1>2, <1>3, <1>4

\* Every step keeps the invariant.
LEMMA WholeStep == WholeInv /\ [Next]_vars => WholeInv'
<1> SUFFICES ASSUME WholeInv, [Next]_vars PROVE WholeInv'
  OBVIOUS
<1>1. CASE UNCHANGED vars
  BY <1>1 DEF vars, counters, WholeInv, TypeOK, CountInv, FilesInv, DestInv, KeptInv, MarkedInv,
              Complete
<1>2. CASE Next
  BY <1>2, OrchestratorStep, EnvironmentStep DEF Next
<1> QED
  BY <1>1, <1>2

\* The state of the checkpoint operation is well typed: no attempt beyond
\* RetryPolicy.MaxAttempts, no counter beyond the operations begun.
THEOREM CheckpointTypeCorrect == Spec => []TypeOK
<1>1. WholeInv => TypeOK
  BY DEF WholeInv
<1> QED
  BY <1>1, WholeInit, WholeStep, PTL DEF Spec

\* checkpoints_total and checkpoint_failures_total: one of them goes up by one
\* in an operation, whatever failed and however often it was tried again.
THEOREM MetricsAreExact == Spec => []MetricsExact
<1>1. WholeInv => MetricsExact
  BY DEF WholeInv, CountInv, MetricsExact
<1> QED
  BY <1>1, WholeInit, WholeStep, PTL DEF Spec

\* The COMPLETE marker of Finalize: an image that has it, that Finalize has not begun
\* to remove and that the GC had not deleted from before it was put in place, has
\* every part of the checkpoint.
THEOREM MarkedIsWhole == Spec => []CompleteIsWhole
<1>1. WholeInv => CompleteIsWhole
  <2> SUFFICES ASSUME WholeInv, "COMPLETE" \in dest.files, ~gap, ~dest.cut
               PROVE  Artifact \subseteq dest.files
    BY DEF CompleteIsWhole
  <2>1. dest.cut = FALSE /\ gap = FALSE
    <3>1. dest.cut \in BOOLEAN /\ gap \in BOOLEAN
      BY DEF WholeInv, TypeOK, Dir
    <3> QED
      BY <3>1, Zenon
  <2> QED
    BY <2>1 DEF WholeInv, DestInv, MarkedInv
<1> QED
  BY <1>1, WholeInit, WholeStep, PTL DEF Spec

\* WriteStaging and Finalize: failed attempts and crashes leave the image at the path
\* complete until Finalize itself begins to replace it; the GC does not harm it there,
\* but an image it has deleted from in the staging directory is put in place as it is.
THEOREM LastGoodIsKept == Spec => []LastGoodKept
<1>1. WholeInv => LastGoodKept
  <2> SUFFICES ASSUME WholeInv, placed, ~gap, ~dest.cut
               PROVE  Complete(dest)
    BY DEF LastGoodKept
  <2>1. dest.cut = FALSE /\ placed = TRUE /\ gap = FALSE
    <3>1. dest.cut \in BOOLEAN /\ placed \in BOOLEAN /\ gap \in BOOLEAN
      BY DEF WholeInv, TypeOK, Dir
    <3> QED
      BY <3>1, Zenon
  <2> QED
    BY <2>1 DEF WholeInv, DestInv, KeptInv
<1> QED
  BY <1>1, WholeInit, WholeStep, PTL DEF Spec

-----------------------------------------------------------------------------
(* The dump of a process that CRIU has ended.                              *)

AfterDump == {"meta", "complete", "rmdest", "rename"}

\* From the dump to the rename, and after a crash in between, it is in the staging
\* directory; then it is in the image, and an operation begun while the process is
\* gone does not come as far as to touch that.
Dumped ==
  /\ app = "dumped" => pc \notin {"snapshot", "verify", "process", "dump"}
  /\ harmed = FALSE /\ app = "dumped" =>
       \/ /\ dump = "staging" /\ pc \in AfterDump \cup {"idle"}
          /\ staging.there = TRUE /\ "criu" \in staging.files
       \/ dump = "dest" /\ pc \notin AfterDump /\ "criu" \in dest.files

\* A step that fails leaves the dump where it is.
LEMMA FailsAtDump ==
  ASSUME TypeOK, Dumped, NEW s \in Step, NEW t \in {"cleanup", "failed"}, FailsAt(s, t)
  PROVE  Dumped'
<1>1. harmed' = (harmed \/ s \in AfterDump) /\ harmed \in BOOLEAN
  BY DEF FailsAt, AfterDump, TypeOK
<1>2. harmed' = FALSE => harmed = FALSE /\ s \notin AfterDump
  BY <1>1, Zenon
<1>3. pc = s /\ pc' = t /\ app' = app /\ dump' = dump /\ staging' = staging /\ dest' = dest
  BY DEF FailsAt, Then
<1> QED
  BY <1>2, <1>3 DEF Dumped, AfterDump, Step

\* Every step keeps what is said of the dump.
LEMMA DumpedStep ==
  ASSUME TypeOK, TypeOK', Dumped, Next
  PROVE  Dumped'
<1>0. staging \in Dir /\ dest \in Dir /\ staging' \in Dir /\ staging.there \in BOOLEAN
  BY DEF TypeOK, Dir
<1>1. CASE Start
  <2>1. harmed' = FALSE => harmed = FALSE /\ ~(app = "dumped" /\ dump = "staging")
    <3>1. harmed' = (harmed \/ (app = "dumped" /\ dump = "staging")) /\ harmed \in BOOLEAN
      BY <1>1 DEF Start, TypeOK
    <3> QED
      BY <3>1, Zenon
  <2> QED
    BY <1>1, <2>1 DEF Start, Dumped, AfterDump
<1>2. CASE RemoveStaging
  <2>1. pc \in {"clean", "cleanup"} /\ pc' \in {"clean", "cleanup", "mkdir", "failed"}
    BY <1>2 DEF RemoveStaging
  <2> QED
    BY <1>2, <2>1 DEF RemoveStaging, Dumped, AfterDump
<1>3. CASE Mkdir
  BY <1>3, FailsAtDump DEF Mkdir, Then, Dumped, AfterDump, Step
<1>4. CASE Freeze
  BY <1>4, FailsAtDump DEF Freeze, Then, Dumped, AfterDump, Step
<1>5. CASE Snapshot
  BY <1>5, FailsAtDump DEF Snapshot, Then, Dumped, AfterDump, Step
<1>6. CASE Verify
  BY <1>6, FailsAtDump DEF Verify, Then, Dumped, AfterDump, Step
<1>7. CASE Process
  BY <1>7, FailsAtDump DEF Process, Then, Dumped, AfterDump, Step
<1>8. CASE Dump
  <2>1. CASE FailsAt("dump", "cleanup")
    BY <2>1, FailsAtDump DEF Step
  <2>2. CASE /\ Then("dump", "meta")
             /\ staging' = [staging EXCEPT !.there = TRUE, !.files = @ \cup {"criu"}]
             /\ app' = "dumped" /\ dump' = "staging"
    <3>1. staging'.there = TRUE /\ "criu" \in staging'.files
      BY <1>0, <2>2 DEF Dir
    <3> QED
      BY <2>2, <3>1 DEF Then, Dumped, AfterDump
  <2> QED
    BY <1>8, <2>1, <2>2 DEF Dump
<1>9. CASE Meta
  <2>1. CASE FailsAt("meta", "cleanup")
    BY <2>1, FailsAtDump DEF Step
  <2>2. CASE Then("meta", "complete") /\ staging' = Put(staging, "meta") /\ UNCHANGED <<app, fate>>
    <3>1. staging'.there = staging.there /\ staging'.files = staging.files \cup {"meta"}
      BY <1>0, <2>2, PutType DEF File, Artifact
    <3> QED
      BY <2>2, <3>1 DEF Then, Dumped, AfterDump
  <2>3. CASE ~staging.there /\ Then("meta", "cleanup") /\ UNCHANGED <<staging, app, fate>>
    BY <2>3 DEF Then, Dumped, AfterDump
  <2> QED
    BY <1>9, <2>1, <2>2, <2>3 DEF Meta
<1>10. CASE MarkComplete
  <2>1. CASE FailsAt("complete", "failed")
    BY <2>1, FailsAtDump DEF Step
  <2>2. CASE Then("complete", "rmdest") /\ staging' = Put(staging, "COMPLETE") /\ UNCHANGED <<app, fate>>
    <3>1. staging'.there = staging.there /\ staging'.files = staging.files \cup {"COMPLETE"}
      BY <1>0, <2>2, PutType DEF File
    <3> QED
      BY <2>2, <3>1 DEF Then, Dumped, AfterDump
  <2>3. CASE ~staging.there /\ Then("complete", "failed") /\ UNCHANGED <<staging, app, fate>>
    BY <2>3 DEF Then, Dumped, AfterDump
  <2> QED
    BY <1>10, <2>1, <2>2, <2>3 DEF MarkComplete
<1>11. CASE RemoveDest
  <2>1. CASE FailsAt("rmdest", "failed")
    BY <2>1, FailsAtDump DEF Step
  <2>2. CASE ~FailsAt("rmdest", "failed")
    BY <1>11, <2>2 DEF RemoveDest, Dumped, AfterDump
  <2> QED
    BY <2>1, <2>2
<1>12. CASE Rename
  <2>1. CASE FailsAt("rename", "failed")
    BY <2>1, FailsAtDump DEF Step
  <2>2. CASE ~FailsAt("rename", "failed")
    BY <1>12, <2>2 DEF Rename, Then, Dumped, AfterDump
  <2> QED
    BY <2>1, <2>2
<1>13. CASE Succeed \/ Retry
  BY <1>13 DEF Succeed, Retry, Dumped, AfterDump
<1>14. CASE Revive \/ GCPlan \/ Crash
  BY <1>14 DEF Revive, GCPlan, Crash, Dumped, AfterDump
<1>15. CASE GCApply
  <2>1. harmed' = FALSE => harmed = FALSE /\ dump # "staging"
    <3>1. harmed' = (harmed \/ dump = "staging") /\ harmed \in BOOLEAN
      BY <1>15 DEF GCApply, TypeOK
    <3> QED
      BY <3>1, Zenon
  <2> QED
    BY <1>15, <2>1 DEF GCApply, Dumped
<1> QED
  BY <1>1, <1>2, <1>3, <1>4, <1>5, <1>6, <1>7, <1>8, <1>9, <1>10, <1>11, <1>12, <1>13, <1>14,
     <1>15 DEF Next, Orchestrator

\* criu.Dump and Finalize: once CRIU has ended the process its own dump is on disk, at
\* whatever step the orchestrator is killed, unless, while it is in the staging
\* directory only, a step fails, the image GC takes the directory or another
\* checkpoint is begun; in the image it is safe from all three.
THEOREM DumpIsKept == Spec => []DumpSurvives
<1>1. Init => Dumped
  BY DEF Init, Dumped, AfterDump
<1>2. WholeInv /\ WholeInv' /\ Dumped /\ [Next]_vars => Dumped'
  <2> SUFFICES ASSUME WholeInv, WholeInv', Dumped, [Next]_vars PROVE Dumped'
    OBVIOUS
  <2>1. CASE UNCHANGED vars
    BY <2>1 DEF vars, Dumped
  <2>2. CASE Next
    BY <2>2, DumpedStep DEF WholeInv
  <2> QED
    BY <2>1, <2>2
<1>3. WholeInv /\ Dumped => DumpSurvives
  <2> SUFFICES ASSUME WholeInv, Dumped, app = "dumped", ~harmed
               PROVE  \/ dump = "staging" /\ "criu" \in staging.files
                      \/ dump = "dest" /\ "criu" \in dest.files
    BY DEF DumpSurvives
  <2>1. harmed = FALSE
    <3>1. harmed \in BOOLEAN
      BY DEF WholeInv, TypeOK
    <3> QED
      BY <3>1, Zenon
  <2> QED
    BY <2>1 DEF Dumped
<1> QED
  BY <1>1, <1>2, <1>3, WholeInit, WholeStep, PTL DEF Spec

-----------------------------------------------------------------------------
(* A checkpoint implements ImageSlot.                                      *)

\* Finalize renames only when nothing is left at the image path.
Cleared == pc = "rename" => dest.there = FALSE

\* From the end of the RemoveAll to the rename nothing is at the path.
LEMMA ClearedStep ==
  ASSUME TypeOK, Cleared, Next
  PROVE  Cleared'
<1>1. CASE Start \/ Revive \/ RemoveStaging \/ Succeed \/ Retry \/ GCPlan \/ GCApply \/ Crash
  BY <1>1 DEF Start, Revive, RemoveStaging, Succeed, Retry, GCPlan, GCApply, Crash, Cleared
<1>2. CASE Mkdir \/ Freeze \/ Snapshot \/ Verify \/ Process \/ Dump \/ Meta \/ MarkComplete
  BY <1>2 DEF Mkdir, Freeze, Snapshot, Verify, Process, Dump, Meta, MarkComplete, Then, FailsAt, Cleared
<1>3. CASE RemoveDest
  <2>1. CASE FailsAt("rmdest", "failed")
    BY <2>1 DEF FailsAt, Then, Cleared
  <2>2. CASE dest' \in RemoveOne(dest) /\ pc' = IF dest'.there THEN "rmdest" ELSE "rename"
    <3>1. dest'.there \in BOOLEAN
      BY <2>2, RemoveOneType DEF TypeOK, Dir
    <3> QED
      BY <2>2, <3>1 DEF Cleared
  <2> QED
    BY <1>3, <2>1, <2>2 DEF RemoveDest
<1>4. CASE Rename
  BY <1>4 DEF Rename, FailsAt, Then, Cleared
<1> QED
  BY <1>1, <1>2, <1>3, <1>4 DEF Next, Orchestrator

\* A step that leaves the image path alone, does not delete from the staging
\* directory as the GC does, and neither begins nor ends an operation.
LEMMA SlotStutters ==
  ASSUME dest' = dest, staging'.cut = staging.cut, pc = "idle" <=> pc' = "idle"
  PROVE  UNCHANGED Slot!slot
BY DEF Slot!slot

\* Every step of a checkpoint is a step of ImageSlot or changes nothing of it.
LEMMA SlotStep ==
  ASSUME WholeInv, Cleared, Next
  PROVE  Slot!Next \/ UNCHANGED Slot!slot
<1>0. staging \in Dir /\ dest \in Dir
  BY DEF WholeInv, TypeOK
<1>1. CASE Start
  BY <1>1 DEF Start, Slot!Begin, Slot!Next
<1>2. CASE Revive \/ GCPlan
  BY <1>2, SlotStutters DEF Revive, GCPlan
<1>3. CASE RemoveStaging
  <2>1. staging'.cut = staging.cut
    BY <1>0, <1>3, RemoveOneType DEF RemoveStaging
  <2> QED
    BY <1>3, <2>1, SlotStutters DEF RemoveStaging
<1>4. CASE Mkdir
  <2>1. CASE FailsAt("mkdir", "failed")
    BY <2>1, SlotStutters DEF FailsAt, Then
  <2>2. CASE Then("mkdir", "freeze") /\ staging' = [staging EXCEPT !.there = TRUE, !.cut = FALSE]
    <3>1. staging'.cut = FALSE
      BY <1>0, <2>2 DEF Dir
    <3> QED
      BY <2>2, <3>1 DEF Then, Slot!Fresh, Slot!Next
  <2> QED
    BY <1>4, <2>1, <2>2 DEF Mkdir
<1>5. CASE Freeze \/ Verify \/ Process
  BY <1>5, SlotStutters DEF Freeze, Verify, Process, FailsAt, Then
<1>6. CASE Snapshot \/ Dump \/ Meta \/ MarkComplete
  <2>1. staging'.cut = staging.cut
    <3>1. \A f \in File : Put(staging, f).cut = staging.cut
      BY <1>0, PutType
    <3>2. [staging EXCEPT !.there = TRUE, !.files = staging.files \cup {"criu"}].cut = staging.cut
      BY <1>0 DEF Dir
    <3>3. staging' = staging \/ (\E f \in File : staging' = Put(staging, f))
            \/ staging' = [staging EXCEPT !.there = TRUE, !.files = staging.files \cup {"criu"}]
      BY <1>6 DEF Snapshot, Dump, Meta, MarkComplete, FailsAt, Then, File, Artifact
    <3> QED
      BY <3>1, <3>2, <3>3
  <2> QED
    BY <1>6, <2>1, SlotStutters DEF Snapshot, Dump, Meta, MarkComplete, FailsAt, Then
<1>7. CASE RemoveDest
  <2>1. CASE FailsAt("rmdest", "failed")
    BY <2>1, SlotStutters DEF FailsAt, Then
  <2>2. CASE /\ pc = "rmdest" /\ dest' \in RemoveOne(dest) /\ UNCHANGED staging
             /\ pc' = IF dest'.there THEN "rmdest" ELSE "rename"
    <3>1. dest' \in RemoveOne(dest)
      BY <2>2
    <3>2. dest' \in Dir
      BY <1>0, <3>1, RemoveOneType
    <3>3. CASE dest.files = {}
      <4>1. dest'.there = FALSE /\ dest'.files = dest.files
        BY <1>0, <3>1, <3>2, <3>3 DEF RemoveOne, Dir
      <4> QED
        BY <2>2, <3>3, <4>1 DEF Slot!Remove, Slot!Next
    <3>4. CASE dest.files # {}
      <4>1. PICK f \in dest.files : dest'.files = dest.files \ {f} /\ dest'.there = dest.there
        BY <1>0, <3>1, <3>2, <3>4 DEF RemoveOne, Dir
      <4> QED
        BY <2>2, <4>1 DEF Slot!Remove, Slot!Next
    <3> QED
      BY <3>3, <3>4
  <2> QED
    BY <1>7, <2>1, <2>2 DEF RemoveDest
<1>8. CASE Rename
  <2>1. CASE FailsAt("rename", "failed")
    BY <2>1, SlotStutters DEF FailsAt, Then
  <2>2. CASE Then("rename", "failed") /\ UNCHANGED staging
    BY <2>2, SlotStutters DEF Then
  <2>3. CASE /\ pc = "rename" /\ staging.there /\ pc' = "done"
             /\ dest' = staging /\ staging' = Absent
    <3>1. dest.there = FALSE
      BY <2>3 DEF Cleared
    <3>2. dest'.there = TRUE
      BY <1>0, <2>3 DEF Dir
    <3>3. dest'.files \in SUBSET File /\ File = Slot!File
      BY <1>0, <2>3 DEF Dir, File, Artifact, Slot!File
    <3>4. staging.cut = FALSE => dest'.files = File
      BY <1>0, <2>3 DEF WholeInv, FilesInv, Dir, File, Artifact
    <3>5. staging'.cut = FALSE
      BY <2>3 DEF Absent
    <3> QED
      BY <2>3, <3>1, <3>2, <3>3, <3>4, <3>5 DEF Slot!Install, Slot!Next
  <2> QED
    BY <1>8, <2>1, <2>2, <2>3 DEF Rename
<1>9. CASE Succeed \/ Crash
  BY <1>9 DEF Succeed, Crash, Slot!End, Slot!Next
<1>10. CASE Retry
  BY <1>10, SlotStutters DEF Retry, Slot!End, Slot!Next
<1>11. CASE GCApply
  <2>1. staging'.cut = TRUE
    <3>1. PICK e \in RemoveOne(staging) : staging' = [e EXCEPT !.cut = TRUE]
      BY <1>11 DEF GCApply, CutOne
    <3> QED
      BY <1>0, <3>1, RemoveOneType DEF Dir
  <2> QED
    BY <1>11, <2>1 DEF GCApply, Slot!Harm, Slot!Next
<1> QED
  BY <1>1, <1>2, <1>3, <1>4, <1>5, <1>6, <1>7, <1>8, <1>9, <1>10, <1>11 DEF Next, Orchestrator

\* WriteStaging, Finalize and the retry loop: at the image path a checkpoint is an
\* image slot, for any number of attempts and operations, whichever steps fail,
\* with crashes and the image GC.
THEOREM CheckpointImplementsSlot == Spec => ImplementsSlot
<1>1. Init => Slot!Init /\ Cleared
  BY DEF Init, Absent, Slot!Init, Cleared
<1>2. WholeInv /\ Cleared /\ [Next]_vars => Cleared'
  <2> SUFFICES ASSUME WholeInv, Cleared, [Next]_vars PROVE Cleared'
    OBVIOUS
  <2>1. CASE UNCHANGED vars
    BY <2>1 DEF vars, Cleared
  <2>2. CASE Next
    BY <2>2, ClearedStep DEF WholeInv
  <2> QED
    BY <2>1, <2>2
<1>3. WholeInv /\ Cleared /\ [Next]_vars => [Slot!Next]_(Slot!slot)
  <2> SUFFICES ASSUME WholeInv, Cleared, [Next]_vars PROVE [Slot!Next]_(Slot!slot)
    OBVIOUS
  <2>1. CASE UNCHANGED vars
    BY <2>1, SlotStutters DEF vars
  <2>2. CASE Next
    BY <2>2, SlotStep
  <2> QED
    BY <2>1, <2>2
<1> QED
  BY <1>1, <1>2, <1>3, WholeInit, WholeStep, PTL DEF Spec, ImplementsSlot, Slot!Spec
=============================================================================
