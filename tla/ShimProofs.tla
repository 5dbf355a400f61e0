----------------------------- MODULE ShimProofs -----------------------------
(***************************************************************************)
(* Shim and the tracker it works on, for any number of connections,        *)
(* threads, handles and work items.                                        *)
(*                                                                         *)
(* The safety of the tracker's two-step calls rests on ownership: a thread *)
(* between the halves of a create or destroy call is the only one that has *)
(* its handle, and no one else can get it while it is live and not         *)
(* tracked.  TrackerInv adds that to TrackerFaithful, and LaunchInv says   *)
(* the like of work items for CallbacksCounted.                            *)
(*                                                                         *)
(* ControlInv: a handler is only at labels of the request it serves, and   *)
(* spins at most MaxSpins times; with it TypeOK and StateAgreement are     *)
(* inductive.  DrainInv: what a quiescing handler still has to wait for,   *)
(* label by label, down to nothing.  ListInv: what a snapshot has listed   *)
(* when n shards have been visited.                                        *)
(***************************************************************************)
EXTENDS Shim, FiniteSetTheorems, TLAPS

-----------------------------------------------------------------------------
(* The tracker.                                                            *)

\* The handle a thread is creating or destroying exists in the driver, is not
\* tracked, and is no other thread's.
InFlight(t) == call[t].at \in {"track", "destroy"}

TrackerInv ==
  /\ TrackerTypeOK
  /\ TrackerFaithful
  /\ \A t \in Thread : InFlight(t) => call[t].h \in live \ tracked
  /\ \A t, u \in Thread : t # u /\ InFlight(t) /\ InFlight(u) => call[t].h # call[u].h

\* A thread inside cuLaunchHostFunc has a work item of its own that is entering.
LaunchInv ==
  /\ TrackerTypeOK
  /\ \A t \in Thread : call[t].at = "launch" => job[call[t].j] = "entering"
  /\ \A t, u \in Thread :
       t # u /\ call[t].at = "launch" /\ call[u].at = "launch" => call[t].j # call[u].j

\* The fields of a call record, by the half of the call the thread is at.
LEMMA CallFields ==
  ASSUME NEW c \in Call
  PROVE  /\ c.at \in {"none", "track", "destroy", "launch"}
         /\ c.at \in {"track", "destroy"} => c.h \in Handle
         /\ c.at = "launch" => c.j \in Job
BY DEF Call, NoCall

\* Every step of the application or the driver keeps the types.
LEMMA TypeStep ==
  ASSUME TrackerTypeOK, [TrackerNext]_trackerVars
  PROVE  TrackerTypeOK'
<1> USE DEF TrackerTypeOK
<1>1. ASSUME NEW t \in Thread, NEW h \in Handle, CreateReal(t, h)
      PROVE  TrackerTypeOK'
  BY <1>1 DEF CreateReal, Call
<1>2. ASSUME NEW t \in Thread, CreateTrack(t)
      PROVE  TrackerTypeOK'
  <2>1. call[t].h \in Handle
    BY <1>2, CallFields DEF CreateTrack
  <2> QED BY <1>2, <2>1 DEF CreateTrack, Track, Call
<1>3. ASSUME NEW t \in Thread, NEW h \in Handle, DestroyUntrack(t, h)
      PROVE  TrackerTypeOK'
  BY <1>3 DEF DestroyUntrack, Untrack, Call
<1>4. ASSUME NEW t \in Thread, DestroyReal(t)
      PROVE  TrackerTypeOK'
  BY <1>4 DEF DestroyReal, Call
<1>5. ASSUME NEW t \in Thread, NEW j \in Job, LaunchKernel(t, j)
      PROVE  TrackerTypeOK'
  BY <1>5 DEF LaunchKernel, JobState
<1>6. ASSUME NEW t \in Thread, NEW j \in Job, LaunchHostEnter(t, j)
      PROVE  TrackerTypeOK'
  BY <1>6 DEF LaunchHostEnter, HostCallbackEnter, JobState, Call
<1>7. ASSUME NEW t \in Thread, LaunchHostReal(t)
      PROVE  TrackerTypeOK'
  BY <1>7 DEF LaunchHostReal, JobState, Call
<1>8. ASSUME NEW t \in Thread, MarkUnsupported(t)
      PROVE  TrackerTypeOK'
  BY <1>8 DEF MarkUnsupported
<1>9. ASSUME NEW j \in Job, KernelDone(j) \/ HostWrap(j)
      PROVE  TrackerTypeOK'
  BY <1>9 DEF KernelDone, HostWrap, HostCallbackLeave, JobState
<1>10. CASE UNCHANGED trackerVars
  BY <1>10 DEF trackerVars
<1> QED
  BY <1>1, <1>2, <1>3, <1>4, <1>5, <1>6, <1>7, <1>8, <1>9, <1>10
     DEF TrackerNext, AppStep, DriverStep

\* Every step preserves the invariant.
LEMMA InvStep ==
  ASSUME TrackerInv, [TrackerNext]_trackerVars
  PROVE  TrackerInv'
<1>0. TrackerTypeOK'
  BY TypeStep DEF TrackerInv
<1>0a. TrackerTypeOK /\ \A t \in Thread : call[t] \in Call
  BY DEF TrackerInv, TrackerTypeOK
<1> USE DEF TrackerInv, TrackerFaithful, InFlight
<1>1. ASSUME NEW t \in Thread, NEW h \in Handle, CreateReal(t, h)
      PROVE  TrackerInv'
  BY <1>0, <1>0a, <1>1 DEF CreateReal, NoCall, TrackerTypeOK
<1>2. ASSUME NEW t \in Thread, CreateTrack(t)
      PROVE  TrackerInv'
  BY <1>0, <1>0a, <1>2 DEF CreateTrack, Track, NoCall, TrackerTypeOK
<1>3. ASSUME NEW t \in Thread, NEW h \in Handle, DestroyUntrack(t, h)
      PROVE  TrackerInv'
  BY <1>0, <1>0a, <1>3 DEF DestroyUntrack, Untrack, NoCall, TrackerTypeOK
<1>4. ASSUME NEW t \in Thread, DestroyReal(t)
      PROVE  TrackerInv'
  BY <1>0, <1>0a, <1>4 DEF DestroyReal, NoCall, TrackerTypeOK
<1>5. CASE UNCHANGED <<live, tracked, owned, call>>
  BY <1>0, <1>5
<1>6. ASSUME NEW t \in Thread, NEW j \in Job, LaunchHostEnter(t, j)
      PROVE  TrackerInv'
  BY <1>0, <1>0a, <1>6 DEF LaunchHostEnter, NoCall, TrackerTypeOK
<1>7. ASSUME NEW t \in Thread, LaunchHostReal(t)
      PROVE  TrackerInv'
  BY <1>0, <1>0a, <1>7 DEF LaunchHostReal, NoCall, TrackerTypeOK
<1> QED
  BY <1>1, <1>2, <1>3, <1>4, <1>5, <1>6, <1>7
     DEF TrackerNext, AppStep, DriverStep, LaunchKernel, MarkUnsupported, KernelDone,
         HostWrap, trackerVars

\* ... and the one on launches.
LEMMA LaunchStep ==
  ASSUME LaunchInv, [TrackerNext]_trackerVars
  PROVE  LaunchInv'
<1>0. TrackerTypeOK'
  BY TypeStep DEF LaunchInv
<1>0a. /\ TrackerTypeOK /\ TrackerTypeOK'
       /\ \A t \in Thread : call[t] \in Call
  BY <1>0 DEF LaunchInv, TrackerTypeOK
<1> USE DEF LaunchInv
<1>1. ASSUME NEW t \in Thread, UNCHANGED job, NEW x \in Call, x.at # "launch",
             call' = [call EXCEPT ![t] = x]
      PROVE  LaunchInv'
  BY <1>0a, <1>1 DEF TrackerTypeOK
<1>2. ASSUME NEW t \in Thread, \/ \E h \in Handle : CreateReal(t, h) \/ DestroyUntrack(t, h)
                               \/ CreateTrack(t) \/ DestroyReal(t)
      PROVE  LaunchInv'
  BY <1>1, <1>2 DEF CreateReal, CreateTrack, DestroyUntrack, DestroyReal, Call, NoCall
<1>3. ASSUME NEW t \in Thread, NEW j \in Job, LaunchKernel(t, j)
      PROVE  LaunchInv'
  BY <1>0a, <1>3, CallFields DEF LaunchKernel, TrackerTypeOK
<1>4. ASSUME NEW t \in Thread, NEW j \in Job, LaunchHostEnter(t, j)
      PROVE  LaunchInv'
  BY <1>0a, <1>4, CallFields DEF LaunchHostEnter, NoCall, TrackerTypeOK
<1>5. ASSUME NEW t \in Thread, LaunchHostReal(t)
      PROVE  LaunchInv'
  BY <1>0a, <1>5, CallFields DEF LaunchHostReal, NoCall, TrackerTypeOK
<1>6. ASSUME NEW j \in Job, KernelDone(j) \/ HostWrap(j)
      PROVE  LaunchInv'
  BY <1>0a, <1>6, CallFields DEF KernelDone, HostWrap, TrackerTypeOK
<1>7. CASE UNCHANGED <<call, job>>
  BY <1>0a, <1>7
<1> QED
  BY <1>2, <1>3, <1>4, <1>5, <1>6, <1>7
     DEF TrackerNext, AppStep, DriverStep, MarkUnsupported, trackerVars

\* The invariants hold before the first call.
LEMMA InvInit == TrackerInit => TrackerInv /\ LaunchInv /\ CallbacksCounted
<1> SUFFICES ASSUME TrackerInit PROVE TrackerInv /\ LaunchInv /\ CallbacksCounted
  OBVIOUS
<1>1. TrackerTypeOK
  BY DEF TrackerInit, TrackerTypeOK, Call, JobState
<1>2. \A t \in Thread : call[t].at = "none"
  BY DEF TrackerInit, NoCall
<1>3. CallbacksCounted
  <2>1. Pending = {}
    BY DEF TrackerInit, Pending
  <2> QED BY <2>1, FS_EmptySet DEF TrackerInit, CallbacksCounted
<1> QED
  BY <1>1, <1>2, <1>3 DEF TrackerInit, TrackerInv, LaunchInv, TrackerFaithful, InFlight

-----------------------------------------------------------------------------
(* The counter of host functions.                                          *)

\* Moving one work item into or out of Pending moves the cardinality by one.
LEMMA PendingCard ==
  ASSUME NEW S \in SUBSET Job, NEW j \in Job
  PROVE  /\ IsFiniteSet(S)
         /\ Cardinality(S) \in Nat
         /\ j \notin S => Cardinality(S \cup {j}) = Cardinality(S) + 1
         /\ j \in S => Cardinality(S \ {j}) = Cardinality(S) - 1
<1>1. IsFiniteSet(S)
  BY JobAssumption, FS_Subset
<1> QED
  BY <1>1, FS_CardinalityType, FS_AddElement, FS_RemoveElement

\* Every step keeps the counter equal to the number of pending host functions.
LEMMA CountStep ==
  ASSUME LaunchInv, CallbacksCounted, [TrackerNext]_trackerVars
  PROVE  CallbacksCounted'
<1>0. /\ job \in [Job -> JobState] /\ Pending \in SUBSET Job
      /\ \A t \in Thread : call[t] \in Call
  BY DEF LaunchInv, TrackerTypeOK, Pending
<1> USE DEF CallbacksCounted
<1>1. CASE UNCHANGED <<job, host_callbacks>>
  BY <1>1 DEF Pending
<1>2. ASSUME NEW t \in Thread, NEW j \in Job, LaunchKernel(t, j)
      PROVE  CallbacksCounted'
  <2>1. Pending' = Pending
    BY <1>0, <1>2 DEF LaunchKernel, Pending
  <2> QED BY <1>2, <2>1 DEF LaunchKernel
<1>3. ASSUME NEW t \in Thread, NEW j \in Job, LaunchHostEnter(t, j)
      PROVE  CallbacksCounted'
  <2>1. j \notin Pending /\ Pending' = Pending \cup {j}
    BY <1>0, <1>3 DEF LaunchHostEnter, Pending
  <2>2. Cardinality(Pending') = Cardinality(Pending) + 1
    BY <1>0, <2>1, PendingCard
  <2> QED BY <1>3, <2>2 DEF LaunchHostEnter, HostCallbackEnter
<1>4. ASSUME NEW t \in Thread, LaunchHostReal(t)
      PROVE  CallbacksCounted'
  <2>1. call[t].j \in Job /\ job[call[t].j] = "entering"
    BY <1>0, <1>4, CallFields DEF LaunchHostReal, LaunchInv
  <2>2. Pending' = Pending
    BY <1>0, <1>4, <2>1 DEF LaunchHostReal, Pending
  <2> QED BY <1>4, <2>2 DEF LaunchHostReal
<1>5. ASSUME NEW j \in Job, KernelDone(j)
      PROVE  CallbacksCounted'
  <2>1. Pending' = Pending
    BY <1>0, <1>5 DEF KernelDone, Pending
  <2> QED BY <1>5, <2>1 DEF KernelDone
<1>6. ASSUME NEW j \in Job, HostWrap(j)
      PROVE  CallbacksCounted'
  <2>1. j \in Pending /\ Pending' = Pending \ {j}
    BY <1>0, <1>6 DEF HostWrap, Pending
  <2>2. /\ Cardinality(Pending') = Cardinality(Pending) - 1
        /\ Cardinality(Pending') \in Nat /\ Cardinality(Pending) \in Nat
    BY <1>0, <2>1, PendingCard
  <2> QED BY <1>6, <2>2 DEF HostWrap, HostCallbackLeave
<1> QED
  BY <1>1, <1>2, <1>3, <1>4, <1>5, <1>6
     DEF TrackerNext, AppStep, DriverStep, CreateReal, CreateTrack, DestroyUntrack,
         DestroyReal, MarkUnsupported, trackerVars

-----------------------------------------------------------------------------

\* Type correctness of the tracker and the interposed calls.
THEOREM TrackerTypeCorrect == TrackerSpec => []TrackerTypeOK
<1>1. TrackerInit => TrackerTypeOK
  BY InvInit DEF TrackerInv
<1>2. TrackerTypeOK /\ [TrackerNext]_trackerVars => TrackerTypeOK'
  BY TypeStep
<1> QED
  BY <1>1, <1>2, PTL DEF TrackerSpec

\* However many threads create and destroy handles, and however fast the driver
\* hands an address out again, the tracker has every handle the application
\* may use and no handle that does not exist.
THEOREM TrackerIsFaithful == TrackerSpec => []TrackerFaithful
<1>1. TrackerInv /\ [TrackerNext]_trackerVars => TrackerInv'
  BY InvStep
<1>2. TrackerInv => TrackerFaithful
  BY DEF TrackerInv
<1> QED
  BY InvInit, <1>1, <1>2, PTL DEF TrackerSpec

\* The callback counter that the quiesce loop spins on counts exactly the host
\* functions that are entering, queued or lost in a failed launch.
THEOREM TrackerCounts == TrackerSpec => []CallbacksCounted
<1>1. LaunchInv /\ CallbacksCounted /\ [TrackerNext]_trackerVars
        => (LaunchInv /\ CallbacksCounted)'
  BY LaunchStep, CountStep
<1> QED
  BY InvInit, <1>1, PTL DEF TrackerSpec

-----------------------------------------------------------------------------
(* Types and the state word.                                               *)

QuiescePC == {"ctx", "streams", "events", "spin", "spinwait", "final"}

\* Label l belongs to a handler of request o whose loop counter is n.
Fits(l, o, n) ==
  /\ l \notin Closed => o \in Request
  /\ l \in QuiescePC => o \in {"freeze", "signal", "snapshot"}
  /\ l \in {"check", "shards", "copy"} => o = "snapshot"
  /\ l \in {"load", "clear", "modules", "map", "sync"} => o = "restore"
  /\ l = "mark" => o \in {"snapshot", "restore", "resume"}
  /\ l = "spinwait" => n < MaxSpins

ControlInv(c) == Fits(pc[c], op[c], loc[c].n)

ShimInv ==
  /\ TypeOK
  /\ StateAgreement
  /\ \A c \in Conn : ControlInv(c)

\* The locals of a handler have their fields, and the updates keep the type.
LEMMA LocalFields ==
  ASSUME NEW f \in Local
  PROVE  /\ f.wait \in SUBSET Job /\ f.scan \in SUBSET Handle /\ f.list \in SUBSET Ptr
         /\ f.n \in 0..LoopBound /\ f.held \in SUBSET Ptr /\ f.before \in SUBSET Job
         /\ \A w \in SUBSET Job : [f EXCEPT !.wait = w] \in Local
         /\ \A s \in SUBSET Handle : [f EXCEPT !.scan = s] \in Local
         /\ \A l \in SUBSET Ptr : [f EXCEPT !.list = l] \in Local
         /\ \A n \in 0..LoopBound : [f EXCEPT !.n = n] \in Local
BY DEF Local

\* The bounds of the two loops.
LEMMA LoopBounds ==
  /\ LoopBound \in Nat /\ MaxSpins <= LoopBound /\ kShards <= LoopBound
  /\ MaxSpins \in Nat /\ kShards \in Nat
BY ShimAssumption DEF LoopBound

\* A handler that has not begun.
LEMMA NoLocalType == NoLocal \in Local
BY LoopBounds DEF NoLocal, Local

\* A handler that goes on elsewhere with well-typed locals keeps the types and
\* the state word, and does not disturb the other handlers.
LEMMA GotoStep ==
  ASSUME ShimInv, NEW c \in Conn, NEW l \in PC, NEW f \in Local,
         pc[c] # "set",
         pc' = [pc EXCEPT ![c] = l], loc' = [loc EXCEPT ![c] = f], UNCHANGED op,
         faults' \in 0..MaxFaults, image' \subseteq SUBSET Ptr, TrackerTypeOK',
         UNCHANGED <<g_state, tr_state>>,
         Fits(l, op[c], f.n)
  PROVE  ShimInv'
<1>1. TypeOK'
  BY DEF ShimInv, TypeOK
<1>2. StateAgreement'
  BY DEF ShimInv, TypeOK, StateAgreement, HalfSet
<1>3. ASSUME NEW d \in Conn PROVE ControlInv(d)'
  BY DEF ShimInv, TypeOK, ControlInv
<1> QED
  BY <1>1, <1>2, <1>3 DEF ShimInv

\* So does one that answers.
LEMMA AnswerStep ==
  ASSUME ShimInv, NEW c \in Conn, NEW r \in {"ok", "err"},
         pc[c] # "set", Answer(c, r),
         faults' \in 0..MaxFaults, image' \subseteq SUBSET Ptr, TrackerTypeOK',
         UNCHANGED <<g_state, tr_state>>
  PROVE  ShimInv'
<1> USE NoLocalType
<1>1. TypeOK'
  BY DEF ShimInv, TypeOK, Answer, Closed, PC
<1>2. StateAgreement'
  BY DEF ShimInv, TypeOK, StateAgreement, HalfSet, Answer
<1>3. ASSUME NEW d \in Conn PROVE ControlInv(d)'
  BY DEF ShimInv, TypeOK, ControlInv, Fits, Answer, Closed, QuiescePC
<1> QED
  BY <1>1, <1>2, <1>3 DEF ShimInv

\* Types of what most steps leave alone or change by a failure.
LEMMA FaultType ==
  ASSUME TypeOK
  PROVE  /\ Fault => faults' \in 0..MaxFaults
         /\ UNCHANGED faults => faults' \in 0..MaxFaults
         /\ UNCHANGED image => image' \subseteq SUBSET Ptr
         /\ UNCHANGED trackerVars => TrackerTypeOK'
<1>1. UNCHANGED trackerVars => TrackerTypeOK'
  BY DEF TypeOK, TrackerTypeOK, trackerVars
<1> QED
  BY <1>1, ShimAssumption DEF TypeOK, Fault

\* A quiesce that fails ends the handler, or takes the signal handler to set_state.
LEMMA QuiesceFailedStep ==
  ASSUME ShimInv, NEW c \in Conn, pc[c] \in QuiescePC, QuiesceFailed(c),
         Fault \/ UNCHANGED faults, UNCHANGED <<trackerVars, g_state, tr_state, image>>
  PROVE  ShimInv'
<1>0. /\ TypeOK /\ pc[c] \notin {"set"} /\ pc[c] \notin Closed
      /\ faults' \in 0..MaxFaults /\ image' \subseteq SUBSET Ptr /\ TrackerTypeOK'
  BY FaultType DEF ShimInv, QuiescePC, Closed
<1>1. CASE op[c] = "signal"
  <2>1. /\ loc[c] \in Local /\ loc' = [loc EXCEPT ![c] = loc[c]]
        /\ pc' = [pc EXCEPT ![c] = "set"] /\ UNCHANGED op
    BY <1>0, <1>1 DEF QuiesceFailed, TypeOK
  <2>2. "set" \in PC /\ Fits("set", op[c], loc[c].n)
    BY <1>0, <1>1 DEF PC, Fits, Closed, QuiescePC, Request
  <2> QED
    BY <1>0, <2>1, <2>2, GotoStep
<1>2. CASE op[c] # "signal"
  BY <1>0, <1>2, AnswerStep DEF QuiesceFailed
<1> QED BY <1>1, <1>2

\* Every step of a handler keeps the types and the state word.
LEMMA HandlerStep ==
  ASSUME ShimInv, NEW c \in Conn, Handler(c)
  PROVE  ShimInv'
<1>0. /\ TypeOK /\ ControlInv(c) /\ loc[c] \in Local /\ op[c] \in Request \cup {"none"}
      /\ Queued \in SUBSET Job
  BY DEF ShimInv, TypeOK, Queued
<1>1. ASSUME QuiesceCtx(c) PROVE ShimInv'
  <2>1. pc[c] = "ctx" /\ UNCHANGED <<trackerVars, g_state, tr_state, image>>
    BY <1>1 DEF QuiesceCtx
  <2>2. CASE Fault /\ QuiesceFailed(c)
    BY <2>1, <2>2, QuiesceFailedStep DEF QuiescePC
  <2>3. CASE Goto(c, "streams", [loc[c] EXCEPT !.scan = tracked \cap Stream])
    <3>1. [loc[c] EXCEPT !.scan = tracked \cap Stream] \in Local
      BY <1>0 DEF Local, Handle
    <3>2. "streams" \in PC /\ \A n : Fits("streams", op[c], n)
      BY <1>0, <2>1 DEF ControlInv, Fits, PC, Closed, QuiescePC
    <3> QED BY <1>0, <2>1, <2>3, <3>1, <3>2, GotoStep, FaultType DEF Goto
  <2> QED BY <1>1, <2>2, <2>3 DEF QuiesceCtx
<1>2. ASSUME NEW h \in Stream \cup Event, QuiesceHandle(c, h) PROVE ShimInv'
  <2>1. pc[c] \in {"streams", "events"} /\ UNCHANGED <<trackerVars, g_state, tr_state, image>>
    BY <1>2 DEF QuiesceHandle
  <2>2. CASE QuiesceFailed(c) /\ (Fault \/ UNCHANGED faults)
    BY <2>1, <2>2, QuiesceFailedStep DEF QuiescePC
  <2>3. CASE Goto(c, pc[c], [loc[c] EXCEPT !.scan = @ \ {h}])
    <3>1. [loc[c] EXCEPT !.scan = @ \ {h}] \in Local
      BY <1>0 DEF Local
    <3>2. pc[c] \in PC /\ \A n : Fits(pc[c], op[c], n)
      BY <1>0, <2>1 DEF ControlInv, Fits, PC, Closed, QuiescePC
    <3> QED BY <1>0, <2>1, <2>3, <3>1, <3>2, GotoStep, FaultType DEF Goto
  <2> QED BY <1>2, <2>2, <2>3 DEF QuiesceHandle
<1>3. ASSUME QuiesceListed(c) PROVE ShimInv'
  <2>1. pc[c] \in {"streams", "events"} /\ UNCHANGED <<trackerVars, g_state, tr_state, image>>
    BY <1>3 DEF QuiesceListed
  <2>2. /\ {"events", "spin"} \subseteq PC
        /\ \A n : Fits("events", op[c], n) /\ Fits("spin", op[c], n)
    BY <1>0, <2>1 DEF ControlInv, Fits, PC, Closed, QuiescePC
  <2>3. CASE Goto(c, "events", [loc[c] EXCEPT !.scan = tracked \cap Event])
    <3>1. [loc[c] EXCEPT !.scan = tracked \cap Event] \in Local
      BY <1>0 DEF Local, Handle
    <3> QED BY <1>0, <2>1, <2>2, <2>3, <3>1, GotoStep, FaultType DEF Goto
  <2>4. CASE Goto(c, "spin", loc[c])
    BY <1>0, <2>1, <2>2, <2>4, GotoStep, FaultType DEF Goto
  <2> QED BY <1>3, <2>3, <2>4 DEF QuiesceListed
<1>4. ASSUME QuiesceSpin(c) PROVE ShimInv'
  <2>1. pc[c] = "spin" /\ UNCHANGED <<trackerVars, g_state, tr_state, image>>
    BY <1>4 DEF QuiesceSpin
  <2>2. CASE loc[c].n < MaxSpins /\ Goto(c, "spinwait", [loc[c] EXCEPT !.wait = Queued])
    <3>1. /\ [loc[c] EXCEPT !.wait = Queued] \in Local
          /\ [loc[c] EXCEPT !.wait = Queued].n = loc[c].n
      BY <1>0 DEF Local
    <3>2. "spinwait" \in PC /\ Fits("spinwait", op[c], loc[c].n)
      BY <1>0, <2>1, <2>2 DEF ControlInv, Fits, PC, Closed, QuiescePC
    <3> QED BY <1>0, <2>1, <2>2, <3>1, <3>2, GotoStep, FaultType DEF Goto
  <2>3. CASE Goto(c, "final", loc[c])
    <3>1. "final" \in PC /\ Fits("final", op[c], loc[c].n)
      BY <1>0, <2>1 DEF ControlInv, Fits, PC, Closed, QuiescePC
    <3> QED BY <1>0, <2>1, <2>3, <3>1, GotoStep, FaultType DEF Goto
  <2> QED BY <1>4, <2>2, <2>3 DEF QuiesceSpin, Synchronize
<1>5. ASSUME QuiesceSpinWait(c) PROVE ShimInv'
  <2>1. pc[c] = "spinwait" /\ UNCHANGED <<trackerVars, g_state, tr_state, image>>
    BY <1>5 DEF QuiesceSpinWait
  <2>2. CASE Fault /\ QuiesceFailed(c)
    BY <2>1, <2>2, QuiesceFailedStep DEF QuiescePC
  <2>3. CASE Goto(c, "spin", [loc[c] EXCEPT !.n = @ + 1])
    <3>1. loc[c].n \in Nat /\ loc[c].n + 1 \in 0..LoopBound
      BY <1>0, <2>1, LoopBounds DEF ControlInv, Fits, Local
    <3>2. [loc[c] EXCEPT !.n = @ + 1] \in Local
      BY <1>0, <3>1 DEF Local
    <3>3. "spin" \in PC /\ \A n : Fits("spin", op[c], n)
      BY <1>0, <2>1 DEF ControlInv, Fits, PC, Closed, QuiescePC
    <3> QED BY <1>0, <2>1, <2>3, <3>2, <3>3, GotoStep, FaultType DEF Goto
  <2> QED BY <1>5, <2>2, <2>3 DEF QuiesceSpinWait
<1>6. ASSUME QuiesceFinal(c) PROVE ShimInv'
  <2>1. pc[c] = "final" /\ UNCHANGED <<trackerVars, g_state, tr_state, image>>
    BY <1>6 DEF QuiesceFinal
  <2>2. CASE QuiesceFailed(c) /\ UNCHANGED faults
    BY <2>1, <2>2, QuiesceFailedStep DEF QuiescePC
  <2>3. CASE Goto(c, IF op[c] = "snapshot" THEN "shards" ELSE "set", [loc[c] EXCEPT !.n = 0])
    <3>1. [loc[c] EXCEPT !.n = 0] \in Local
      BY <1>0, LoopBounds DEF Local
    <3> DEFINE l == IF op[c] = "snapshot" THEN "shards" ELSE "set"
    <3>2. l \in PC /\ \A n : Fits(l, op[c], n)
      BY <1>0, <2>1 DEF ControlInv, Fits, PC, Closed, QuiescePC
    <3> QED BY <1>0, <2>1, <2>3, <3>1, <3>2, GotoStep, FaultType DEF Goto
  <2> QED BY <1>6, <2>2, <2>3 DEF QuiesceFinal
<1>7. ASSUME SnapshotCheck(c) PROVE ShimInv'
  <2>1. pc[c] = "check" /\ UNCHANGED <<trackerVars, g_state, tr_state, image>>
    BY <1>7 DEF SnapshotCheck
  <2>2. CASE Refuse(c)
    BY <1>0, <2>1, <2>2, AnswerStep, FaultType DEF Refuse
  <2>3. CASE Goto(c, "ctx", [loc[c] EXCEPT !.wait = Queued])
    <3>1. [loc[c] EXCEPT !.wait = Queued] \in Local
      BY <1>0 DEF Local
    <3>2. "ctx" \in PC /\ \A n : Fits("ctx", op[c], n)
      BY <1>0, <2>1 DEF ControlInv, Fits, PC, Closed, QuiescePC
    <3> QED BY <1>0, <2>1, <2>3, <3>1, <3>2, GotoStep, FaultType DEF Goto
  <2> QED BY <1>7, <2>2, <2>3 DEF SnapshotCheck, Synchronize
<1>8. ASSUME SnapshotShard(c) PROVE ShimInv'
  <2>1. pc[c] = "shards" /\ UNCHANGED <<trackerVars, g_state, tr_state, image>>
    BY <1>8 DEF SnapshotShard
  <2>2. /\ {"shards", "copy"} \subseteq PC
        /\ \A n : Fits("shards", op[c], n) /\ Fits("copy", op[c], n)
    BY <1>0, <2>1 DEF ControlInv, Fits, PC, Closed, QuiescePC
  <2>3. CASE /\ loc[c].n < kShards
             /\ Goto(c, "shards", [loc[c] EXCEPT !.list = @ \cup Shard(loc[c].n), !.n = @ + 1])
    <3>1. /\ loc[c].list \cup Shard(loc[c].n) \in SUBSET Ptr
          /\ loc[c].n + 1 \in 0..LoopBound
      BY <1>0, <2>3, LoopBounds DEF Local, Shard
    <3>2. [loc[c] EXCEPT !.list = @ \cup Shard(loc[c].n), !.n = @ + 1] \in Local
      BY <1>0, <3>1 DEF Local
    <3> QED BY <1>0, <2>1, <2>2, <2>3, <3>2, GotoStep, FaultType DEF Goto
  <2>4. CASE Goto(c, "copy", [loc[c] EXCEPT !.scan = loc[c].list])
    <3>1. [loc[c] EXCEPT !.scan = loc[c].list] \in Local
      BY <1>0 DEF Local, Handle
    <3> QED BY <1>0, <2>1, <2>2, <2>4, <3>1, GotoStep, FaultType DEF Goto
  <2> QED BY <1>8, <2>3, <2>4 DEF SnapshotShard
<1>9. ASSUME NEW p \in Ptr, SnapshotCopy(c, p) PROVE ShimInv'
  <2>1. pc[c] = "copy" /\ UNCHANGED <<trackerVars, g_state, tr_state, image>>
    BY <1>9 DEF SnapshotCopy
  <2>2. CASE Answer(c, "err") /\ (Fault \/ UNCHANGED faults)
    BY <1>0, <2>1, <2>2, AnswerStep, FaultType
  <2>3. CASE Goto(c, "copy", [loc[c] EXCEPT !.scan = @ \ {p}])
    <3>1. [loc[c] EXCEPT !.scan = @ \ {p}] \in Local
      BY <1>0 DEF Local
    <3>2. "copy" \in PC /\ \A n : Fits("copy", op[c], n)
      BY <1>0, <2>1 DEF ControlInv, Fits, PC, Closed, QuiescePC
    <3> QED BY <1>0, <2>1, <2>3, <3>1, <3>2, GotoStep, FaultType DEF Goto
  <2> QED BY <1>9, <2>2, <2>3 DEF SnapshotCopy, Refuse
<1>10. ASSUME SnapshotWrite(c) PROVE ShimInv'
  <2>1. pc[c] = "copy" /\ UNCHANGED <<trackerVars, g_state, tr_state>>
    BY <1>10 DEF SnapshotWrite
  <2>2. image' \subseteq SUBSET Ptr
    BY <1>0, <1>10 DEF SnapshotWrite, TypeOK, Local
  <2>3. CASE Answer(c, "err") /\ Fault
    BY <1>0, <2>1, <2>2, <2>3, AnswerStep, FaultType
  <2>4. CASE Goto(c, "mark", loc[c])
    <3>1. "mark" \in PC /\ Fits("mark", op[c], loc[c].n)
      BY <1>0, <2>1 DEF ControlInv, Fits, PC, Closed, QuiescePC
    <3> QED BY <1>0, <2>1, <2>2, <2>4, <3>1, GotoStep, FaultType DEF Goto
  <2> QED BY <1>10, <2>3, <2>4 DEF SnapshotWrite
<1>11. ASSUME RestoreLoad(c) PROVE ShimInv'
  <2>1. pc[c] = "load" /\ UNCHANGED <<trackerVars, g_state, tr_state, image>>
    BY <1>11 DEF RestoreLoad
  <2>2. CASE Answer(c, "err") /\ (Fault \/ UNCHANGED faults)
    BY <1>0, <2>1, <2>2, AnswerStep, FaultType
  <2>3. ASSUME NEW m \in image, Goto(c, "clear", [loc[c] EXCEPT !.list = m]) PROVE ShimInv'
    <3>1. [loc[c] EXCEPT !.list = m] \in Local
      BY <1>0 DEF Local, TypeOK
    <3>2. "clear" \in PC /\ \A n : Fits("clear", op[c], n)
      BY <1>0, <2>1 DEF ControlInv, Fits, PC, Closed, QuiescePC
    <3> QED BY <1>0, <2>1, <2>3, <3>1, <3>2, GotoStep, FaultType DEF Goto
  <2> QED BY <1>11, <2>2, <2>3 DEF RestoreLoad, Refuse
<1>12. ASSUME RestoreClear(c) PROVE ShimInv'
  <2>1. /\ pc[c] = "clear" /\ UNCHANGED <<g_state, tr_state, image, faults>>
        /\ Goto(c, "modules", loc[c])
    BY <1>12 DEF RestoreClear, Goto
  <2>2. TrackerTypeOK'
    BY <1>0, <1>12 DEF RestoreClear, TypeOK, TrackerTypeOK
  <2>3. "modules" \in PC /\ Fits("modules", op[c], loc[c].n)
    BY <1>0, <2>1 DEF ControlInv, Fits, PC, Closed, QuiescePC
  <2> QED BY <1>0, <2>1, <2>2, <2>3, GotoStep, FaultType DEF Goto
<1>13. ASSUME RestoreModules(c) PROVE ShimInv'
  <2>1. pc[c] = "modules" /\ UNCHANGED <<trackerVars, g_state, tr_state, image>>
    BY <1>13 DEF RestoreModules
  <2>2. CASE Answer(c, "err") /\ Fault
    BY <1>0, <2>1, <2>2, AnswerStep, FaultType
  <2>3. CASE Goto(c, "map", [loc[c] EXCEPT !.scan = loc[c].list])
    <3>1. [loc[c] EXCEPT !.scan = loc[c].list] \in Local
      BY <1>0 DEF Local, Handle
    <3>2. "map" \in PC /\ \A n : Fits("map", op[c], n)
      BY <1>0, <2>1 DEF ControlInv, Fits, PC, Closed, QuiescePC
    <3> QED BY <1>0, <2>1, <2>3, <3>1, <3>2, GotoStep, FaultType DEF Goto
  <2> QED BY <1>13, <2>2, <2>3 DEF RestoreModules
<1>14. ASSUME NEW p \in Ptr, RestoreMap(c, p) PROVE ShimInv'
  <2>1. pc[c] = "map" /\ UNCHANGED <<g_state, tr_state, image>>
    BY <1>14 DEF RestoreMap
  <2>2. TrackerTypeOK'
    BY <1>0, <1>14 DEF RestoreMap, Track, TypeOK, TrackerTypeOK, Handle
  <2>3. CASE Answer(c, "err") /\ (Fault \/ UNCHANGED faults)
    BY <1>0, <2>1, <2>2, <2>3, AnswerStep, FaultType
  <2>4. CASE Goto(c, "map", [loc[c] EXCEPT !.scan = @ \ {p}])
    <3>1. [loc[c] EXCEPT !.scan = @ \ {p}] \in Local
      BY <1>0 DEF Local
    <3>2. "map" \in PC /\ \A n : Fits("map", op[c], n)
      BY <1>0, <2>1 DEF ControlInv, Fits, PC, Closed, QuiescePC
    <3> QED BY <1>0, <2>1, <2>2, <2>4, <3>1, <3>2, GotoStep, FaultType DEF Goto
  <2> QED BY <1>14, <2>3, <2>4 DEF RestoreMap, Refuse
<1>15. ASSUME RestoreHtoD(c) PROVE ShimInv'
  <2>1. pc[c] = "map" /\ UNCHANGED <<trackerVars, g_state, tr_state, image>>
    BY <1>15 DEF RestoreHtoD
  <2>2. CASE Answer(c, "err") /\ Fault
    BY <1>0, <2>1, <2>2, AnswerStep, FaultType
  <2>3. CASE Goto(c, "sync", [loc[c] EXCEPT !.wait = Queued])
    <3>1. [loc[c] EXCEPT !.wait = Queued] \in Local
      BY <1>0 DEF Local
    <3>2. "sync" \in PC /\ \A n : Fits("sync", op[c], n)
      BY <1>0, <2>1 DEF ControlInv, Fits, PC, Closed, QuiescePC
    <3> QED BY <1>0, <2>1, <2>3, <3>1, <3>2, GotoStep, FaultType DEF Goto
  <2> QED BY <1>15, <2>2, <2>3 DEF RestoreHtoD, Synchronize
<1>16. ASSUME RestoreSync(c) PROVE ShimInv'
  <2>1. pc[c] = "sync" /\ UNCHANGED <<trackerVars, g_state, tr_state, image>>
    BY <1>16 DEF RestoreSync
  <2>2. CASE Answer(c, "err") /\ Fault
    BY <1>0, <2>1, <2>2, AnswerStep, FaultType
  <2>3. CASE Goto(c, "mark", loc[c])
    <3>1. "mark" \in PC /\ Fits("mark", op[c], loc[c].n)
      BY <1>0, <2>1 DEF ControlInv, Fits, PC, Closed, QuiescePC
    <3> QED BY <1>0, <2>1, <2>3, <3>1, GotoStep, FaultType DEF Goto
  <2> QED BY <1>16, <2>2, <2>3 DEF RestoreSync
<1>17. ASSUME Mark(c) PROVE ShimInv'
  <2>1. /\ pc[c] = "mark" /\ UNCHANGED <<trackerVars, image, op, loc, faults>>
        /\ pc' = [pc EXCEPT ![c] = "set"]
        /\ op[c] \in {"snapshot", "restore", "resume"}
    BY <1>0, <1>17 DEF Mark, Goto, TypeOK, ControlInv, Fits
  <2>2. tr_state' \in State /\ UNCHANGED g_state
    BY <1>17, <2>1 DEF Mark, Target, State
  <2>3. TypeOK'
    BY <1>0, <2>1, <2>2, FaultType DEF TypeOK, PC
  <2>4. HalfSet(c)'
    BY <1>0, <2>1 DEF HalfSet, TypeOK
  <2>5. ASSUME NEW d \in Conn PROVE ControlInv(d)'
    BY <1>0, <2>1 DEF ShimInv, ControlInv, Fits, TypeOK, Closed, QuiescePC, Request
  <2> QED BY <2>3, <2>4, <2>5 DEF ShimInv, StateAgreement
<1>18. ASSUME SetState(c) PROVE ShimInv'
  <2>1. op[c] \in Request
    BY <1>0, <1>18 DEF SetState, ControlInv, Fits, Closed
  <2>2. g_state' = tr_state' /\ g_state' \in State
    BY <1>18, <2>1 DEF SetState, Target, State, Request
  <2>3. TypeOK'
    BY <1>0, <1>18, <2>2, NoLocalType, FaultType DEF SetState, Answer, TypeOK, PC, Closed
  <2>4. ASSUME NEW d \in Conn PROVE ControlInv(d)'
    BY <1>0, <1>18 DEF SetState, Answer, ShimInv, ControlInv, Fits, TypeOK, Closed, QuiescePC
  <2> QED BY <2>2, <2>3, <2>4 DEF ShimInv, StateAgreement
<1> QED
  BY <1>1, <1>2, <1>3, <1>4, <1>5, <1>6, <1>7, <1>8, <1>9, <1>10, <1>11, <1>12, <1>13,
     <1>14, <1>15, <1>16, <1>17, <1>18
     DEF Handler, Quiesce, Snapshot, Restore

\* A request is accepted.
LEMMA AcceptStep ==
  ASSUME ShimInv, NEW c \in Conn, NEW o \in Op, Accept(c, o)
  PROVE  ShimInv'
<1>0. TypeOK /\ o \in Request
  BY ShimAssumption DEF ShimInv
<1>1. [NoLocal EXCEPT !.wait = Queued, !.held = owned \cap Ptr, !.before = Unfinished] \in Local
  BY NoLocalType DEF Local, NoLocal, Queued, Unfinished
<1>2. /\ pc'[c] \in {"ctx", "check", "load", "mark"}
      /\ op' = [op EXCEPT ![c] = o]
      /\ Fits(pc'[c], o, loc'[c].n)
      /\ pc' = [pc EXCEPT ![c] = pc'[c]]
  BY <1>0 DEF Accept, Request, TypeOK, Fits, Closed, QuiescePC
<1>3. TypeOK'
  BY <1>0, <1>1, <1>2, FaultType, ZenonT(60) DEF Accept, TypeOK, PC
<1>4. StateAgreement'
  BY <1>0, <1>2 DEF Accept, ShimInv, TypeOK, StateAgreement, HalfSet, Closed
<1>5. ASSUME NEW d \in Conn PROVE ControlInv(d)'
  BY <1>0, <1>2 DEF Accept, ShimInv, TypeOK, ControlInv
<1> QED
  BY <1>3, <1>4, <1>5 DEF ShimInv

\* What a step of the application does to the locals of a handler.
LEMMA AppLocals ==
  ASSUME AppMoves, NEW c \in Conn, loc[c] \in Local
  PROVE  /\ loc'[c] \in Local
         /\ loc'[c].n = loc[c].n /\ loc'[c].scan = loc[c].scan /\ loc'[c].list = loc[c].list
         /\ loc'[c].wait = loc[c].wait \cap Queued'
         /\ loc'[c].held = loc[c].held \cap owned'
         /\ loc'[c].before = loc[c].before \cap Unfinished'
<1>1. loc'[c] = [loc[c] EXCEPT !.wait = loc[c].wait \cap Queued',
                              !.held = loc[c].held \cap owned',
                              !.before = loc[c].before \cap Unfinished']
  BY DEF AppMoves, HandlersSee
<1> QED
  BY <1>1, ZenonT(60) DEF Local

\* The application or the driver moves.
LEMMA AppStepInv ==
  ASSUME ShimInv, AppMoves
  PROVE  ShimInv'
<1>0. TypeOK /\ TrackerTypeOK'
  BY TypeStep DEF ShimInv, TypeOK, AppMoves, HandlersSee
<1>1. ASSUME NEW c \in Conn PROVE loc'[c] \in Local /\ loc'[c].n = loc[c].n
  BY <1>0, AppLocals DEF TypeOK
<1>2. TypeOK'
  BY <1>0, <1>1 DEF AppMoves, HandlersSee, TypeOK
<1> QED
  BY <1>1, <1>2 DEF AppMoves, HandlersSee, ShimInv, StateAgreement, HalfSet, ControlInv

\* The invariant holds at first.
LEMMA ShimInit == Init => ShimInv
<1> SUFFICES ASSUME Init PROVE ShimInv
  OBVIOUS
<1>1. TrackerTypeOK
  BY InvInit DEF Init, TrackerInv
<1>2. TypeOK
  BY <1>1, NoLocalType, ShimAssumption DEF Init, NoRequests, TypeOK, State, PC, Closed
<1> QED
  BY <1>2 DEF Init, NoRequests, ShimInv, StateAgreement, ControlInv, Fits, Closed, QuiescePC

\* Every step keeps the invariant.
LEMMA ShimStep == ShimInv /\ [Next]_vars => ShimInv'
<1> SUFFICES ASSUME ShimInv, [Next]_vars PROVE ShimInv'
  OBVIOUS
<1>1. CASE UNCHANGED vars
  <2>1. TypeOK'
    BY <1>1, FaultType DEF vars, shimVars, ShimInv, TypeOK
  <2> QED
    BY <1>1, <2>1 DEF vars, shimVars, ShimInv, StateAgreement, HalfSet, ControlInv
<1> QED
  BY <1>1, HandlerStep, AcceptStep, AppStepInv DEF Next

\* Type correctness of the server and of the application it runs in, the bounds
\* of its loops included.
THEOREM ShimTypeCorrect == Spec => []TypeOK
<1>1. ShimInv => TypeOK
  BY DEF ShimInv
<1> QED
  BY ShimInit, ShimStep, <1>1, PTL DEF Spec

\* STATUS and STATS agree for any number of concurrent requests, in any order.
THEOREM StatesAgree == Spec => []StateAgreement
<1>1. ShimInv => StateAgreement
  BY DEF ShimInv
<1> QED
  BY ShimInit, ShimStep, <1>1, PTL DEF Spec

-----------------------------------------------------------------------------
(* Draining.                                                               *)

Kernels == {j \in Job : job[j] = "kernel"}

\* The work from before the request that is not finished: its kernels are among
\* what the context synchronize waits for, and gone once it has returned; its
\* host functions are in the counter.
Draining(c) ==
  /\ loc[c].before \subseteq Unfinished
  /\ pc[c] = "ctx" => loc[c].before \cap Kernels \subseteq loc[c].wait
  /\ pc[c] \in QuiescePC \ {"ctx"} => loc[c].before \cap Kernels = {}
  /\ op[c] \in {"freeze", "snapshot"} /\ pc[c] \in {"shards", "copy", "mark", "set"}
       => loc[c].before = {}

DrainInv ==
  /\ ShimInv
  /\ LaunchInv
  /\ CallbacksCounted
  /\ \A c \in Conn : Draining(c)

\* A counter of zero: no host function is entering or queued.
LEMMA ZeroMeansNone ==
  ASSUME TrackerTypeOK, CallbacksCounted, ~(host_callbacks > 0)
  PROVE  Unfinished \subseteq Kernels
<1>1. Pending \in SUBSET Job /\ IsFiniteSet(Pending)
  BY JobAssumption, FS_Subset DEF Pending
<1>2. Cardinality(Pending) = 0
  BY DEF TrackerTypeOK, CallbacksCounted
<1>3. Pending = {}
  BY <1>1, <1>2, FS_EmptySet
<1> QED
  BY <1>3 DEF Pending, Unfinished, Kernels

\* No step turns unfinished work into a kernel.
LEMMA KernelsAge ==
  ASSUME LaunchInv, TrackerNext
  PROVE  Unfinished \cap Kernels' \subseteq Kernels
<1>1. /\ job \in [Job -> JobState]
      /\ \A t \in Thread : call[t].at = "launch" => call[t].j \in Job
  BY CallFields DEF LaunchInv, TrackerTypeOK
<1> QED
  BY <1>1 DEF TrackerNext, AppStep, DriverStep, CreateReal, CreateTrack, DestroyUntrack,
     DestroyReal, LaunchKernel, LaunchHostEnter, LaunchHostReal, MarkUnsupported, KernelDone,
     HostWrap, Unfinished, Kernels

\* The handlers do not touch the application's calls and work.
LEMMA HandlerFrame ==
  ASSUME NEW c \in Conn, Handler(c) \/ \E o \in Op : Accept(c, o)
  PROVE  UNCHANGED <<owned, call, job, host_callbacks>>
BY DEF Handler, Quiesce, Snapshot, Restore, QuiesceCtx, QuiesceHandle, QuiesceListed,
   QuiesceSpin, QuiesceSpinWait, QuiesceFinal, SnapshotCheck, SnapshotShard, SnapshotCopy,
   SnapshotWrite, RestoreLoad, RestoreClear, RestoreModules, RestoreMap, RestoreHtoD,
   RestoreSync, Mark, SetState, Accept, trackerVars

\* A step of one handler leaves the program counters and locals of the others.
LEMMA HandlerLocal ==
  ASSUME TypeOK, NEW c \in Conn, Handler(c) \/ \E o \in Op : Accept(c, o),
         NEW d \in Conn, d # c
  PROVE  pc'[d] = pc[d] /\ op'[d] = op[d] /\ loc'[d] = loc[d]
BY DEF Handler, Quiesce, Snapshot, Restore, QuiesceCtx, QuiesceHandle, QuiesceListed,
   QuiesceSpin, QuiesceSpinWait, QuiesceFinal, SnapshotCheck, SnapshotShard, SnapshotCopy,
   SnapshotWrite, RestoreLoad, RestoreClear, RestoreModules, RestoreMap, RestoreHtoD,
   RestoreSync, Mark, SetState, Accept, Goto, Answer, Refuse, QuiesceFailed, Synchronize, TypeOK

\* A handler that answers has nothing more to wait for.
LEMMA AnswerDrains ==
  ASSUME TypeOK, NEW c \in Conn, NEW r \in {"ok", "err"}, Answer(c, r)
  PROVE  Draining(c)'
BY DEF TypeOK, Answer, NoLocal, Draining, QuiescePC

\* A quiesce that fails promises nothing: the signal handler goes on regardless.
LEMMA QuiesceFailedDrains ==
  ASSUME TypeOK, NEW c \in Conn, Draining(c), QuiesceFailed(c), UNCHANGED job
  PROVE  Draining(c)'
<1>1. CASE op[c] = "signal"
  BY <1>1 DEF TypeOK, QuiesceFailed, Draining, QuiescePC, Unfinished
<1>2. CASE op[c] # "signal"
  BY <1>2, AnswerDrains DEF QuiesceFailed
<1> QED BY <1>1, <1>2

\* Every step of a handler keeps its own account of what it waits for.
LEMMA HandlerDrains ==
  ASSUME DrainInv, NEW c \in Conn, Handler(c)
  PROVE  Draining(c)'
<1>0. /\ TypeOK /\ ControlInv(c) /\ loc[c] \in Local /\ Draining(c)
      /\ TrackerTypeOK /\ CallbacksCounted
      /\ UNCHANGED <<job, host_callbacks>>
      /\ Unfinished' = Unfinished /\ Kernels' = Kernels
  <2>1. UNCHANGED <<job, host_callbacks>>
    BY HandlerFrame
  <2> QED BY <2>1 DEF DrainInv, ShimInv, TypeOK, Unfinished, Kernels
<1>1. ASSUME QuiesceCtx(c) PROVE Draining(c)'
  <2>1. CASE QuiesceFailed(c)
    BY <1>0, <2>1, QuiesceFailedDrains
  <2>2. CASE loc[c].wait = {} /\ Goto(c, "streams", [loc[c] EXCEPT !.scan = tracked \cap Stream])
    <3>1. pc'[c] = "streams" /\ loc'[c].before = loc[c].before /\ pc[c] = "ctx"
      BY <1>0, <1>1, <2>2 DEF QuiesceCtx, Goto, TypeOK, Local
    <3> QED BY <1>0, <2>2, <3>1 DEF Draining, QuiescePC
  <2> QED BY <1>1, <2>1, <2>2 DEF QuiesceCtx, Synchronized
<1>2. ASSUME \/ \E h \in Stream \cup Event : QuiesceHandle(c, h)
             \/ QuiesceListed(c) \/ QuiesceSpin(c) \/ QuiesceSpinWait(c)
      PROVE  Draining(c)'
  <2>1. CASE QuiesceFailed(c)
    BY <1>0, <2>1, QuiesceFailedDrains
  <2>2. CASE ~QuiesceFailed(c)
    <3>1. /\ pc[c] \in QuiescePC \ {"ctx"} /\ pc'[c] \in QuiescePC \ {"ctx"}
          /\ loc'[c].before = loc[c].before
      BY <1>0, <1>2, <2>2 DEF QuiesceHandle, QuiesceListed, QuiesceSpin, QuiesceSpinWait,
         Synchronize, Goto, TypeOK, Local, QuiescePC
    <3> QED BY <1>0, <3>1 DEF Draining, QuiescePC
  <2> QED BY <2>1, <2>2
<1>3. ASSUME QuiesceFinal(c) PROVE Draining(c)'
  <2>1. CASE QuiesceFailed(c)
    BY <1>0, <2>1, QuiesceFailedDrains
  <2>2. CASE ~(host_callbacks > 0)
    <3>1. /\ pc[c] = "final" /\ pc'[c] \in {"shards", "set"}
          /\ loc'[c].before = loc[c].before
      BY <1>0, <1>3, <2>2 DEF QuiesceFinal, Goto, TypeOK, Local
    <3>2. loc[c].before = {}
      BY <1>0, <2>2, <3>1, ZeroMeansNone DEF Draining, QuiescePC
    <3> QED BY <3>1, <3>2 DEF Draining, QuiescePC
  <2> QED BY <1>3, <2>1, <2>2 DEF QuiesceFinal
<1>4. ASSUME SnapshotCheck(c) PROVE Draining(c)'
  <2>1. CASE Refuse(c)
    BY <1>0, <2>1, AnswerDrains DEF Refuse
  <2>2. CASE Goto(c, "ctx", [loc[c] EXCEPT !.wait = Queued])
    <3>1. pc'[c] = "ctx" /\ loc'[c].before = loc[c].before /\ loc'[c].wait = Queued
      BY <1>0, <2>2 DEF Goto, TypeOK, Local
    <3>2. Kernels \subseteq Queued
      BY DEF Kernels, Queued
    <3> QED BY <1>0, <3>1, <3>2 DEF Draining, QuiescePC
  <2> QED BY <1>4, <2>1, <2>2 DEF SnapshotCheck, Synchronize
<1>5. ASSUME \/ SnapshotShard(c) \/ SnapshotWrite(c) \/ Mark(c)
             \/ \E p \in Ptr : SnapshotCopy(c, p)
      PROVE  Draining(c)'
  <2>1. CASE Answer(c, "err")
    BY <1>0, <2>1, AnswerDrains
  <2>2. CASE ~Answer(c, "err")
    <3>1. /\ pc[c] \in {"shards", "copy", "mark"} /\ pc'[c] \in {"shards", "copy", "mark", "set"}
          /\ loc'[c].before = loc[c].before /\ op'[c] = op[c]
      <4>1. ASSUME SnapshotShard(c) PROVE <3>1!1 /\ <3>1!2
        <5>1. /\ pc[c] = "shards" /\ UNCHANGED op
              /\ \E f \in {[loc[c] EXCEPT !.list = @ \cup Shard(loc[c].n), !.n = @ + 1],
                          [loc[c] EXCEPT !.scan = loc[c].list]} :
                   /\ loc' = [loc EXCEPT ![c] = f]
                   /\ \E l \in {"shards", "copy"} : pc' = [pc EXCEPT ![c] = l]
          BY <4>1 DEF SnapshotShard, Goto
        <5>2. /\ [loc[c] EXCEPT !.list = @ \cup Shard(loc[c].n), !.n = @ + 1].before
                    = loc[c].before
              /\ [loc[c] EXCEPT !.scan = loc[c].list].before = loc[c].before
          BY <1>0 DEF Local
        <5> QED BY <1>0, <5>1, <5>2 DEF TypeOK
      <4>2. ASSUME SnapshotWrite(c) \/ Mark(c) PROVE <3>1!1 /\ <3>1!2
        BY <1>0, <2>2, <4>2 DEF SnapshotWrite, Mark, Goto, TypeOK
      <4>3. ASSUME NEW p \in Ptr, SnapshotCopy(c, p) PROVE <3>1!1 /\ <3>1!2
        BY <1>0, <2>2, <4>3 DEF SnapshotCopy, Refuse, Goto, TypeOK, Local
      <4> QED BY <1>5, <4>1, <4>2, <4>3
    <3> QED BY <1>0, <3>1 DEF Draining, QuiescePC
  <2> QED BY <2>1, <2>2
<1>6. ASSUME Restore(c) PROVE Draining(c)'
  <2>1. CASE Answer(c, "err")
    BY <1>0, <2>1, AnswerDrains
  <2>2. CASE ~Answer(c, "err")
    <3>1. /\ pc[c] \in {"load", "clear", "modules", "map", "sync"}
          /\ pc'[c] \in {"clear", "modules", "map", "sync", "mark"}
          /\ loc'[c].before = loc[c].before /\ op'[c] = op[c]
      BY <1>0, <1>6, <2>2 DEF Restore, RestoreLoad, RestoreClear, RestoreModules, RestoreMap,
         RestoreHtoD, RestoreSync, Synchronize, Refuse, Goto, TypeOK, Local
    <3>2. op[c] = "restore"
      BY <1>0, <3>1 DEF ControlInv, Fits
    <3> QED BY <1>0, <3>1, <3>2 DEF Draining, QuiescePC
  <2> QED BY <2>1, <2>2
<1>7. ASSUME SetState(c) PROVE Draining(c)'
  BY <1>0, <1>7, AnswerDrains DEF SetState
<1> QED
  BY <1>1, <1>2, <1>3, <1>4, <1>5, <1>6, <1>7 DEF Handler, Quiesce, Snapshot

\* Every step keeps the account of every handler.
LEMMA DrainStep == DrainInv /\ [Next]_vars => DrainInv'
<1> SUFFICES ASSUME DrainInv, [Next]_vars PROVE DrainInv'
  OBVIOUS
<1>1. ShimInv' /\ TypeOK
  BY ShimStep DEF DrainInv, ShimInv
<1>2. ASSUME UNCHANGED <<call, job, host_callbacks>>
      PROVE  LaunchInv' /\ CallbacksCounted'
  BY <1>1, <1>2 DEF DrainInv, ShimInv, TypeOK, LaunchInv, CallbacksCounted, Pending
<1>3. CASE UNCHANGED vars
  BY <1>1, <1>2, <1>3 DEF vars, trackerVars, shimVars, DrainInv, Draining, Unfinished, Kernels
<1>4. ASSUME NEW c \in Conn, Handler(c) \/ \E o \in Op : Accept(c, o)
      PROVE  DrainInv'
  <2>1. UNCHANGED <<call, job, host_callbacks>>
    BY <1>4, HandlerFrame
  <2>2. ASSUME NEW d \in Conn, d # c PROVE Draining(d)'
    BY <1>1, <1>4, <2>1, <2>2, HandlerLocal DEF DrainInv, Draining, Unfinished, Kernels
  <2>3. ASSUME NEW o \in Op, Accept(c, o) PROVE Draining(c)'
    <3>1. loc'[c].before = Unfinished /\ loc'[c].wait = Queued /\ op'[c] = o
      BY <1>1, <2>3 DEF Accept, TypeOK, NoLocal
    <3>1a. pc'[c] \in {"ctx", "check", "load", "mark"} /\ (pc'[c] = "mark" => o = "resume")
      BY <1>1, <2>3, ShimAssumption DEF Accept, TypeOK, Request
    <3>2. Kernels \subseteq Queued /\ Unfinished' = Unfinished /\ Kernels' = Kernels
      BY <2>1 DEF Kernels, Queued, Unfinished
    <3> QED BY <3>1, <3>1a, <3>2 DEF Draining, QuiescePC
  <2>4. Draining(c)'
    BY <1>4, <2>3, HandlerDrains
  <2> QED BY <1>1, <1>2, <2>1, <2>2, <2>4 DEF DrainInv
<1>5. CASE AppMoves
  <2>1. LaunchInv' /\ CallbacksCounted'
    BY <1>5, LaunchStep, CountStep DEF DrainInv, AppMoves, HandlersSee
  <2>2. ASSUME NEW c \in Conn PROVE Draining(c)'
    <3>1. /\ loc[c] \in Local /\ pc'[c] = pc[c] /\ op'[c] = op[c] /\ Draining(c)
          /\ Unfinished \cap Kernels' \subseteq Kernels
      BY <1>1, <1>5, KernelsAge DEF AppMoves, HandlersSee, TypeOK, DrainInv
    <3>2. /\ loc'[c].wait = loc[c].wait \cap Queued'
          /\ loc'[c].before = loc[c].before \cap Unfinished'
      BY <1>5, <3>1, AppLocals
    <3>3. Kernels' \subseteq Queued'
      BY DEF Kernels, Queued
    <3> QED BY <3>1, <3>2, <3>3 DEF Draining
  <2> QED BY <1>1, <2>1, <2>2 DEF DrainInv
<1> QED
  BY <1>3, <1>4, <1>5 DEF Next

\* A FREEZE or SNAPSHOT whose quiesce succeeds has waited for all the work from
\* before it, with any number of threads launching more all the time.
THEOREM QuiesceIsDrain == Spec => []QuiesceDrains
<1>1. Init => DrainInv
  <2>1. Init => \A c \in Conn : Draining(c)
    BY DEF Init, NoRequests, NoLocal, Draining, QuiescePC
  <2> QED BY <2>1, ShimInit, InvInit DEF Init, DrainInv
<1>2. DrainInv => QuiesceDrains
  BY DEF DrainInv, Draining, QuiesceDrains
<1> QED
  BY <1>1, <1>2, DrainStep, PTL DEF Spec

-----------------------------------------------------------------------------
(* Listing.                                                                *)

\* What the application has held since the request is in the listing as far as
\* the shards have been visited.
Listing(c) ==
  /\ loc[c].held \subseteq owned
  /\ pc[c] = "shards" => \A p \in loc[c].held : ShardOf[p] < loc[c].n => p \in loc[c].list
  /\ op[c] = "snapshot" /\ pc[c] \in {"copy", "mark", "set"} => loc[c].held \subseteq loc[c].list

ListInv ==
  /\ ShimInv
  /\ TrackerInv
  /\ \A c \in Conn : op[c] # "restore" /\ Listing(c)

\* A handler that answers has no listing.
LEMMA AnswerLists ==
  ASSUME TypeOK, NEW c \in Conn, NEW r \in {"ok", "err"}, Answer(c, r)
  PROVE  Listing(c)' /\ op'[c] # "restore"
BY DEF TypeOK, Answer, NoLocal, Listing

\* A SNAPSHOT whose quiesce fails lists nothing.
LEMMA QuiesceFailedLists ==
  ASSUME TypeOK, NEW c \in Conn, Listing(c), op[c] # "restore", QuiesceFailed(c),
         UNCHANGED owned
  PROVE  Listing(c)' /\ op'[c] # "restore"
<1>1. CASE op[c] = "signal"
  BY <1>1 DEF TypeOK, QuiesceFailed, Listing
<1>2. CASE op[c] # "signal"
  BY <1>2, AnswerLists DEF QuiesceFailed
<1> QED BY <1>1, <1>2

\* Every step of a handler keeps its own listing.
LEMMA HandlerLists ==
  ASSUME ListInv, NEW c \in Conn, Handler(c)
  PROVE  Listing(c)' /\ op'[c] # "restore"
<1>0. /\ TypeOK /\ ControlInv(c) /\ loc[c] \in Local /\ Listing(c) /\ op[c] # "restore"
      /\ UNCHANGED owned /\ owned \subseteq tracked
  <2>1. UNCHANGED owned
    BY HandlerFrame
  <2> QED BY <2>1 DEF ListInv, ShimInv, TypeOK, TrackerInv, TrackerFaithful
<1> DEFINE Good == Listing(c)' /\ op'[c] # "restore"
<1>1. ASSUME \/ QuiesceCtx(c) \/ QuiesceListed(c) \/ QuiesceSpin(c) \/ QuiesceSpinWait(c)
             \/ \E h \in Stream \cup Event : QuiesceHandle(c, h)
      PROVE  Good
  <2>1. CASE QuiesceFailed(c)
    BY <1>0, <2>1, QuiesceFailedLists
  <2>2. CASE ~QuiesceFailed(c)
    <3>1. /\ pc'[c] \in QuiescePC
          /\ loc'[c].held = loc[c].held /\ op'[c] = op[c]
      BY <1>0, <1>1, <2>2 DEF QuiesceCtx, QuiesceHandle, QuiesceListed, QuiesceSpin,
         QuiesceSpinWait, Synchronize, Goto, TypeOK, Local, QuiescePC
    <3> QED BY <1>0, <3>1 DEF Listing, QuiescePC
  <2> QED BY <2>1, <2>2
<1>2. ASSUME QuiesceFinal(c) PROVE Good
  <2>1. CASE QuiesceFailed(c)
    BY <1>0, <2>1, QuiesceFailedLists
  <2>2. CASE ~(host_callbacks > 0)
    <3>1. /\ pc'[c] = IF op[c] = "snapshot" THEN "shards" ELSE "set"
          /\ loc'[c].held = loc[c].held /\ loc'[c].n = 0 /\ op'[c] = op[c]
      BY <1>0, <1>2, <2>2 DEF QuiesceFinal, Goto, TypeOK, Local
    <3>2. \A p \in loc[c].held : ShardOf[p] \in Nat
      BY <1>0, ShimAssumption DEF Local
    <3> QED BY <1>0, <3>1, <3>2 DEF Listing
  <2> QED BY <1>2, <2>1, <2>2 DEF QuiesceFinal
<1>3. ASSUME SnapshotCheck(c) PROVE Good
  <2>1. CASE Refuse(c)
    BY <1>0, <2>1, AnswerLists DEF Refuse
  <2>2. CASE Goto(c, "ctx", [loc[c] EXCEPT !.wait = Queued])
    <3>1. pc'[c] = "ctx" /\ loc'[c].held = loc[c].held /\ op'[c] = op[c]
      BY <1>0, <2>2 DEF Goto, TypeOK, Local
    <3> QED BY <1>0, <3>1 DEF Listing
  <2> QED BY <1>3, <2>1, <2>2 DEF SnapshotCheck, Synchronize
<1>4. ASSUME SnapshotShard(c) PROVE Good
  <2>0. \A p \in loc[c].held : p \in Ptr /\ p \in tracked /\ ShardOf[p] \in 0..(kShards - 1)
    BY <1>0, ShimAssumption DEF Local, Listing
  <2>1. CASE /\ loc[c].n < kShards
             /\ Goto(c, "shards", [loc[c] EXCEPT !.list = @ \cup Shard(loc[c].n), !.n = @ + 1])
    <3>1. /\ pc'[c] = "shards" /\ op'[c] = op[c]
          /\ loc'[c] = [loc[c] EXCEPT !.list = loc[c].list \cup Shard(loc[c].n),
                                     !.n = loc[c].n + 1]
      BY <1>0, <2>1 DEF Goto, TypeOK
    <3>2. /\ loc'[c].held = loc[c].held /\ loc'[c].n = loc[c].n + 1
          /\ loc'[c].list = loc[c].list \cup Shard(loc[c].n)
      BY <1>0, <3>1 DEF Local
    <3>3. /\ loc[c].n \in Nat
          /\ \A p \in loc[c].held : ShardOf[p] < loc[c].n => p \in loc[c].list
      BY <1>0, <1>4, LoopBounds DEF Local, Listing, SnapshotShard
    <3>4. \A p \in loc[c].held : ShardOf[p] = loc[c].n => p \in Shard(loc[c].n)
      BY <2>0 DEF Shard
    <3>5. ASSUME NEW p \in loc[c].held, ShardOf[p] < loc[c].n + 1
          PROVE  p \in loc'[c].list
      <4>1. ShardOf[p] < loc[c].n \/ ShardOf[p] = loc[c].n
        BY <2>0, <3>3, <3>5 DEF Shard
      <4> QED BY <3>2, <3>3, <3>4, <4>1
    <3> QED BY <1>0, <3>1, <3>2, <3>5 DEF Listing
  <2>2. CASE /\ ~(loc[c].n < kShards)
             /\ Goto(c, "copy", [loc[c] EXCEPT !.scan = loc[c].list])
    <3>1. /\ pc'[c] = "copy" /\ op'[c] = op[c]
          /\ loc'[c].held = loc[c].held /\ loc'[c].list = loc[c].list
      BY <1>0, <2>2 DEF Goto, TypeOK, Local
    <3>2. \A p \in loc[c].held : ShardOf[p] < loc[c].n
      BY <1>0, <2>0, <2>2, LoopBounds DEF Local
    <3> QED BY <1>0, <1>4, <3>1, <3>2 DEF Listing, SnapshotShard
  <2> QED BY <1>4, <2>1, <2>2 DEF SnapshotShard
<1>5. ASSUME SnapshotWrite(c) \/ Mark(c) \/ \E p \in Ptr : SnapshotCopy(c, p) PROVE Good
  <2>1. CASE Answer(c, "err")
    BY <1>0, <2>1, AnswerLists
  <2>2. CASE ~Answer(c, "err")
    <3>1. /\ pc[c] \in {"copy", "mark"} /\ pc'[c] \in {"copy", "mark", "set"}
          /\ loc'[c].held = loc[c].held /\ loc'[c].list = loc[c].list /\ op'[c] = op[c]
      <4>1. ASSUME SnapshotWrite(c) \/ Mark(c) PROVE <3>1!1 /\ <3>1!2
        BY <1>0, <2>2, <4>1 DEF SnapshotWrite, Mark, Goto, TypeOK
      <4>2. ASSUME NEW p \in Ptr, SnapshotCopy(c, p) PROVE <3>1!1 /\ <3>1!2
        BY <1>0, <2>2, <4>2 DEF SnapshotCopy, Refuse, Goto, TypeOK, Local
      <4> QED BY <1>5, <4>1, <4>2
    <3> QED BY <1>0, <3>1 DEF Listing
  <2> QED BY <2>1, <2>2
<1>6. ~Restore(c)
  BY <1>0 DEF Restore, RestoreLoad, RestoreClear, RestoreModules, RestoreMap, RestoreHtoD,
     RestoreSync, ControlInv, Fits
<1>7. ASSUME SetState(c) PROVE Good
  BY <1>0, <1>7, AnswerLists DEF SetState
<1> QED
  BY <1>1, <1>2, <1>3, <1>4, <1>5, <1>6, <1>7 DEF Handler, Quiesce, Snapshot

\* Without a RESTORE the handlers leave the tracker alone.
LEMMA HandlerTrackerFrame ==
  ASSUME NEW c \in Conn, ControlInv(c), op[c] # "restore",
         Handler(c) \/ \E o \in Op : Accept(c, o)
  PROVE  UNCHANGED trackerVars
BY DEF Handler, Quiesce, Snapshot, Restore, QuiesceCtx, QuiesceHandle, QuiesceListed,
   QuiesceSpin, QuiesceSpinWait, QuiesceFinal, SnapshotCheck, SnapshotShard, SnapshotCopy,
   SnapshotWrite, RestoreLoad, RestoreClear, RestoreModules, RestoreMap, RestoreHtoD,
   RestoreSync, Mark, SetState, Accept, ControlInv, Fits

\* Every step keeps every listing, if no RESTORE is ever asked for.
LEMMA ListStep ==
  ASSUME "restore" \notin Op, ListInv, [Next]_vars
  PROVE  ListInv'
<1>1. ShimInv' /\ TypeOK
  BY ShimStep DEF ListInv, ShimInv
<1>2. ASSUME UNCHANGED trackerVars PROVE TrackerInv'
  BY <1>2, InvStep DEF ListInv
<1>3. CASE UNCHANGED vars
  BY <1>1, <1>2, <1>3 DEF vars, trackerVars, shimVars, ListInv, Listing
<1>4. ASSUME NEW c \in Conn, Handler(c) \/ \E o \in Op : Accept(c, o)
      PROVE  ListInv'
  <2>1. UNCHANGED trackerVars
    BY <1>4, HandlerTrackerFrame DEF ListInv, ShimInv
  <2>2. ASSUME NEW d \in Conn, d # c PROVE Listing(d)' /\ op'[d] # "restore"
    BY <1>1, <1>4, <2>1, <2>2, HandlerLocal DEF ListInv, Listing, trackerVars
  <2>3. ASSUME NEW o \in Op, Accept(c, o) PROVE Listing(c)' /\ op'[c] # "restore"
    <3>1. loc'[c].held = owned \cap Ptr /\ op'[c] = o
      BY <1>1, <2>3 DEF Accept, TypeOK, NoLocal
    <3>2. pc'[c] \in {"ctx", "check", "load", "mark"} /\ (pc'[c] = "mark" => o = "resume")
      BY <1>1, <2>3, ShimAssumption DEF Accept, TypeOK, Request
    <3> QED BY <2>1, <2>3, <3>1, <3>2 DEF Listing, trackerVars
  <2>4. Listing(c)' /\ op'[c] # "restore"
    BY <1>4, <2>3, HandlerLists
  <2> QED BY <1>1, <1>2, <2>1, <2>2, <2>4 DEF ListInv
<1>5. CASE AppMoves
  <2>1. TrackerInv'
    BY <1>5, InvStep DEF ListInv, AppMoves, HandlersSee
  <2>2. ASSUME NEW c \in Conn PROVE Listing(c)' /\ op'[c] # "restore"
    <3>1. /\ loc[c] \in Local /\ pc'[c] = pc[c] /\ op'[c] = op[c] /\ Listing(c)
          /\ op[c] # "restore"
      BY <1>1, <1>5 DEF AppMoves, HandlersSee, TypeOK, ListInv
    <3>2. /\ loc'[c].held = loc[c].held \cap owned'
          /\ loc'[c].list = loc[c].list /\ loc'[c].n = loc[c].n
      BY <1>5, <3>1, AppLocals
    <3> QED BY <3>1, <3>2 DEF Listing
  <2> QED BY <1>1, <2>1, <2>2 DEF ListInv
<1> QED
  BY <1>3, <1>4, <1>5 DEF Next

\* A snapshot lists every allocation that is held throughout it, for any number
\* of shards and of threads that allocate and free meanwhile, as long as no
\* RESTORE, which empties the tracker, is asked for in the same process.
THEOREM SnapshotIsComplete ==
  ASSUME "restore" \notin Op
  PROVE  Spec => []SnapshotComplete
<1>1. Init => ListInv
  <2>1. Init => \A c \in Conn : op[c] # "restore" /\ Listing(c)
    BY DEF Init, NoRequests, NoLocal, Listing
  <2> QED BY <2>1, ShimInit, InvInit DEF Init, ListInv
<1>2. ListInv /\ [Next]_vars => ListInv'
  BY ListStep
<1>3. ListInv => SnapshotComplete
  BY DEF ListInv, Listing, SnapshotComplete
<1> QED
  BY <1>1, <1>2, <1>3, PTL DEF Spec
=============================================================================
