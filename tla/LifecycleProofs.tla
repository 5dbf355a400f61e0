--------------------------- MODULE LifecycleProofs ---------------------------
(***************************************************************************)
(* Proofs about module Lifecycle: an application that was parked when its  *)
(* SNAPSHOT was asked for goes on, after CRIU and RESTORE, with the memory *)
(* it had, for any number of threads, allocations, work items, shards and  *)
(* failures, and however many checkpoints follow one another.              *)
(***************************************************************************)
EXTENDS Lifecycle, ShimProofs

-----------------------------------------------------------------------------
(* The inductive invariant, besides DrainInv of ShimProofs.                *)

Asks == {"none", "freeze", "snapshot", "dump", "restore", "resume"}
Hooks == {"run", "waitF", "wokeF", "between", "waitR", "wokeR"}

LifeType ==
  /\ hook \in [Thread -> Hooks]
  /\ mem \in [Ptr -> Value \cup {Garbage}]
  /\ copied \in [Ptr -> Value \cup {Garbage}]
  /\ saved \in [Ptr -> Value \cup {Garbage}]
  /\ asked \in Asks

GhostType == quiet \in BOOLEAN /\ sound \in BOOLEAN

\* From the dump until a RESTORE has succeeded the memory is in the image.
Away == asked = "dump" \/ (asked = "restore" /\ ~Answered({"ok"}))

\* What the application has in memory.
Kept == owned \cap Ptr

\* A thread in a hook is not in a call of the driver.
HookInv == \A t \in Thread : hook[t] # "run" => call[t] = NoCall

\* The orchestrator asks for one thing after the other, and what that says of the state.
AskInv ==
  /\ \A c \in Conn : IF pc[c] \in Closed THEN loc[c].before = {} ELSE op[c] = asked
  /\ asked = "dump" => Answered({"ok"})
  /\ asked = "freeze" /\ Answered({"ok"}) => g_state \in Frozen
  /\ asked = "snapshot" \/ Away => g_state \in Frozen

ParkInv == quiet = TRUE /\ (asked = "snapshot" \/ Away) => \A t \in Thread : hook[t] \in Parked

\* TrackerInv, of allocations alone: CRIU takes streams and events for good.
PtrInv ==
  /\ Kept \subseteq tracked
  /\ tracked \cap Ptr \subseteq live
  /\ \A t \in Thread : InFlight(t) /\ call[t].h \in Ptr => call[t].h \in live \ tracked
  /\ \A t, u \in Thread :
       t # u /\ InFlight(t) /\ InFlight(u) /\ call[t].h \in Ptr => call[t].h # call[u].h

DeviceInv == sound = TRUE /\ ~Away => PtrInv

\* The manifest has all of the memory.
Imaged == \A m \in image : Kept \subseteq m

Saving(c) ==
  /\ pc[c] \notin Closed => Unfinished \subseteq loc[c].before
  /\ pc[c] = "ok" => Queued = {}
  /\ pc[c] = "shards" => \A p \in Kept : ShardOf[p] < loc[c].n => p \in loc[c].list
  /\ pc[c] \in {"copy", "mark", "set"} => Kept \subseteq loc[c].list
  /\ pc[c] = "copy" => \A p \in loc[c].list \ loc[c].scan : copied[p] = mem[p]
  /\ pc[c] \in {"mark", "set", "ok"} => Imaged /\ \A p \in Kept : saved[p] = mem[p]

SaveInv == sound = TRUE /\ quiet = TRUE /\ asked = "snapshot" => \A c \in Conn : Saving(c)

Loading(c) ==
  /\ pc[c] \in {"clear", "modules", "map", "sync", "mark", "set"} => Kept \subseteq loc[c].list
  /\ pc[c] \in {"modules", "map", "sync", "mark", "set"} => tracked \subseteq live
  /\ pc[c] = "map" => Kept \ loc[c].scan \subseteq tracked
  /\ pc[c] \in {"sync", "mark", "set"} => Kept \subseteq tracked /\ \A p \in Kept : mem[p] = saved[p]

AwayInv ==
  sound = TRUE /\ Away =>
    /\ quiet = TRUE /\ Queued = {} /\ Imaged
    /\ \A m \in view, p \in Kept : saved[p] = m[p]
    /\ asked = "restore" => \A c \in Conn : Loading(c)

ViewInv ==
  view # {} =>
    /\ sound = TRUE
    /\ ~Away => Queued = {} /\ \A m \in view, p \in Kept : mem[p] = m[p]

LifeInv ==
  /\ LifeType /\ GhostType /\ HookInv /\ AskInv /\ ParkInv /\ DeviceInv
  /\ SaveInv /\ AwayInv /\ ViewInv

-----------------------------------------------------------------------------
(* The one connection.                                                     *)

\* There is one connection.
LEMMA OneConn ==
  ASSUME NEW c \in Conn
  PROVE  Conn = {c}
BY LifeAssumption

\* The orchestrator has its answer when that connection's handler has ended.
LEMMA AnsweredBy ==
  ASSUME NEW c \in Conn, NEW r
  PROVE  (Answered(r) <=> pc[c] \in r) /\ (Answered(r)' <=> pc'[c] \in r)
BY OneConn DEF Answered

\* What the invariant says of the one connection.
LEMMA LifeFacts ==
  ASSUME LifeInv, DrainInv, NEW c \in Conn
  PROVE  /\ TypeOK /\ TrackerTypeOK /\ ControlInv(c) /\ loc[c] \in Local /\ Draining(c)
         /\ pc[c] \in PC /\ op[c] \in Request \cup {"none"}
         /\ pc[c] \notin Closed => op[c] = asked
         /\ pc[c] \in Closed => loc[c].before = {}
         /\ job \in [Job -> JobState] /\ call \in [Thread -> Call]
BY DEF LifeInv, AskInv, DrainInv, ShimInv, TypeOK, TrackerTypeOK

\* Every step but CRIU's is a step of Shim, or none.
LEMMA LifeIsShim == LifeNext => Criu \/ [Next]_vars
<1> SUFFICES ASSUME LifeNext, ~Criu PROVE [Next]_vars
  OBVIOUS
<1>1. ASSUME NEW t \in Thread, WaitFrozen(t) \/ AppResumed(t) PROVE UNCHANGED vars
  BY <1>1 DEF WaitFrozen, AppResumed, Hook
<1>2. ThreadStep \/ DeviceStep => AppMoves
  BY DEF ThreadStep, DeviceStep, AppMoves, TrackerNext, DriverStep
<1>3. ASSUME NEW c \in Conn, ServerStep(c) \/ \E o \in Op : Ask(c, o)
      PROVE  Handler(c) \/ \E o \in Op : Accept(c, o)
  BY <1>3 DEF ServerStep, Ask
<1> QED
  BY <1>1, <1>2, <1>3 DEF LifeNext, Next

\* CRIU keeps the counter of host functions: those that were queued stay counted.
LEMMA CriuDrains == DrainInv /\ AskInv /\ Criu => DrainInv'
<1> SUFFICES ASSUME DrainInv, AskInv, Criu PROVE DrainInv'
  OBVIOUS
<1>1. /\ UNCHANGED <<tracked, owned, call, host_callbacks, bad, shimVars>> /\ live' = {}
      /\ job \in [Job -> JobState] /\ job' \in [Job -> JobState]
      /\ \A j \in Job : job'[j] = CASE job[j] = "kernel" -> "free"
                                    [] job[j] = "callback" -> "leaked"
                                    [] OTHER -> job[j]
  BY DEF Criu, DrainInv, ShimInv, TypeOK, TrackerTypeOK, JobState
<1>2. TrackerTypeOK'
  BY <1>1 DEF DrainInv, ShimInv, TypeOK, TrackerTypeOK
<1>3. ShimInv'
  BY <1>1, <1>2 DEF DrainInv, ShimInv, TypeOK, StateAgreement, HalfSet, ControlInv, shimVars
<1>4. LaunchInv'
  <2>1. \A t \in Thread : call[t].at = "launch" => call[t].j \in Job /\ job[call[t].j] = "entering"
    BY CallFields DEF DrainInv, LaunchInv, TrackerTypeOK
  <2> QED
    BY <1>1, <1>2, <2>1 DEF DrainInv, LaunchInv
<1>5. Pending' = Pending
  BY <1>1 DEF Pending
<1>6. ASSUME NEW c \in Conn PROVE Draining(c)'
  <2>1. Conn = {c} /\ pc[c] = "ok"
    BY OneConn DEF Criu, Answered
  <2>2. /\ pc'[c] = pc[c] /\ loc'[c] = loc[c]
    BY <1>1 DEF shimVars
  <2>3. loc[c].before = {}
    BY <2>1 DEF AskInv, Closed
  <2> QED
    BY <2>1, <2>2, <2>3 DEF Draining, QuiescePC
<1> QED
  BY <1>1, <1>3, <1>4, <1>5, <1>6 DEF DrainInv, CallbacksCounted

\* The invariant holds at first.
LEMMA LifeInitInv == LifeInit => LifeInv /\ DrainInv
<1> SUFFICES ASSUME LifeInit PROVE LifeInv /\ DrainInv
  OBVIOUS
<1>1. DrainInv
  <2>1. \A c \in Conn : Draining(c)
    BY DEF LifeInit, Init, NoRequests, NoLocal, Draining, QuiescePC
  <2> QED BY <2>1, ShimInit, InvInit DEF LifeInit, Init, DrainInv
<1>2. LifeType /\ HookInv
  BY DEF LifeInit, LifeType, HookInv, Blank, Hooks, Asks
<1>3. GhostType
  BY DEF LifeInit, GhostType
<1>4. AskInv /\ ParkInv /\ SaveInv /\ AwayInv /\ ViewInv
  BY DEF LifeInit, Init, NoRequests, NoLocal, AskInv, Away, ParkInv, SaveInv, AwayInv, ViewInv, Closed
<1>5. DeviceInv
  BY DEF LifeInit, Init, TrackerInit, DeviceInv, PtrInv, Kept, InFlight, NoCall
<1> QED
  BY <1>1, <1>2, <1>3, <1>4, <1>5 DEF LifeInv

-----------------------------------------------------------------------------
(* The application.                                                        *)

\* A thread goes into a hook or comes out of one: it stays parked as long as the
\* memory is being saved or is away.
LEMMA HookStep ==
  ASSUME LifeInv, NEW t \in Thread, WaitFrozen(t) \/ AppResumed(t)
  PROVE  LifeInv'
<1> USE DEF LifeInv
<1>1. /\ UNCHANGED <<vars, mem, copied, saved, asked, quiet, sound, view>>
      /\ UNCHANGED <<live, tracked, owned, call, job>>
      /\ UNCHANGED <<g_state, pc, op, loc, image>>
  BY DEF WaitFrozen, AppResumed, Hook, vars, trackerVars, shimVars
<1>2. /\ hook' = [hook EXCEPT ![t] = hook'[t]] /\ hook'[t] \in Hooks
      /\ hook[t] = "run" => call[t] = NoCall
      /\ hook[t] \in Parked /\ g_state \in Frozen => hook'[t] \in Parked
  BY DEF WaitFrozen, AppResumed, Hook, LifeType, Hooks, Parked, Frozen, Resumed
<1>3. LifeType' /\ HookInv'
  BY <1>1, <1>2 DEF LifeType, HookInv
<1>4. GhostType'
  BY <1>1, Zenon DEF GhostType
<1>5. (Away' <=> Away) /\ Kept' = Kept /\ Queued' = Queued /\ Unfinished' = Unfinished
  BY <1>1 DEF Away, Answered, Kept, Queued, Unfinished
<1>6. AskInv'
  BY <1>1, <1>5 DEF AskInv, Answered
<1>7. ParkInv'
  BY <1>1, <1>2, <1>5 DEF ParkInv, AskInv, LifeType
<1>8. DeviceInv'
  BY <1>1, <1>5 DEF DeviceInv, PtrInv, InFlight
<1>9. SaveInv'
  BY <1>1, <1>5 DEF SaveInv, Saving, Imaged
<1>10. AwayInv'
  BY <1>1, <1>5 DEF AwayInv, Loading, Imaged
<1>11. ViewInv'
  BY <1>1, <1>5 DEF ViewInv
<1> QED
  BY <1>3, <1>4, <1>6, <1>7, <1>8, <1>9, <1>10, <1>11

\* The two halves of the application's calls, as in InvStep, for
\* allocations alone.
LEMMA PtrStep ==
  ASSUME TrackerTypeOK, PtrInv, NEW t \in Thread, AppStep(t)
  PROVE  PtrInv'
<1>0. \A u \in Thread : call[u] \in Call
  BY DEF TrackerTypeOK
<1> USE DEF PtrInv, Kept, InFlight
<1>1. ASSUME NEW h \in Handle, CreateReal(t, h)
      PROVE  PtrInv'
  BY <1>0, <1>1 DEF CreateReal, NoCall, TrackerTypeOK
<1>2. ASSUME CreateTrack(t)
      PROVE  PtrInv'
  BY <1>0, <1>2 DEF CreateTrack, Track, NoCall, TrackerTypeOK
<1>3. ASSUME NEW h \in Handle, DestroyUntrack(t, h)
      PROVE  PtrInv'
  BY <1>0, <1>3 DEF DestroyUntrack, Untrack, NoCall, TrackerTypeOK
<1>4. ASSUME DestroyReal(t)
      PROVE  PtrInv'
  BY <1>0, <1>4 DEF DestroyReal, NoCall, TrackerTypeOK
<1>5. CASE UNCHANGED <<live, tracked, owned, call>>
  BY <1>5
<1>6. ASSUME NEW j \in Job, LaunchHostEnter(t, j)
      PROVE  PtrInv'
  BY <1>0, <1>6 DEF LaunchHostEnter, NoCall, TrackerTypeOK
<1>7. ASSUME LaunchHostReal(t)
      PROVE  PtrInv'
  BY <1>0, <1>7 DEF LaunchHostReal, NoCall, TrackerTypeOK
<1> QED
  BY <1>1, <1>2, <1>3, <1>4, <1>5, <1>6, <1>7
     DEF AppStep, LaunchKernel, MarkUnsupported

\* What a step of the application or of the driver leaves alone.
LEMMA AppFrame ==
  ASSUME LifeInv, DrainInv, AppMoves, asked' = asked
  PROVE  /\ UNCHANGED <<g_state, pc, op, image>>
         /\ Away' <=> Away
         /\ \A c \in Conn : pc[c] \in Closed => loc'[c].before = {}
         /\ AskInv'
<1>1. UNCHANGED <<g_state, pc, op, image>>
  BY DEF AppMoves, HandlersSee
<1>2. Away' <=> Away
  BY <1>1 DEF Away, Answered
<1>3. ASSUME NEW c \in Conn, pc[c] \in Closed PROVE loc'[c].before = {}
  BY <1>3, LifeFacts, AppLocals
<1>4. AskInv'
  BY <1>1, <1>2, <1>3 DEF LifeInv, AskInv, Answered
<1> QED
  BY <1>1, <1>2, <1>3, <1>4

\* A thread uses the GPU: then the memory is neither being saved of a parked
\* application nor away.
LEMMA ThreadStepInv ==
  ASSUME LifeInv, DrainInv, ThreadStep
  PROVE  LifeInv'
<1> USE DEF LifeInv
<1>1. PICK t \in Thread : hook[t] = "run" /\ AppStep(t)
  BY DEF ThreadStep
<1>2. /\ AppMoves /\ UNCHANGED <<hook, mem, copied, saved, asked, sound>>
      /\ quiet' = FALSE /\ view' = {}
  BY DEF ThreadStep, AppMoves, TrackerNext
<1>3. (Away' <=> Away) /\ AskInv'
  BY <1>2, AppFrame
<1>4. LifeType'
  BY <1>2 DEF LifeType
<1>5. GhostType'
  BY <1>2, Zenon DEF GhostType
<1>6. HookInv'
  <2>1. \A u \in Thread : u # t => call'[u] = call[u]
    BY <1>1 DEF DrainInv, LaunchInv, TrackerTypeOK, AppStep, CreateReal, DestroyUntrack, CreateTrack, DestroyReal, LaunchKernel,
       LaunchHostEnter, LaunchHostReal, MarkUnsupported
  <2> QED
    BY <1>1, <1>2, <2>1 DEF HookInv
<1>7. ~(sound = TRUE /\ Away)
  BY <1>1 DEF AwayInv, ParkInv, Parked
<1>8. DeviceInv'
  <2>1. TrackerTypeOK
    BY DEF DrainInv, ShimInv, TypeOK
  <2> QED
    BY <1>1, <1>2, <1>3, <2>1, PtrStep DEF DeviceInv
<1>9. ParkInv' /\ SaveInv' /\ AwayInv' /\ ViewInv'
  BY <1>2, <1>3, <1>7 DEF ParkInv, SaveInv, AwayInv, ViewInv
<1> QED
  BY <1>3, <1>4, <1>5, <1>6, <1>8, <1>9

\* A kernel ends, or a host function runs: then what SNAPSHOT saves has not been
\* copied yet, and what the application had at the dump is still away or gone on with.
LEMMA DeviceStepInv ==
  ASSUME LifeInv, DrainInv, DeviceStep
  PROVE  LifeInv'
<1> USE DEF LifeInv
<1>1. PICK j \in Job : \/ KernelDone(j) /\ \E p \in Ptr, v \in Value : mem' = [mem EXCEPT ![p] = v]
                       \/ HostWrap(j) /\ UNCHANGED mem
  BY DEF DeviceStep
<1>2. /\ AppMoves /\ UNCHANGED <<hook, copied, saved, asked, quiet, sound, view>>
  BY DEF DeviceStep, AppMoves, TrackerNext, DriverStep
<1>3. (Away' <=> Away) /\ AskInv' /\ UNCHANGED <<g_state, pc, op, image>>
  BY <1>2, AppFrame
<1>4. /\ UNCHANGED <<live, tracked, owned, call>>
      /\ job[j] \in {"kernel", "callback"} /\ job' = [job EXCEPT ![j] = "free"]
      /\ job \in [Job -> JobState]
  BY <1>1 DEF KernelDone, HostWrap, DrainInv, ShimInv, TypeOK, TrackerTypeOK
<1>5. Queued # {} /\ Unfinished # {} /\ Unfinished' \subseteq Unfinished /\ Kept' = Kept
  BY <1>4 DEF Queued, Unfinished, Kept
<1>6. LifeType'
  BY <1>1, <1>2 DEF LifeType
<1>7. GhostType'
  BY <1>2, Zenon DEF GhostType
<1>8. HookInv' /\ ParkInv'
  BY <1>2, <1>3, <1>4 DEF HookInv, ParkInv
<1>9. DeviceInv'
  BY <1>2, <1>3, <1>4, <1>5 DEF DeviceInv, PtrInv, InFlight
<1>10. SaveInv'
  <2> SUFFICES ASSUME NEW c \in Conn, sound = TRUE, quiet = TRUE, asked = "snapshot"
               PROVE  Saving(c)'
    BY <1>2 DEF SaveInv
  <2>1. /\ Saving(c) /\ Draining(c) /\ loc[c] \in Local /\ pc'[c] = pc[c]
        /\ pc[c] \notin Closed => op[c] = "snapshot"
    BY <1>3, LifeFacts DEF SaveInv
  <2>2. pc[c] \notin {"shards", "copy", "mark", "set", "ok"}
    BY <1>5, <2>1 DEF Saving, Draining, Closed
  <2>3. loc'[c].before = loc[c].before \cap Unfinished'
    BY <1>2, <2>1, AppLocals
  <2> QED
    BY <1>5, <2>1, <2>2, <2>3 DEF Saving
<1>11. AwayInv' /\ ViewInv'
  BY <1>2, <1>3, <1>5 DEF AwayInv, ViewInv
<1> QED
  BY <1>3, <1>6, <1>7, <1>8, <1>9, <1>10, <1>11

-----------------------------------------------------------------------------
(* The orchestrator and CRIU.                                              *)

\* The orchestrator asks for something.
LEMMA AskStep ==
  ASSUME LifeInv, DrainInv, NEW c \in Conn, NEW o \in Op, Ask(c, o)
  PROVE  LifeInv'
<1> USE DEF LifeInv
<1>1. /\ UNCHANGED <<live, tracked, owned, call, job>> /\ UNCHANGED <<g_state, image>>
      /\ UNCHANGED <<hook, mem, saved, sound, view>>
      /\ asked' = o /\ pc[c] \in Closed /\ MayAsk(o) /\ Accept(c, o)
  BY DEF Ask, Accept, trackerVars
<1>2. Conn = {c}
  BY OneConn
<1>3. /\ pc'[c] \in {"ctx", "check", "load", "mark"} /\ op'[c] = o
      /\ o = "snapshot" => pc'[c] = "check"
      /\ o = "restore" => pc'[c] = "load"
      /\ loc'[c].before = Unfinished
      /\ o \in {"freeze", "snapshot", "restore", "resume"}
  <2>1. TypeOK
    BY LifeFacts
  <2> QED
    BY <1>1, <2>1, ShimAssumption DEF Accept, TypeOK, NoLocal, Request, MayAsk
<1>4. /\ pc'[c] \notin Closed
      /\ Kept' = Kept /\ Queued' = Queued /\ Unfinished' = Unfinished
  BY <1>1, <1>3 DEF Closed, Kept, Queued, Unfinished
<1>5. (Away' <=> o = "restore") /\ (o = "restore" => Away)
  BY <1>1, <1>2, <1>3 DEF Away, Answered, MayAsk
<1>6. LifeType'
  BY <1>1, <1>3 DEF LifeType, Asks, Ask, Blank
<1>7. GhostType'
  BY Zenon DEF GhostType, Ask
<1>8. HookInv'
  BY <1>1 DEF HookInv
<1>9. AskInv'
  <2>1. o = "snapshot" => g_state \in Frozen
    BY <1>1 DEF MayAsk, AskInv
  <2>2. o = "restore" => g_state \in Frozen
    BY <1>5 DEF AskInv
  <2> QED
    BY <1>1, <1>2, <1>3, <1>4, <1>5, <2>1, <2>2 DEF AskInv, Answered, Closed
<1>10. ParkInv'
  <2>1. CASE o = "snapshot"
    BY <1>1, <2>1 DEF ParkInv, Ask
  <2>2. CASE o # "snapshot"
    BY <1>1, <1>5, <2>2 DEF ParkInv, Ask
  <2> QED BY <2>1, <2>2
<1>11. DeviceInv'
  <2>1. o # "restore" /\ sound = TRUE => ~Away
    BY <1>1, <1>2, <1>3 DEF Away, MayAsk, Answered
  <2> QED
    BY <1>1, <1>4, <1>5, <2>1 DEF DeviceInv, PtrInv, InFlight
<1>12. SaveInv'
  BY <1>1, <1>2, <1>3, <1>4 DEF SaveInv, Saving, Closed
<1>13. AwayInv'
  <2>1. o = "restore" => quiet' = quiet
    BY <1>1 DEF Ask
  <2> QED
    BY <1>1, <1>2, <1>3, <1>4, <1>5, <2>1 DEF AwayInv, Loading, Imaged
<1>14. ViewInv'
  <2>1. o # "restore" /\ sound = TRUE => ~Away
    BY <1>1, <1>2, <1>3 DEF Away, MayAsk, Answered
  <2> QED
    BY <1>1, <1>4, <1>5, <2>1 DEF ViewInv
<1> QED
  BY <1>6, <1>7, <1>8, <1>9, <1>10, <1>11, <1>12, <1>13, <1>14

\* CRIU: what was in memory is in the image, all of it if the application was parked.
LEMMA CriuStep ==
  ASSUME LifeInv, DrainInv, Criu
  PROVE  LifeInv'
<1> USE DEF LifeInv
<1>1. /\ UNCHANGED <<owned, call, tracked, hook, copied, saved, quiet>> /\ UNCHANGED <<g_state, pc, op, loc, image>>
      /\ asked = "snapshot" /\ asked' = "dump" /\ Answered({"ok"}) /\ mem' = Blank
  BY DEF Criu, shimVars
<1>2. Away' /\ Kept' = Kept
  BY <1>1 DEF Away, Kept
<1>3. Queued' = {}
  BY DEF Criu, Queued
<1>4. LifeType'
  BY <1>1 DEF LifeType, Blank, Asks
<1>5. sound' \in BOOLEAN /\ quiet' \in BOOLEAN
  BY Zenon DEF Criu, GhostType
<1>5a. sound' = TRUE => sound = TRUE /\ quiet = TRUE /\ view' = {mem}
  BY Zenon DEF Criu, GhostType
<1>5b. sound' # TRUE => view' = {}
  BY <1>5, Zenon DEF Criu
<1>6. HookInv'
  BY <1>1 DEF HookInv
<1>7. AskInv'
  <2>1. \A c \in Conn : pc[c] = "ok" /\ pc[c] \in Closed
    BY <1>1 DEF Answered, Closed
  <2> QED
    BY <1>1, <2>1 DEF AskInv, Answered
<1>8. ParkInv'
  BY <1>1 DEF ParkInv
<1>9. DeviceInv'
  BY <1>2 DEF DeviceInv
<1>10. SaveInv'
  BY <1>1 DEF SaveInv
<1>11. AwayInv'
  <2> SUFFICES ASSUME sound' = TRUE
               PROVE  /\ quiet' = TRUE /\ Queued' = {} /\ Imaged'
                      /\ \A m \in view', p \in Kept' : saved'[p] = m[p]
    BY <1>1 DEF AwayInv
  <2>1. sound = TRUE /\ quiet = TRUE /\ view' = {mem}
    BY <1>5a
  <2>2. PICK c \in Conn : Conn = {c}
    BY LifeAssumption
  <2>3. pc[c] = "ok" /\ Saving(c)
    BY <1>1, <2>1, <2>2 DEF SaveInv, Answered
  <2>4. Imaged /\ \A p \in Kept : saved[p] = mem[p]
    BY <2>3 DEF Saving
  <2> QED
    BY <1>1, <1>2, <1>3, <2>1, <2>4 DEF Imaged
<1>12. ViewInv'
  BY <1>2, <1>5, <1>5a, <1>5b DEF ViewInv
<1> QED
  BY <1>4, <1>5, <1>6, <1>7, <1>8, <1>9, <1>10, <1>11, <1>12 DEF GhostType

-----------------------------------------------------------------------------
(* The handlers.                                                           *)

\* Where a handler may go.
LEMMA HandlerMoves ==
  ASSUME TypeOK, NEW c \in Conn, ControlInv(c), Handler(c)
  PROVE  /\ pc[c] \notin Closed
         /\ pc'[c] \notin Closed => op'[c] = op[c]
         /\ pc'[c] \in Closed => loc'[c].before = {} /\ pc'[c] \in {"ok", "err"}
         /\ pc'[c] = "ok" => pc[c] = "set"
         /\ pc[c] = "set" => pc'[c] = "ok" /\ g_state' = Target(op[c])
         /\ pc[c] # "set" => g_state' = g_state
<1> DEFINE Moves == /\ pc[c] \notin Closed
                    /\ pc'[c] \notin Closed => op'[c] = op[c]
                    /\ pc'[c] \in Closed => loc'[c].before = {} /\ pc'[c] \in {"ok", "err"}
                    /\ pc'[c] = "ok" => pc[c] = "set"
                    /\ pc[c] = "set" => pc'[c] = "ok" /\ g_state' = Target(op[c])
                    /\ pc[c] # "set" => g_state' = g_state
<1> USE DEF TypeOK, Closed
<1>1. ASSUME NEW l \in PC \ Closed, NEW f, pc[c] \notin Closed \cup {"set"},
             Goto(c, l, f), UNCHANGED g_state
      PROVE  Moves
  BY <1>1 DEF Goto
<1>2. ASSUME pc[c] \notin Closed \cup {"set"}, Answer(c, "err"), UNCHANGED g_state
      PROVE  Moves
  BY <1>2 DEF Answer, NoLocal
<1>3. ASSUME pc[c] \notin Closed \cup {"set"}, QuiesceFailed(c), UNCHANGED g_state
      PROVE  Moves
  <2>1. CASE op[c] = "signal"
    BY <1>3, <2>1 DEF QuiesceFailed
  <2> QED BY <1>2, <1>3, <2>1 DEF QuiesceFailed
<1>4. ASSUME Quiesce(c) PROVE Moves
  <2>1. pc[c] \in QuiescePC /\ UNCHANGED g_state
    BY <1>4 DEF Quiesce, QuiesceCtx, QuiesceHandle, QuiesceListed, QuiesceSpin, QuiesceSpinWait,
       QuiesceFinal, QuiescePC
  <2>2. \/ QuiesceFailed(c)
        \/ \E l \in PC \ Closed : \E f : Goto(c, l, f)
    BY <1>4, <2>1 DEF Quiesce, QuiesceCtx, QuiesceHandle, QuiesceListed, QuiesceSpin, QuiesceSpinWait,
       QuiesceFinal, QuiescePC, Synchronize, PC
  <2> QED BY <1>1, <1>3, <2>1, <2>2 DEF QuiescePC
<1>5. ASSUME Snapshot(c) \/ Restore(c) \/ Mark(c) PROVE Moves
  <2>1. /\ pc[c] \in {"check", "shards", "copy", "load", "clear", "modules", "map", "sync", "mark"}
        /\ UNCHANGED g_state
    BY <1>5 DEF Snapshot, SnapshotCheck, SnapshotShard, SnapshotCopy, SnapshotWrite, Restore,
       RestoreLoad, RestoreClear, RestoreModules, RestoreMap, RestoreHtoD, RestoreSync, Mark
  <2>2. \/ Answer(c, "err")
        \/ \E l \in PC \ Closed : \E f : Goto(c, l, f)
    BY <1>5 DEF Snapshot, SnapshotCheck, SnapshotShard, SnapshotCopy, SnapshotWrite, Restore,
       RestoreLoad, RestoreClear, RestoreModules, RestoreMap, RestoreHtoD, RestoreSync, Mark,
       Synchronize, Refuse, PC
  <2> QED BY <1>1, <1>2, <2>1, <2>2
<1>6. ASSUME SetState(c) PROVE Moves
  BY <1>6 DEF SetState, Answer, NoLocal
<1> QED
  BY <1>4, <1>5, <1>6 DEF Handler

\* SNAPSHOT of a parked application: nothing runs on the device any more when the
\* first allocation is listed, so that what is copied stays what is there.
LEMMA ServerSaves ==
  ASSUME LifeInv, DrainInv, NEW c \in Conn, ServerStep(c),
         sound = TRUE, quiet = TRUE, asked = "snapshot"
  PROVE  Saving(c)'
<1>0. /\ TypeOK /\ ControlInv(c) /\ loc[c] \in Local /\ Draining(c) /\ Handler(c)
      /\ pc[c] \notin Closed /\ op[c] = "snapshot" /\ Saving(c) /\ PtrInv
  <2>1. TypeOK /\ ControlInv(c) /\ loc[c] \in Local /\ Draining(c) /\ Handler(c)
    BY LifeFacts DEF ServerStep
  <2>2. pc[c] \notin Closed /\ op[c] = "snapshot"
    BY <2>1, HandlerMoves, LifeFacts
  <2>3. Saving(c) /\ PtrInv
    BY DEF LifeInv, SaveInv, DeviceInv, Away
  <2> QED BY <2>1, <2>2, <2>3
<1>1. /\ Kept' = Kept /\ Unfinished' = Unfinished /\ Queued' = Queued /\ Kept \subseteq Ptr
      /\ Queued \subseteq Unfinished
  BY <1>0, HandlerFrame DEF Kept, Unfinished, Queued
<1>2. UNCHANGED mem
  <2>1. pc[c] # "map"
    BY <1>0 DEF ControlInv, Fits
  <2> QED BY <2>1 DEF ServerStep, LifeInv, LifeType
<1>3. pc[c] \in {"shards", "copy", "mark", "set"} => Unfinished = {} /\ Queued = {}
  BY <1>0, <1>1 DEF Draining, Saving
<1>4. ASSUME pc'[c] \in Closed \ {"ok"} PROVE Saving(c)'
  BY <1>4 DEF Saving, Closed
<1>5. ASSUME Quiesce(c) \/ SnapshotCheck(c) PROVE Saving(c)'
  <2>1. CASE pc'[c] \in Closed
    BY <1>0, <1>4, <1>5, <2>1, HandlerMoves
       DEF Quiesce, QuiesceCtx, QuiesceHandle, QuiesceListed, QuiesceSpin, QuiesceSpinWait,
           QuiesceFinal, SnapshotCheck
  <2>2. CASE pc'[c] \notin Closed
    <3>1. /\ pc'[c] \in QuiescePC \cup {"shards"} /\ loc'[c].before = loc[c].before
          /\ pc'[c] = "shards" => loc'[c].n = 0
      <4>1. ~QuiesceFailed(c) /\ ~Refuse(c)
        BY <1>0, <2>2 DEF QuiesceFailed, Refuse, Answer, TypeOK, Closed
      <4>2. ASSUME QuiesceFinal(c) PROVE <3>1!1 /\ <3>1!2
        BY <1>0, <4>1, <4>2 DEF QuiesceFinal, Goto, TypeOK, Local
      <4>3. ASSUME QuiesceListed(c) \/ QuiesceSpin(c) \/ SnapshotCheck(c) PROVE <3>1!1 /\ <3>1!2
        BY <1>0, <4>1, <4>3 DEF QuiesceListed, QuiesceSpin, SnapshotCheck, Synchronize, Goto, TypeOK,
           Local, QuiescePC
      <4>4. ASSUME QuiesceCtx(c) \/ QuiesceSpinWait(c) PROVE <3>1!1 /\ <3>1!2
        BY <1>0, <4>1, <4>4 DEF QuiesceCtx, QuiesceSpinWait, Goto, TypeOK, Local, QuiescePC
      <4>5. ASSUME NEW h \in Stream \cup Event, QuiesceHandle(c, h) PROVE <3>1!1 /\ <3>1!2
        BY <1>0, <4>1, <4>5 DEF QuiesceHandle, Goto, TypeOK, Local, QuiescePC
      <4> QED BY <1>5, <4>2, <4>3, <4>4, <4>5 DEF Quiesce
    <3>2. \A p \in Kept : ~(ShardOf[p] < 0)
      BY <1>1, ShimAssumption
    <3> QED BY <1>0, <1>1, <2>2, <3>1, <3>2 DEF Saving, QuiescePC, Closed
  <2> QED BY <2>1, <2>2
<1>6. ASSUME SnapshotShard(c) PROVE Saving(c)'
  <2>0. /\ \A p \in Kept : p \in tracked \cap Ptr /\ ShardOf[p] \in 0..(kShards - 1)
        /\ pc[c] = "shards" /\ loc[c].n \in Nat
        /\ \A p \in Kept : ShardOf[p] < loc[c].n => p \in loc[c].list
    BY <1>0, <1>1, <1>6, ShimAssumption, LoopBounds DEF PtrInv, SnapshotShard, Saving, Local
  <2>1. CASE /\ loc[c].n < kShards
             /\ Goto(c, "shards", [loc[c] EXCEPT !.list = @ \cup Shard(loc[c].n), !.n = @ + 1])
    <3>1. /\ pc'[c] = "shards"
          /\ loc'[c] = [loc[c] EXCEPT !.list = loc[c].list \cup Shard(loc[c].n),
                                     !.n = loc[c].n + 1]
      BY <1>0, <2>1 DEF Goto, TypeOK
    <3>2. /\ loc'[c].n = loc[c].n + 1 /\ loc'[c].before = loc[c].before
          /\ loc'[c].list = loc[c].list \cup Shard(loc[c].n)
      BY <1>0, <3>1 DEF Local
    <3>3. \A p \in Kept : ShardOf[p] = loc[c].n => p \in Shard(loc[c].n)
      BY <2>0 DEF Shard
    <3>4. \A p \in Kept : ShardOf[p] < loc[c].n + 1 => p \in loc'[c].list
      BY <2>0, <3>2, <3>3
    <3> QED BY <1>0, <1>1, <3>1, <3>2, <3>4 DEF Saving, Closed
  <2>2. CASE /\ ~(loc[c].n < kShards)
             /\ Goto(c, "copy", [loc[c] EXCEPT !.scan = loc[c].list])
    <3>1. /\ pc'[c] = "copy" /\ loc'[c].before = loc[c].before
          /\ loc'[c].list = loc[c].list /\ loc'[c].scan = loc[c].list
      BY <1>0, <2>2 DEF Goto, TypeOK, Local
    <3>2. Kept \subseteq loc[c].list
      BY <2>0, <2>2, LoopBounds
    <3> QED BY <1>0, <1>1, <3>1, <3>2 DEF Saving, Closed
  <2> QED BY <1>6, <2>1, <2>2 DEF SnapshotShard
<1>7. ASSUME NEW p \in Ptr, SnapshotCopy(c, p) PROVE Saving(c)'
  <2>1. CASE Answer(c, "err")
    BY <1>0, <1>4, <2>1 DEF Answer, TypeOK, Closed
  <2>2. CASE ~Answer(c, "err")
    <3>1. /\ pc[c] = "copy" /\ pc'[c] = "copy" /\ loc'[c].before = loc[c].before
          /\ loc'[c].list = loc[c].list /\ loc'[c].scan = loc[c].scan \ {p}
      BY <1>0, <1>7, <2>2 DEF SnapshotCopy, Refuse, Goto, TypeOK, Local
    <3>2. loc[c].list \in SUBSET Ptr
      BY <1>0, LocalFields
    <3>3. ASSUME NEW q \in loc[c].list \ (loc[c].scan \ {p}) PROVE copied'[q] = mem[q]
      <4>1. copied'[q] = IF q \in loc[c].scan \ loc'[c].scan THEN mem[q] ELSE copied[q]
        BY <1>0, <3>1, <3>2 DEF ServerStep
      <4>2. q \notin loc[c].scan => copied[q] = mem[q]
        BY <1>0, <3>1 DEF Saving
      <4> QED BY <3>1, <4>1, <4>2
    <3> QED BY <1>0, <1>1, <1>2, <3>1, <3>3 DEF Saving, Closed
  <2> QED BY <2>1, <2>2
<1>8. ASSUME SnapshotWrite(c) PROVE Saving(c)'
  <2>1. CASE Answer(c, "err")
    BY <1>0, <1>4, <2>1 DEF Answer, TypeOK, Closed
  <2>2. CASE ~Answer(c, "err")
    <3>1. /\ pc[c] = "copy" /\ pc'[c] = "mark" /\ loc'[c] = loc[c] /\ image' = {loc[c].list}
          /\ loc[c].scan = {}
      BY <1>0, <1>8, <2>2 DEF SnapshotWrite, Goto, TypeOK
    <3>2. saved' = copied
      BY <3>1 DEF ServerStep
    <3>3. Kept \subseteq loc[c].list /\ \A p \in Kept : copied[p] = mem[p]
      BY <1>0, <3>1 DEF Saving
    <3> QED BY <1>0, <1>1, <1>2, <3>1, <3>2, <3>3 DEF Saving, Imaged, Closed
  <2> QED BY <2>1, <2>2
<1>9. ASSUME Mark(c) \/ SetState(c) PROVE Saving(c)'
  <2>1. /\ pc[c] \in {"mark", "set"} /\ pc'[c] \in {"set", "ok"} /\ UNCHANGED <<image, saved>>
        /\ pc'[c] # "ok" => loc'[c] = loc[c]
    BY <1>0, <1>9 DEF Mark, SetState, Goto, Answer, ServerStep, TypeOK
  <2> QED BY <1>0, <1>1, <1>2, <1>3, <2>1 DEF Saving, Imaged, Closed
<1>10. ~Restore(c)
  BY <1>0 DEF Restore, RestoreLoad, RestoreClear, RestoreModules, RestoreMap, RestoreHtoD,
     RestoreSync, ControlInv, Fits
<1> QED
  BY <1>0, <1>5, <1>6, <1>7, <1>8, <1>9, <1>10 DEF Handler, Snapshot

\* RESTORE of an application whose memory is away: it is mapped, tracked and filled
\* before the state word changes.
LEMMA ServerLoads ==
  ASSUME LifeInv, DrainInv, NEW c \in Conn, ServerStep(c), sound = TRUE, asked = "restore", Away
  PROVE  /\ UNCHANGED image /\ UNCHANGED saved
         /\ pc'[c] = "ok" => /\ Kept \subseteq tracked /\ tracked \subseteq live
                             /\ UNCHANGED <<tracked, live, mem>>
                             /\ \A p \in Kept : mem[p] = saved[p]
         /\ Loading(c)'
<1> DEFINE Loads == /\ UNCHANGED image /\ UNCHANGED saved
                    /\ pc'[c] = "ok" => /\ Kept \subseteq tracked /\ tracked \subseteq live
                                        /\ UNCHANGED <<tracked, live, mem>>
                                        /\ \A p \in Kept : mem[p] = saved[p]
                    /\ Loading(c)'
<1>0. /\ TypeOK /\ ControlInv(c) /\ loc[c] \in Local /\ Handler(c)
      /\ pc[c] \notin Closed /\ op[c] = "restore" /\ Loading(c) /\ Imaged
  <2>1. TypeOK /\ ControlInv(c) /\ loc[c] \in Local /\ Handler(c)
    BY LifeFacts DEF ServerStep
  <2>2. pc[c] \notin Closed /\ op[c] = "restore"
    BY <2>1, HandlerMoves, LifeFacts
  <2>3. Loading(c) /\ Imaged
    BY DEF LifeInv, AwayInv
  <2> QED BY <2>1, <2>2, <2>3
<1>1. Kept' = Kept /\ Kept \subseteq Ptr
  BY <1>0, HandlerFrame DEF Kept
<1>2. saved' = saved
  <2>1. pc[c] # "copy"
    BY <1>0 DEF ControlInv, Fits
  <2> QED BY <2>1 DEF ServerStep
<1>3. ASSUME pc[c] # "set", Answer(c, "err"), UNCHANGED image PROVE Loads
  <2>1. pc'[c] = "err"
    BY <1>0, <1>3 DEF Answer, TypeOK
  <2> QED BY <1>2, <1>3, <2>1 DEF Loading
<1>4. ASSUME pc[c] # "map" \/ pc'[c] # "sync" PROVE UNCHANGED mem
  BY <1>4 DEF ServerStep, LifeInv, LifeType
<1>5. ASSUME RestoreLoad(c) PROVE Loads
  <2>1. CASE Answer(c, "err")
    BY <1>3, <1>5, <2>1 DEF RestoreLoad
  <2>2. CASE ~Answer(c, "err")
    <3>1. PICK m \in image : Goto(c, "clear", [loc[c] EXCEPT !.list = m])
      BY <1>5, <2>2 DEF RestoreLoad, Refuse
    <3>2. pc'[c] = "clear" /\ loc'[c].list = m /\ UNCHANGED image
      BY <1>0, <1>5, <3>1 DEF RestoreLoad, Goto, TypeOK, Local
    <3> QED BY <1>0, <1>1, <1>2, <3>2 DEF Loading, Imaged
  <2> QED BY <2>1, <2>2
<1>6. ASSUME RestoreClear(c) PROVE Loads
  <2>1. pc[c] = "clear" /\ pc'[c] = "modules" /\ loc'[c] = loc[c] /\ tracked' = {} /\ UNCHANGED image
    BY <1>0, <1>6 DEF RestoreClear, Goto, TypeOK
  <2> QED BY <1>0, <1>1, <1>2, <2>1 DEF Loading
<1>7. ASSUME RestoreModules(c) PROVE Loads
  <2>1. CASE Answer(c, "err")
    BY <1>3, <1>7, <2>1 DEF RestoreModules
  <2>2. CASE ~Answer(c, "err")
    <3>1. /\ pc[c] = "modules" /\ pc'[c] = "map" /\ loc'[c].list = loc[c].list
          /\ loc'[c].scan = loc[c].list /\ UNCHANGED <<image, live, tracked>>
      BY <1>0, <1>7, <2>2 DEF RestoreModules, Goto, TypeOK, Local, trackerVars
    <3> QED BY <1>0, <1>1, <1>2, <3>1 DEF Loading
  <2> QED BY <2>1, <2>2
<1>8. ASSUME NEW p \in Ptr, RestoreMap(c, p) PROVE Loads
  <2>1. CASE Answer(c, "err")
    BY <1>3, <1>8, <2>1 DEF RestoreMap
  <2>2. CASE ~Answer(c, "err")
    <3>1. /\ pc[c] = "map" /\ pc'[c] = "map" /\ loc'[c].list = loc[c].list
          /\ loc'[c].scan = loc[c].scan \ {p} /\ UNCHANGED image
          /\ live' = live \cup {p} /\ tracked' = tracked \cup {p}
      BY <1>0, <1>8, <2>2 DEF RestoreMap, Refuse, Track, Goto, TypeOK, Local
    <3> QED BY <1>0, <1>1, <1>2, <3>1 DEF Loading
  <2> QED BY <2>1, <2>2
<1>9. ASSUME RestoreHtoD(c) PROVE Loads
  <2>1. CASE Answer(c, "err")
    BY <1>3, <1>9, <2>1 DEF RestoreHtoD
  <2>2. CASE ~Answer(c, "err")
    <3>1. /\ pc[c] = "map" /\ pc'[c] = "sync" /\ loc'[c].list = loc[c].list
          /\ loc[c].scan = {} /\ UNCHANGED <<image, live, tracked>>
      BY <1>0, <1>9, <2>2 DEF RestoreHtoD, Synchronize, Goto, TypeOK, Local, trackerVars
    <3>2. \A p \in Kept : mem'[p] = saved[p]
      BY <1>0, <1>1, <3>1 DEF ServerStep, Loading
    <3> QED BY <1>0, <1>1, <1>2, <3>1, <3>2 DEF Loading
  <2> QED BY <2>1, <2>2
<1>10. ASSUME RestoreSync(c) \/ Mark(c) PROVE Loads
  <2>1. CASE Answer(c, "err")
    BY <1>3, <1>10, <2>1 DEF RestoreSync, Mark
  <2>2. CASE ~Answer(c, "err")
    <3>1. /\ pc[c] \in {"sync", "mark"} /\ pc'[c] \in {"mark", "set"} /\ loc'[c] = loc[c]
          /\ UNCHANGED <<image, live, tracked>>
      BY <1>0, <1>10, <2>2 DEF RestoreSync, Mark, Goto, TypeOK, trackerVars
    <3> QED BY <1>0, <1>1, <1>2, <1>4, <3>1 DEF Loading
  <2> QED BY <2>1, <2>2
<1>11. ASSUME SetState(c) PROVE Loads
  <2>1. pc[c] = "set" /\ pc'[c] = "ok" /\ UNCHANGED <<image, live, tracked>>
    BY <1>0, <1>11 DEF SetState, Answer, TypeOK, trackerVars
  <2> QED BY <1>0, <1>1, <1>2, <1>4, <2>1 DEF Loading
<1>12. ~Quiesce(c) /\ ~Snapshot(c)
  BY <1>0 DEF Quiesce, QuiesceCtx, QuiesceHandle, QuiesceListed, QuiesceSpin, QuiesceSpinWait,
     QuiesceFinal, Snapshot, SnapshotCheck, SnapshotShard, SnapshotCopy, SnapshotWrite,
     ControlInv, Fits, QuiescePC
<1> QED
  BY <1>0, <1>5, <1>6, <1>7, <1>8, <1>9, <1>10, <1>11, <1>12 DEF Handler, Restore

\* Every step of a handler, with what it does to the hooks and to the contents.
LEMMA ServerStepInv ==
  ASSUME LifeInv, DrainInv, NEW c \in Conn, ServerStep(c)
  PROVE  LifeInv'
<1> USE DEF LifeInv
<1>0. /\ TypeOK /\ ControlInv(c) /\ Handler(c) /\ Conn = {c}
      /\ UNCHANGED <<asked, quiet, sound, view>>
      /\ UNCHANGED <<owned, call, job>>
      /\ pc[c] \notin Closed /\ op[c] = asked /\ pc[c] \in PC
  <2>1. TypeOK /\ ControlInv(c) /\ Handler(c) /\ Conn = {c} /\ UNCHANGED <<asked, quiet, sound, view>>
    BY LifeFacts, OneConn DEF ServerStep
  <2>2. pc[c] \notin Closed
    BY <2>1, HandlerMoves
  <2> QED BY <2>1, <2>2, HandlerFrame, LifeFacts
<1>1. /\ Kept' = Kept /\ Queued' = Queued /\ Unfinished' = Unfinished
  BY <1>0 DEF Kept, Queued, Unfinished
<1>2. /\ Away <=> asked = "restore"
      /\ Away' <=> asked = "restore" /\ pc'[c] # "ok"
  <2>1. pc[c] # "ok"
    BY <1>0 DEF Closed
  <2>2. asked # "dump"
    BY <1>0, <2>1 DEF AskInv, Answered
  <2> QED BY <1>0, <2>1, <2>2 DEF Away, Answered
<1>3. LifeType'
  <2>1. hook' \in [Thread -> Hooks]
    BY DEF ServerStep, Wake, LifeType, Hooks
  <2>2. /\ mem' \in [Ptr -> Value \cup {Garbage}]
        /\ copied' \in [Ptr -> Value \cup {Garbage}]
        /\ saved' \in [Ptr -> Value \cup {Garbage}]
    BY DEF ServerStep, LifeType
  <2> QED BY <1>0, <2>1, <2>2 DEF LifeType
<1>4. GhostType'
  BY <1>0, Zenon DEF GhostType
<1>5. \A t \in Thread : /\ hook'[t] # "run" => hook[t] # "run"
                        /\ hook[t] \in Parked => hook'[t] \in Parked
  BY DEF ServerStep, Wake, LifeType, Hooks, Parked
<1>6. HookInv'
  BY <1>0, <1>5 DEF HookInv
<1>7. ParkInv'
  BY <1>0, <1>2, <1>5 DEF ParkInv
<1>8. AskInv'
  <2>1. /\ pc'[c] \notin Closed => op'[c] = op[c]
        /\ pc'[c] \in Closed => loc'[c].before = {}
        /\ pc'[c] = "ok" => g_state' = Target(op[c])
        /\ pc'[c] # "ok" => g_state' = g_state
    BY <1>0, HandlerMoves
  <2>2. asked = "freeze" /\ pc'[c] = "ok" => g_state' \in Frozen
    BY <1>0, <2>1 DEF Target, Frozen
  <2>3. asked = "snapshot" => g_state' \in Frozen
    BY <1>0, <2>1 DEF Target, Frozen, AskInv
  <2>4. Away' => g_state' \in Frozen
    BY <1>2, <2>1 DEF AskInv
  <2>5. asked # "dump"
    BY <1>0 DEF AskInv, Answered, Closed
  <2> QED BY <1>0, <2>1, <2>2, <2>3, <2>4, <2>5 DEF AskInv, Answered
<1>9. DeviceInv'
  <2> SUFFICES ASSUME sound = TRUE, ~Away' PROVE PtrInv'
    BY <1>0 DEF DeviceInv
  <2>1. CASE asked = "restore"
    <3>1. /\ Kept \subseteq tracked /\ tracked \subseteq live /\ UNCHANGED <<tracked, live>>
      BY <1>2, <2>1, ServerLoads
    <3>2. \A t \in Thread : call[t] = NoCall
      BY <1>2, <2>1 DEF AwayInv, ParkInv, Parked, HookInv
    <3> QED BY <1>0, <1>1, <3>1, <3>2 DEF PtrInv, InFlight, NoCall
  <2>2. CASE asked # "restore"
    <3>1. UNCHANGED <<live, tracked>>
      BY <1>0, <2>2, HandlerTrackerFrame DEF trackerVars
    <3> QED BY <1>0, <1>1, <1>2, <2>2, <3>1 DEF DeviceInv, PtrInv, InFlight
  <2> QED BY <2>1, <2>2
<1>10. SaveInv'
  BY <1>0, ServerSaves DEF SaveInv
<1>11. AwayInv'
  <2> SUFFICES ASSUME sound = TRUE, asked = "restore", Away
               PROVE  /\ quiet = TRUE /\ Queued' = {} /\ Imaged'
                      /\ \A m \in view, p \in Kept : saved'[p] = m[p]
                      /\ Loading(c)'
    BY <1>0, <1>1, <1>2 DEF AwayInv
  <2> QED BY <1>1, ServerLoads DEF AwayInv, Imaged
<1>12. ViewInv'
  <2> SUFFICES ASSUME view # {}
               PROVE  /\ sound = TRUE
                      /\ ~Away' => Queued' = {} /\ \A m \in view, p \in Kept : mem'[p] = m[p]
    BY <1>0, <1>1 DEF ViewInv
  <2>1. sound = TRUE
    BY DEF ViewInv
  <2>2. CASE asked = "restore"
    BY <1>1, <1>2, <2>1, <2>2, ServerLoads DEF AwayInv
  <2>3. CASE asked # "restore"
    <3>1. pc[c] # "map"
      BY <1>0, <2>3 DEF ControlInv, Fits
    <3>2. UNCHANGED mem
      BY <3>1 DEF ServerStep, LifeType
    <3> QED BY <1>1, <1>2, <2>1, <2>3, <3>2 DEF ViewInv
  <2> QED BY <2>2, <2>3
<1> QED
  BY <1>3, <1>4, <1>6, <1>7, <1>8, <1>9, <1>10, <1>11, <1>12

-----------------------------------------------------------------------------

\* Every step keeps the invariant.
LEMMA LifeStep == LifeInv /\ DrainInv /\ [LifeNext]_allVars => LifeInv' /\ DrainInv'
<1> SUFFICES ASSUME LifeInv, DrainInv, [LifeNext]_allVars PROVE LifeInv' /\ DrainInv'
  OBVIOUS
<1>1. DrainInv'
  <2>1. CASE LifeNext
    BY <2>1, LifeIsShim, DrainStep, CriuDrains DEF LifeInv
  <2>2. CASE UNCHANGED allVars
    BY <2>2, DrainStep DEF allVars
  <2> QED BY <2>1, <2>2
<1>2. CASE LifeNext
  BY <1>1, <1>2, HookStep, ThreadStepInv, DeviceStepInv, AskStep, CriuStep, ServerStepInv DEF LifeNext
<1>3. CASE UNCHANGED allVars
  <2>1. /\ UNCHANGED <<hook, mem, copied, saved, asked, quiet, sound, view>>
        /\ UNCHANGED <<live, tracked, owned, call, job>> /\ UNCHANGED <<g_state, pc, op, loc, image>>
    BY <1>3 DEF allVars, lifeVars, vars, trackerVars, shimVars
  <2> USE DEF LifeInv
  <2>2. LifeType' /\ HookInv' /\ AskInv' /\ ParkInv'
    BY <2>1 DEF LifeType, HookInv, AskInv, ParkInv, Away, Answered
  <2>3. GhostType'
    BY <2>1, Zenon DEF GhostType
  <2>4. DeviceInv'
    BY <2>1 DEF DeviceInv, Away, Answered, PtrInv, InFlight, Kept
  <2>5. SaveInv'
    BY <2>1 DEF SaveInv, Saving, Kept, Unfinished, Queued, Imaged
  <2>6. AwayInv' /\ ViewInv'
    BY <2>1 DEF AwayInv, ViewInv, Loading, Away, Answered, Kept, Queued, Imaged
  <2> QED BY <1>1, <2>2, <2>3, <2>4, <2>5, <2>6
<1> QED BY <1>2, <1>3

\* ResumesWhereItLeft, for any number of threads, allocations, work items, shards and
\* failures: an application parked at its SNAPSHOT goes on, after CRIU and RESTORE,
\* with every allocation at its address, tracked, and with its contents.
THEOREM LifecycleResumes == LifeSpec => []ResumesWhereItLeft
<1>1. LifeInv => ResumesWhereItLeft
  <2> SUFFICES ASSUME LifeInv, NEW m \in view, NEW t \in Thread, hook[t] = "run",
                      NEW p \in owned \cap Ptr
               PROVE  p \in live \cap tracked /\ mem[p] = m[p]
    BY DEF ResumesWhereItLeft
  <2>1. sound = TRUE
    BY DEF LifeInv, ViewInv
  <2>2. ~Away
    BY <2>1 DEF LifeInv, AwayInv, ParkInv, Parked
  <2>3. PtrInv /\ \A q \in Kept : mem[q] = m[q]
    BY <2>1, <2>2 DEF LifeInv, DeviceInv, ViewInv
  <2> QED
    BY <2>3 DEF PtrInv, Kept
<1>2. LifeInit => LifeInv /\ DrainInv
  BY LifeInitInv
<1>3. LifeInv /\ DrainInv /\ [LifeNext]_allVars => (LifeInv /\ DrainInv)'
  BY LifeStep
<1> QED
  BY <1>1, <1>2, <1>3, PTL DEF LifeSpec
=============================================================================
