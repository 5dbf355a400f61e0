------------------------------- MODULE Tracker -------------------------------
(***************************************************************************)
(* The interposed CUDA driver API (shim/interpose.c) and the tracker it    *)
(* feeds (shim/tracker.cpp), as the threads of one application use them.   *)
(*                                                                         *)
(* Every interposed create call first calls the real driver and then       *)
(* enters the handle in the tracker; every destroy call first erases it    *)
(* and then calls the real driver.  The two halves are separate steps:     *)
(* other threads, and the RPC handlers of module Shim, run in between.     *)
(***************************************************************************)
EXTENDS Integers, FiniteSets

CONSTANTS
  Thread,  \* application threads that call the driver API
  Ptr,     \* device addresses cuMemAlloc can return
  Stream,  \* stream handles
  Event,   \* event handles
  Job      \* pieces of asynchronous work: kernels and host functions

Handle == Ptr \cup Stream \cup Event

ASSUME JobAssumption == IsFiniteSet(Job)

VARIABLES
  live,            \* handles that exist in the driver
  tracked,         \* handles in the tracker's tables (shards_, streams_, events_)
  owned,           \* handles a create call has returned to the application and
                   \* that the application has not passed to a destroy call
  call,            \* call[t]: the driver call thread t is inside of
  job,             \* job[j]: what has become of work item j
  host_callbacks,  \* Tracker::host_callbacks_
  bad              \* Tracker::bad_, sticky: an unsupported API was used

trackerVars == <<live, tracked, owned, call, job, host_callbacks, bad>>

NoCall == [at |-> "none"]

\* A thread between the two halves of an interposed call.
Call ==
  {NoCall} \cup [at : {"track", "destroy"}, h : Handle]
           \cup [at : {"launch"}, j : Job]

\* A host function is "entering" between host_callback_enter and the real
\* launch, "callback" while it is queued on its stream, and "leaked" for good
\* when the real launch failed after host_callback_enter.
JobState == {"free", "kernel", "entering", "callback", "leaked"}

TrackerTypeOK ==
  /\ live \subseteq Handle
  /\ tracked \subseteq Handle
  /\ owned \subseteq Handle
  /\ call \in [Thread -> Call]
  /\ job \in [Job -> JobState]
  /\ host_callbacks \in Nat
  /\ bad \in BOOLEAN

TrackerInit ==
  /\ live = {}
  /\ tracked = {}
  /\ owned = {}
  /\ call = [t \in Thread |-> NoCall]
  /\ job = [j \in Job |-> "free"]
  /\ host_callbacks = 0
  /\ bad = FALSE

-----------------------------------------------------------------------------
(* The tracker's tables.  The allocation map is split into locked shards   *)
(* and the other tables have a lock each, so every one of these is atomic. *)

\* track_alloc, track_stream, track_event
Track(h) == tracked' = tracked \cup {h}

\* untrack_alloc, untrack_stream, untrack_event
Untrack(h) == tracked' = tracked \ {h}

\* Mutant: the atomic add is a subtraction.
HostCallbackEnterSub == host_callbacks' = host_callbacks - 1

HostCallbackEnter == host_callbacks' = host_callbacks + 1

HostCallbackLeave ==
  host_callbacks' = IF host_callbacks > 0 THEN host_callbacks - 1 ELSE 0

\* Work the driver has accepted and not finished: what cuCtxSynchronize and
\* cuStreamSynchronize wait for.
Queued == {j \in Job : job[j] \in {"kernel", "callback"}}

-----------------------------------------------------------------------------
(* Interposed calls.  A create call that the driver refuses changes        *)
(* nothing and is a stuttering step.                                       *)

\* cuMemAlloc, cuStreamCreate, cuEventCreate: the real call succeeds.
CreateReal(t, h) ==
  /\ call[t] = NoCall
  /\ h \notin live
  /\ live' = live \cup {h}
  /\ call' = [call EXCEPT ![t] = [at |-> "track", h |-> h]]
  /\ UNCHANGED <<tracked, owned, job, host_callbacks, bad>>

\* ... and the handle is tracked before the application sees it.
CreateTrack(t) ==
  /\ call[t].at = "track"
  /\ Track(call[t].h)
  /\ owned' = owned \cup {call[t].h}
  /\ call' = [call EXCEPT ![t] = NoCall]
  /\ UNCHANGED <<live, job, host_callbacks, bad>>

\* Mutant: the real destroy runs first and the tracker is told afterwards.
DestroyUntrackLate(t, h) ==
  /\ call[t] = NoCall
  /\ h \in owned
  /\ owned' = owned \ {h}
  /\ live' = live \ {h}
  /\ call' = [call EXCEPT ![t] = [at |-> "destroy", h |-> h]]
  /\ UNCHANGED <<tracked, job, host_callbacks, bad>>

\* cuMemFree, cuStreamDestroy, cuEventDestroy: the tracker forgets the handle
\* first.  No two threads destroy the same handle.
DestroyUntrack(t, h) ==
  /\ call[t] = NoCall
  /\ h \in owned
  /\ owned' = owned \ {h}
  /\ Untrack(h)
  /\ call' = [call EXCEPT ![t] = [at |-> "destroy", h |-> h]]
  /\ UNCHANGED <<live, job, host_callbacks, bad>>

\* ... and the real call destroys it, or fails and leaves it in the driver.
DestroyReal(t) ==
  /\ call[t].at = "destroy"
  /\ live' \in {live, live \ {call[t].h}}
  /\ call' = [call EXCEPT ![t] = NoCall]
  /\ UNCHANGED <<tracked, owned, job, host_callbacks, bad>>

\* cuLaunchKernel passes straight through; the work is asynchronous.
LaunchKernel(t, j) ==
  /\ call[t] = NoCall
  /\ job[j] = "free"
  /\ job' = [job EXCEPT ![j] = "kernel"]
  /\ UNCHANGED <<live, tracked, owned, call, host_callbacks, bad>>

KernelDone(j) ==
  /\ job[j] = "kernel"
  /\ job' = [job EXCEPT ![j] = "free"]
  /\ UNCHANGED <<live, tracked, owned, call, host_callbacks, bad>>

\* cuLaunchHostFunc counts the callback before it asks the driver to queue it.
LaunchHostEnter(t, j) ==
  /\ call[t] = NoCall
  /\ job[j] = "free"
  /\ HostCallbackEnter
  /\ job' = [job EXCEPT ![j] = "entering"]
  /\ call' = [call EXCEPT ![t] = [at |-> "launch", j |-> j]]
  /\ UNCHANGED <<live, tracked, owned, bad>>

\* Mutant: the callback is uncounted when its launch returns.
LaunchHostRealUncount(t) ==
  /\ call[t].at = "launch"
  /\ HostCallbackLeave
  /\ \E s \in {"callback", "leaked"} : job' = [job EXCEPT ![call[t].j] = s]
  /\ call' = [call EXCEPT ![t] = NoCall]
  /\ UNCHANGED <<live, tracked, owned, bad>>

\* The real launch queues host_wrap, or fails: nothing undoes the count then.
LaunchHostReal(t) ==
  /\ call[t].at = "launch"
  /\ \E s \in {"callback", "leaked"} : job' = [job EXCEPT ![call[t].j] = s]
  /\ call' = [call EXCEPT ![t] = NoCall]
  /\ UNCHANGED <<live, tracked, owned, host_callbacks, bad>>

\* host_wrap on a driver thread: the application's function, then the leave.
HostWrap(j) ==
  /\ job[j] = "callback"
  /\ HostCallbackLeave
  /\ job' = [job EXCEPT ![j] = "free"]
  /\ UNCHANGED <<live, tracked, owned, call, bad>>

\* cuGraphLaunch, stream capture, peer access, a lookup of an NCCL symbol.
MarkUnsupported(t) ==
  /\ call[t] = NoCall
  /\ bad' = TRUE
  /\ UNCHANGED <<live, tracked, owned, call, job, host_callbacks>>

AppStep(t) ==
  \/ \E h \in Handle : CreateReal(t, h) \/ DestroyUntrack(t, h)
  \/ CreateTrack(t)
  \/ DestroyReal(t)
  \/ \E j \in Job : LaunchKernel(t, j) \/ LaunchHostEnter(t, j)
  \/ LaunchHostReal(t)
  \/ MarkUnsupported(t)

DriverStep == \E j \in Job : KernelDone(j) \/ HostWrap(j)

TrackerNext == (\E t \in Thread : AppStep(t)) \/ DriverStep

TrackerSpec == TrackerInit /\ [][TrackerNext]_trackerVars

-----------------------------------------------------------------------------
(* Properties.                                                             *)

\* Every handle the application may use is in the tracker, and every handle in
\* the tracker exists in the driver: a device address that the driver hands out
\* again right after a free is never lost by the late half of that free.
TrackerFaithful ==
  /\ owned \subseteq tracked
  /\ tracked \subseteq live

\* Host functions counted by host_callback_enter and not yet left or lost.
Pending == {j \in Job : job[j] \in {"entering", "callback", "leaked"}}

\* pending_host_callbacks() never undercounts: a zero means that no host
\* function is queued or about to be.  It overcounts by exactly the launches
\* that failed.
CallbacksCounted == host_callbacks = Cardinality(Pending)
=============================================================================
