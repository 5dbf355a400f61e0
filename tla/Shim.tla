-------------------------------- MODULE Shim --------------------------------
(***************************************************************************)
(* The checkpoint server that the shim runs inside the application:        *)
(* shim/ipc.c accepts a connection, starts a thread for it, serves one     *)
(* request and closes; shim/quiesce.cpp, shim/snapshot.cu and              *)
(* shim/restore.cu do the work.  Nothing orders the handlers against each  *)
(* other or against the application's threads except the small locks of    *)
(* the tracker and g_mu around the state word.                             *)
(*                                                                         *)
(* PING, STATUS, STATS, QUIT, a refused AUTH and an unknown operation read *)
(* state and answer: they are stuttering steps.                            *)
(***************************************************************************)
EXTENDS Tracker

CONSTANTS
  Conn,       \* client connections; one is used again after it is closed
  Op,         \* the requests that are issued, a subset of Request
  kShards,    \* number of shards of the allocation map
  ShardOf,    \* ShardOf[p]: Tracker::shard(p)
  MaxSpins,   \* the 100000 of ckpt_quiesce_gpu
  MaxFaults   \* bound on failing driver calls and file operations

Request == {"freeze", "snapshot", "restore", "resume", "signal"}

ASSUME ShimAssumption ==
  /\ Op \subseteq Request
  /\ kShards \in Nat \ {0}
  /\ ShardOf \in [Ptr -> 0..(kShards - 1)]
  /\ MaxSpins \in Nat
  /\ MaxFaults \in Nat

VARIABLES
  g_state,   \* the state word of ipc.c
  tr_state,  \* Tracker::state_
  pc,        \* pc[c]: where the handler of connection c is; its answer when closed
  op,        \* op[c]: the request it serves
  loc,       \* loc[c]: its local variables
  image,     \* the manifest in the image directory, as a set of at most one
  faults     \* failures so far

shimVars == <<g_state, tr_state, pc, op, loc, image, faults>>
vars == <<trackerVars, shimVars>>

State == {"RUNNING", "FROZEN", "SNAPPED", "RESTORED"}

Closed == {"idle", "ok", "err"}

PC == Closed \cup
      {"check", "ctx", "streams", "events", "spin", "spinwait", "final",
       "shards", "copy", "load", "clear", "modules", "map", "sync",
       "mark", "set"}

\* wait: work that the synchronize call the handler is inside of waits for;
\* scan: what its current loop has still to visit; list: the allocations of its
\* manifest; n: loop counter, of shards visited or spins made.  Ghosts: held,
\* allocations the application has had ever since the request; before, work
\* submitted before the request and not finished.
LoopBound == IF MaxSpins > kShards THEN MaxSpins ELSE kShards

Local == [wait : SUBSET Job, scan : SUBSET Handle, list : SUBSET Ptr, n : 0..LoopBound,
          held : SUBSET Ptr, before : SUBSET Job]

NoLocal == [wait |-> {}, scan |-> {}, list |-> {}, n |-> 0, held |-> {}, before |-> {}]

TypeOK ==
  /\ TrackerTypeOK
  /\ g_state \in State
  /\ tr_state \in State
  /\ pc \in [Conn -> PC]
  /\ op \in [Conn -> Request \cup {"none"}]
  /\ loc \in [Conn -> Local]
  /\ image \subseteq SUBSET Ptr
  /\ faults \in 0..MaxFaults

NoRequests ==
  /\ pc = [c \in Conn |-> "idle"]
  /\ op = [c \in Conn |-> "none"]
  /\ loc = [c \in Conn |-> NoLocal]
  /\ faults = 0

\* ckpt_ipc_init, the constructor of the preloaded library: FROZEN when
\* CUDACKPT_NEED_GPU is set, RUNNING otherwise.
Init ==
  /\ TrackerInit
  /\ NoRequests
  /\ g_state \in {"RUNNING", "FROZEN"}
  /\ tr_state = g_state
  /\ image = {}

-----------------------------------------------------------------------------
(* Steps of a handler thread.                                              *)

\* Work that has been submitted and not finished: also a host function that
\* has been counted and is about to be queued.
Unfinished == {j \in Job : job[j] \in {"kernel", "entering", "callback"}}

\* The handler goes on at l with locals f.
Goto(c, l, f) ==
  /\ pc' = [pc EXCEPT ![c] = l]
  /\ loc' = [loc EXCEPT ![c] = f]
  /\ UNCHANGED <<op, faults>>

\* It answers and its thread ends.
Answer(c, r) ==
  /\ pc' = [pc EXCEPT ![c] = r]
  /\ loc' = [loc EXCEPT ![c] = NoLocal]
  /\ op' = [op EXCEPT ![c] = "none"]

Refuse(c) == Answer(c, "err") /\ UNCHANGED faults

\* A driver call or a file operation fails.
Fault ==
  /\ faults < MaxFaults
  /\ faults' = faults + 1

\* Enter a synchronize call: it returns once the work queued now is finished.
Synchronize(c, l) == Goto(c, l, [loc[c] EXCEPT !.wait = Queued])

Synchronized(c) == loc[c].wait = {}

\* ckpt_quiesce_gpu returns an error: FREEZE and SNAPSHOT answer 1, the signal
\* handler ignores it.
QuiesceFailed(c) ==
  IF op[c] = "signal"
    THEN pc' = [pc EXCEPT ![c] = "set"] /\ UNCHANGED <<op, loc>>
    ELSE Answer(c, "err")

\* handle_client reads the request; SIGCKPT enters sig_handler.
Accept(c, o) ==
  /\ pc[c] \in Closed
  /\ op' = [op EXCEPT ![c] = o]
  /\ pc' = [pc EXCEPT ![c] = CASE o \in {"freeze", "signal"} -> "ctx"
                               [] o = "snapshot" -> "check"
                               [] o = "restore" -> "load"
                               [] o = "resume" -> "mark"]
  /\ loc' = [loc EXCEPT ![c] = [NoLocal EXCEPT !.wait = Queued,
                                               !.held = owned \cap Ptr,
                                               !.before = Unfinished]]
  /\ UNCHANGED <<trackerVars, g_state, tr_state, image, faults>>

\* ckpt_snapshot_write refuses an application that used an unsupported API.
SnapshotCheck(c) ==
  /\ pc[c] = "check"
  /\ IF bad THEN Refuse(c) ELSE Synchronize(c, "ctx")
  /\ UNCHANGED <<trackerVars, g_state, tr_state, image>>

\* Mutant: the streams are listed before the context synchronize has returned.
QuiesceCtxNoWait(c) ==
  /\ pc[c] = "ctx"
  /\ Goto(c, "streams", [loc[c] EXCEPT !.scan = tracked \cap Stream])
  /\ UNCHANGED <<trackerVars, g_state, tr_state, image>>

\* cuCtxSynchronize returns; the tracked streams are listed.
QuiesceCtx(c) ==
  /\ pc[c] = "ctx"
  /\ \/ Synchronized(c) /\ Goto(c, "streams", [loc[c] EXCEPT !.scan = tracked \cap Stream])
     \/ Fault /\ QuiesceFailed(c)
  /\ UNCHANGED <<trackerVars, g_state, tr_state, image>>

\* One listed stream or event is synchronized.  The driver may refuse a handle
\* that the application has destroyed since it was listed.
QuiesceHandle(c, h) ==
  /\ pc[c] \in {"streams", "events"}
  /\ h \in loc[c].scan
  /\ \/ Goto(c, pc[c], [loc[c] EXCEPT !.scan = @ \ {h}])
     \/ h \notin live /\ QuiesceFailed(c) /\ UNCHANGED faults
     \/ Fault /\ QuiesceFailed(c)
  /\ UNCHANGED <<trackerVars, g_state, tr_state, image>>

\* The stream loop ends and the tracked events are listed; the event loop ends.
QuiesceListed(c) ==
  /\ pc[c] \in {"streams", "events"}
  /\ loc[c].scan = {}
  /\ IF pc[c] = "streams"
       THEN Goto(c, "events", [loc[c] EXCEPT !.scan = tracked \cap Event])
       ELSE Goto(c, "spin", loc[c])
  /\ UNCHANGED <<trackerVars, g_state, tr_state, image>>

\* The loop on pending_host_callbacks reads the counter ...
QuiesceSpin(c) ==
  /\ pc[c] = "spin"
  /\ IF host_callbacks > 0 /\ loc[c].n < MaxSpins
       THEN Synchronize(c, "spinwait")
       ELSE Goto(c, "final", loc[c])
  /\ UNCHANGED <<trackerVars, g_state, tr_state, image>>

\* Mutant: the spins are not counted.
QuiesceSpinWaitUncounted(c) ==
  /\ pc[c] = "spinwait"
  /\ \/ Synchronized(c) /\ Goto(c, "spin", loc[c])
     \/ Fault /\ QuiesceFailed(c)
  /\ UNCHANGED <<trackerVars, g_state, tr_state, image>>

\* ... and synchronizes the context again.
QuiesceSpinWait(c) ==
  /\ pc[c] = "spinwait"
  /\ \/ Synchronized(c) /\ Goto(c, "spin", [loc[c] EXCEPT !.n = @ + 1])
     \/ Fault /\ QuiesceFailed(c)
  /\ UNCHANGED <<trackerVars, g_state, tr_state, image>>

\* The counter is read once more after the loop; zero ends the quiesce.
QuiesceFinal(c) ==
  /\ pc[c] = "final"
  /\ IF host_callbacks > 0
       THEN QuiesceFailed(c) /\ UNCHANGED faults
       ELSE Goto(c, IF op[c] = "snapshot" THEN "shards" ELSE "set", [loc[c] EXCEPT !.n = 0])
  /\ UNCHANGED <<trackerVars, g_state, tr_state, image>>

-----------------------------------------------------------------------------
(* SNAPSHOT: ckpt_snapshot_write after the quiesce.                        *)

\* The tracked allocations of shard i.
Shard(i) == {p \in tracked \cap Ptr : ShardOf[p] = i}

\* Mutant: the last shard is not visited.
SnapshotShardShort(c) ==
  /\ pc[c] = "shards"
  /\ IF loc[c].n + 1 < kShards
       THEN Goto(c, "shards", [loc[c] EXCEPT !.list = @ \cup Shard(loc[c].n), !.n = @ + 1])
       ELSE Goto(c, "copy", [loc[c] EXCEPT !.scan = loc[c].list])
  /\ UNCHANGED <<trackerVars, g_state, tr_state, image>>

\* Mutant: the loop over the shards ends one too late.
SnapshotShardOver(c) ==
  /\ pc[c] = "shards"
  /\ IF loc[c].n <= kShards
       THEN Goto(c, "shards", [loc[c] EXCEPT !.list = @ \cup Shard(loc[c].n), !.n = @ + 1])
       ELSE Goto(c, "copy", [loc[c] EXCEPT !.scan = loc[c].list])
  /\ UNCHANGED <<trackerVars, g_state, tr_state, image>>

\* allocs_snapshot locks and lists one shard after the other.
SnapshotShard(c) ==
  /\ pc[c] = "shards"
  /\ IF loc[c].n < kShards
       THEN Goto(c, "shards", [loc[c] EXCEPT !.list = @ \cup Shard(loc[c].n), !.n = @ + 1])
       ELSE Goto(c, "copy", [loc[c] EXCEPT !.scan = loc[c].list])
  /\ UNCHANGED <<trackerVars, g_state, tr_state, image>>

\* A worker copies a listed allocation to the host; the copy of one that has
\* been freed since fails, and with it the snapshot.
SnapshotCopy(c, p) ==
  /\ pc[c] = "copy"
  /\ p \in loc[c].scan
  /\ \/ p \in live /\ Goto(c, "copy", [loc[c] EXCEPT !.scan = @ \ {p}])
     \/ p \notin live /\ Refuse(c)
     \/ Fault /\ Answer(c, "err")
  /\ UNCHANGED <<trackerVars, g_state, tr_state, image>>

\* Mutant: the tracker is marked before the last file is known to be written.
SnapshotWriteEarlyMark(c) ==
  /\ pc[c] = "copy"
  /\ loc[c].scan = {}
  /\ tr_state' = "SNAPPED"
  /\ \/ Goto(c, "mark", loc[c]) /\ image' = {loc[c].list}
     \/ Fault /\ Answer(c, "err") /\ image' \in {image, {loc[c].list}}
  /\ UNCHANGED <<trackerVars, g_state>>

\* The workers are joined; device.bin, manifest.bin and the sidecars are
\* written.  A failure may come before or after the manifest is replaced.  That a
\* write falls short without being noticed is in module Workers: every RESTORE of
\* such an image fails, as it may here.
SnapshotWrite(c) ==
  /\ pc[c] = "copy"
  /\ loc[c].scan = {}
  /\ \/ Goto(c, "mark", loc[c]) /\ image' = {loc[c].list}
     \/ Fault /\ Answer(c, "err") /\ image' \in {image, {loc[c].list}}
  /\ UNCHANGED <<trackerVars, g_state, tr_state>>

-----------------------------------------------------------------------------
(* RESTORE: ckpt_restore_load.                                             *)

\* The manifest and device.bin are opened and the context is made current.
RestoreLoad(c) ==
  /\ pc[c] = "load"
  /\ \/ \E m \in image : Goto(c, "clear", [loc[c] EXCEPT !.list = m])
     \/ image = {} /\ Refuse(c)
     \/ Fault /\ Answer(c, "err")
  /\ UNCHANGED <<trackerVars, g_state, tr_state, image>>

\* tr.clear() empties every table, one lock after the other; nothing below tells
\* that from emptying them at once.
RestoreClear(c) ==
  /\ pc[c] = "clear"
  /\ tracked' = {}
  /\ Goto(c, "modules", loc[c])
  /\ UNCHANGED <<live, owned, call, job, host_callbacks, bad, g_state, tr_state, image>>

\* Modules are loaded again.  ckpt_streams_restore then updates the streams
\* that the tracker knows, which are none after the clear.
RestoreModules(c) ==
  /\ pc[c] = "modules"
  /\ \/ Goto(c, "map", [loc[c] EXCEPT !.scan = loc[c].list])
     \/ Fault /\ Answer(c, "err")
  /\ UNCHANGED <<trackerVars, g_state, tr_state, image>>

\* One allocation is made at its old address, by cuMemAlloc if it happens to
\* return that address and else by map_at, and tracked.  An address that is
\* in use cannot be had by either.  What was mapped before a failure stays.
RestoreMap(c, p) ==
  /\ pc[c] = "map"
  /\ p \in loc[c].scan
  /\ \/ /\ p \notin live
        /\ live' = live \cup {p}
        /\ Track(p)
        /\ Goto(c, "map", [loc[c] EXCEPT !.scan = @ \ {p}])
     \/ p \in live /\ Refuse(c) /\ UNCHANGED <<live, tracked>>
     \/ Fault /\ Answer(c, "err") /\ UNCHANGED <<live, tracked>>
  /\ UNCHANGED <<owned, call, job, host_callbacks, bad, g_state, tr_state, image>>

\* The workers copy the contents to the device; the context is synchronized.
RestoreHtoD(c) ==
  /\ pc[c] = "map"
  /\ loc[c].scan = {}
  /\ \/ Synchronize(c, "sync")
     \/ Fault /\ Answer(c, "err")
  /\ UNCHANGED <<trackerVars, g_state, tr_state, image>>

RestoreSync(c) ==
  /\ pc[c] = "sync"
  /\ \/ Synchronized(c) /\ Goto(c, "mark", loc[c])
     \/ Fault /\ Answer(c, "err")
  /\ UNCHANGED <<trackerVars, g_state, tr_state, image>>

-----------------------------------------------------------------------------
(* The state word.                                                         *)

Target(o) ==
  CASE o \in {"freeze", "signal"} -> "FROZEN"
    [] o = "snapshot" -> "SNAPPED"
    [] o = "restore" -> "RESTORED"
    [] o = "resume" -> "RUNNING"

\* ckpt_snapshot_write, ckpt_restore_load and ckpt_resume_signal set the
\* tracker's copy of the state themselves, outside g_mu.
Mark(c) ==
  /\ pc[c] = "mark"
  /\ tr_state' = Target(op[c])
  /\ Goto(c, "set", loc[c])
  /\ UNCHANGED <<trackerVars, g_state, image>>

\* set_state under g_mu, then the reply.
SetState(c) ==
  /\ pc[c] = "set"
  /\ g_state' = Target(op[c])
  /\ tr_state' = Target(op[c])
  /\ Answer(c, "ok")
  /\ UNCHANGED <<trackerVars, image, faults>>

-----------------------------------------------------------------------------

Quiesce(c) ==
  \/ QuiesceCtx(c) \/ QuiesceListed(c) \/ \E h \in Stream \cup Event : QuiesceHandle(c, h)
  \/ QuiesceSpin(c) \/ QuiesceSpinWait(c) \/ QuiesceFinal(c)

Snapshot(c) ==
  \/ SnapshotCheck(c) \/ SnapshotShard(c) \/ SnapshotWrite(c)
  \/ \E p \in Ptr : SnapshotCopy(c, p)

Restore(c) ==
  \/ RestoreLoad(c) \/ RestoreClear(c) \/ RestoreModules(c) \/ RestoreHtoD(c)
  \/ RestoreSync(c) \/ \E p \in Ptr : RestoreMap(c, p)

Handler(c) == Quiesce(c) \/ Snapshot(c) \/ Restore(c) \/ Mark(c) \/ SetState(c)

\* What handlers wait for, and the ghosts, shrink with a step of the application
\* or of the driver.
HandlersSee ==
  /\ loc' = [c \in Conn |-> [loc[c] EXCEPT !.wait = @ \cap Queued',
                                          !.held = @ \cap owned',
                                          !.before = @ \cap Unfinished']]
  /\ UNCHANGED <<g_state, tr_state, pc, op, image, faults>>

AppMoves == TrackerNext /\ HandlersSee

Next ==
  \/ AppMoves
  \/ \E c \in Conn : Handler(c) \/ \E o \in Op : Accept(c, o)

\* The operating system schedules every handler thread, and the driver
\* finishes the work it has accepted.
Fairness ==
  /\ \A c \in Conn : WF_vars(Handler(c))
  /\ \A j \in Job : WF_vars(AppMoves /\ (KernelDone(j) \/ HostWrap(j)))

Spec == Init /\ [][Next]_vars
FairSpec == Spec /\ Fairness

-----------------------------------------------------------------------------
(* Properties.                                                             *)

\* A handler that has set the tracker's state and not yet g_state.
HalfSet(c) == pc[c] = "set" /\ op[c] \in {"snapshot", "restore", "resume"}

\* STATUS reports g_state and STATS the tracker's copy: they agree whenever no
\* handler is between its own write to the tracker and set_state, whatever
\* other handlers and the signal did meanwhile and however requests failed.
StateAgreement == (\A c \in Conn : ~HalfSet(c)) => g_state = tr_state

\* When the allocation listing of a SNAPSHOT is complete it holds every
\* allocation that the application has had since the request, although the
\* shards are listed one after the other while other threads allocate and free.
SnapshotComplete ==
  \A c \in Conn :
    op[c] = "snapshot" /\ pc[c] \in {"copy", "mark", "set"} => loc[c].held \subseteq loc[c].list

\* A FREEZE or SNAPSHOT whose quiesce has succeeded has waited for every kernel
\* and host function submitted before the request, also for a host function
\* that was counted and not yet queued when the context was synchronized.
QuiesceDrains ==
  \A c \in Conn :
    /\ op[c] \in {"freeze", "snapshot"}
    /\ pc[c] \in {"shards", "copy", "mark", "set"}
    => loc[c].before = {}

\* Every request is answered: ckpt_quiesce_gpu gives up on a host function that
\* never runs, and never waits for work submitted after it began to.
RequestAnswered == \A c \in Conn : pc[c] \notin Closed ~> pc[c] \in Closed
=============================================================================
