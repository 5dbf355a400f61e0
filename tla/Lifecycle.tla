----------------------------- MODULE Lifecycle -----------------------------
(***************************************************************************)
(* One application through a whole checkpoint and restore: its threads     *)
(* park in the hooks of the shim (ckpt_wait_frozen and ckpt_app_resumed,   *)
(* shim/ipc.c, called one after the other as in tests/integration), the    *)
(* orchestrator asks for FREEZE and SNAPSHOT, CRIU dumps the process and   *)
(* brings it back with an empty device, and the orchestrator asks for      *)
(* RESTORE and RESUME.  Device memory has contents here.                   *)
(***************************************************************************)
EXTENDS Shim

CONSTANTS
  Value,   \* contents of an allocation
  Garbage  \* what an allocation holds when nothing has been written to it

\* The orchestrator has one connection at a time.
ASSUME LifeAssumption == \E c \in Conn : Conn = {c}

VARIABLES
  hook,   \* hook[t]: where thread t is in the two hooks
  mem,    \* mem[p]: what the device holds at p
  copied, \* copied[p]: what the running SNAPSHOT has copied of p
  saved,  \* saved[p]: what device.bin holds of p
  asked,  \* the last thing the orchestrator asked for
  quiet,  \* ghost: all threads have been parked since before the last SNAPSHOT
  sound,  \* ghost: no dump has been taken of an application that was not parked
  view    \* ghost: the memory at a sound dump; {} again once the application
          \* has gone on

lifeVars == <<hook, mem, copied, saved, asked, quiet, sound, view>>
allVars == <<vars, lifeVars>>

Blank == [p \in Ptr |-> Garbage]

\* A process that was started under CUDACKPT_NEED_GPU begins FROZEN.
LifeInit ==
  /\ Init
  /\ hook = [t \in Thread |-> "run"]
  /\ mem = Blank /\ copied = Blank /\ saved = Blank
  /\ asked = "none" /\ quiet = FALSE /\ sound = TRUE /\ view = {}

-----------------------------------------------------------------------------
(* The hooks.  A thread looks at g_state under g_mu and waits on g_cv,     *)
(* which gives g_mu up in the same step; set_state wakes the waiting       *)
(* threads, and each looks again when it gets g_mu.                        *)

Frozen == {"FROZEN", "SNAPPED"}     \* what ckpt_wait_frozen waits for
Resumed == {"RUNNING", "RESTORED"}  \* what ckpt_app_resumed waits for

Hook(t, from, to) ==
  /\ hook[t] \in from
  /\ hook' = [hook EXCEPT ![t] = to]
  /\ UNCHANGED <<vars, mem, copied, saved, asked, quiet, sound>>

\* ckpt_wait_frozen is entered, or a waiting thread has been woken.
WaitFrozen(t) ==
  /\ call[t] = NoCall
  /\ Hook(t, {"run", "wokeF"}, IF g_state \in Frozen THEN "between" ELSE "waitF")
  /\ UNCHANGED view

\* ckpt_app_resumed likewise.
AppResumed(t) ==
  /\ Hook(t, {"between", "wokeR"}, IF g_state \in Resumed THEN "run" ELSE "waitR")
  /\ UNCHANGED view

\* Mutant: the state is set without the broadcast.
WakeNone(h) == h

\* pthread_cond_broadcast
Wake(h) ==
  [t \in Thread |-> CASE h[t] = "waitF" -> "wokeF"
                      [] h[t] = "waitR" -> "wokeR"
                      [] OTHER -> h[t]]

-----------------------------------------------------------------------------
(* The shim and the application, with the contents of memory.              *)

\* What a step of a handler does besides: set_state wakes the waiting threads,
\* a worker of SNAPSHOT copies, the image is written, the workers of RESTORE
\* write the device.
ServerStep(c) ==
  /\ Handler(c)
  /\ hook' = IF pc[c] = "set" THEN Wake(hook) ELSE hook
  /\ copied' = [p \in Ptr |->
       IF op[c] = "snapshot" /\ pc[c] = "copy" /\ p \in loc[c].scan \ loc'[c].scan
         THEN mem[p] ELSE copied[p]]
  /\ saved' = IF pc[c] = "copy" /\ pc'[c] = "mark" THEN copied ELSE saved
  /\ mem' = [p \in Ptr |->
       IF pc[c] = "map" /\ pc'[c] = "sync" /\ p \in loc[c].list THEN saved[p] ELSE mem[p]]
  /\ UNCHANGED <<asked, quiet, sound, view>>

Parked == {"waitR", "wokeR"}

\* A thread uses the GPU when it is not in a hook.
ThreadStep ==
  /\ \E t \in Thread : hook[t] = "run" /\ AppStep(t)
  /\ HandlersSee
  /\ quiet' = FALSE /\ view' = {}
  /\ UNCHANGED <<hook, mem, copied, saved, asked, sound>>

\* The driver goes on, also while the threads are parked: a kernel that ends
\* leaves its result in one of the allocations.
DeviceStep ==
  /\ \E j \in Job :
       \/ KernelDone(j) /\ \E p \in Ptr, v \in Value : mem' = [mem EXCEPT ![p] = v]
       \/ HostWrap(j) /\ UNCHANGED mem
  /\ HandlersSee
  /\ UNCHANGED <<hook, copied, saved, asked, quiet, sound, view>>

-----------------------------------------------------------------------------
(* The orchestrator and CRIU.                                              *)

\* The answer to the last request, when it is one of r.
Answered(r) == \A c \in Conn : pc[c] \in r

\* What may be asked for next: SNAPSHOT after a FREEZE; RESTORE, again if it
\* fails, after CRIU has brought the process back; RESUME after RESTORE, or from
\* an operator after a checkpoint that went wrong.
MayAsk(o) ==
  \/ o = "freeze" /\ asked \in {"none", "freeze", "snapshot", "resume"}
  \/ o = "snapshot" /\ asked = "freeze" /\ Answered({"ok"})
  \/ o = "restore" /\ asked = "dump"
  \/ o = "restore" /\ asked = "restore" /\ Answered({"err"})
  \/ o = "resume" /\ asked \in {"freeze", "snapshot"}
  \/ o = "resume" /\ asked = "restore" /\ Answered({"ok"})

Ask(c, o) ==
  /\ Answered(Closed)
  /\ MayAsk(o)
  /\ Accept(c, o)
  /\ asked' = o
  /\ quiet' = IF o = "snapshot" THEN \A t \in Thread : hook[t] \in Parked ELSE quiet
  /\ copied' = IF o = "snapshot" THEN Blank ELSE copied
  /\ UNCHANGED <<hook, mem, saved, sound, view>>

\* After a SNAPSHOT that succeeded CRIU dumps the process and ends it, and later
\* restores it: the host side is as it was, the device has nothing, and work
\* that was queued is gone.
Criu ==
  /\ asked = "snapshot" /\ Answered({"ok"})
  /\ asked' = "dump"
  /\ live' = {}
  /\ job' = [j \in Job |-> CASE job[j] = "kernel" -> "free"
                             [] job[j] = "callback" -> "leaked"
                             [] OTHER -> job[j]]
  /\ mem' = Blank
  /\ sound' = (sound /\ quiet)
  /\ view' = IF sound' THEN {mem} ELSE {}
  /\ UNCHANGED <<tracked, owned, call, host_callbacks, bad, shimVars, hook, copied, saved, quiet>>

LifeNext ==
  \/ \E t \in Thread : WaitFrozen(t) \/ AppResumed(t)
  \/ ThreadStep \/ DeviceStep
  \/ \E c \in Conn : ServerStep(c) \/ \E o \in Op : Ask(c, o)
  \/ Criu

\* Handler threads, and threads that have been woken or are in a hook, are
\* scheduled.
LifeSpec ==
  /\ LifeInit /\ [][LifeNext]_allVars
  /\ \A c \in Conn : WF_allVars(ServerStep(c))
  /\ \A t \in Thread : WF_allVars(AppResumed(t))

-----------------------------------------------------------------------------
(* Properties.                                                             *)

\* An application whose threads were parked in ckpt_app_resumed when SNAPSHOT was
\* asked for goes on, after the dump, CRIU and RESTORE, with the device memory it
\* had: every allocation at its address, tracked, with its contents, those that
\* kernels still running at the request left included.
ResumesWhereItLeft ==
  \A m \in view : (\E t \in Thread : hook[t] = "run") =>
    \A p \in owned \cap Ptr : p \in live \cap tracked /\ mem[p] = m[p]

\* A thread parked in ckpt_app_resumed returns if the application is resumed and
\* not frozen again meanwhile: no wakeup is lost.
ParkedReturns ==
  \A t \in Thread :
    hook[t] \in Parked /\ g_state \in Resumed ~> hook[t] \notin Parked \/ g_state \notin Resumed
=============================================================================
