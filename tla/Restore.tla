------------------------------- MODULE Restore -------------------------------
(***************************************************************************)
(* Orchestrator.Restore (pkg/control/orchestrator.go, restore.go,          *)
(* shimctl.go): preflight, materialize, CRIU, and then polling the shim    *)
(* sockets until one process answers PING, RESTORE and RESUME on one       *)
(* connection, or the deadline has passed.  Other checkpointable processes *)
(* come and go meanwhile, and their sockets are in the same directory; a   *)
(* process that is killed, as CRIU does after a dump, leaves its socket    *)
(* file.  Rollback (rollback.go) stops the process before it restores.     *)
(***************************************************************************)
EXTENDS Integers, Sequences, FiniteSets

CONSTANTS
  Pid,        \* process ids, numbers
  R,          \* the process that CRIU restores
  Secrets,    \* how CUDACKPT_RPC_SECRET may be set: for each process, and for the
              \* orchestrator, which is number 0; "" where it is not
  OpsPerConn, \* requests a server serves on a connection: shim/ipc.c one, the mock
              \* server of pkg/rpc many
  MaxPolls,   \* polls until the deadline
  MaxOps,     \* bound on restore operations
  MaxFaults   \* bound on failing steps

ASSUME RestoreAssumption ==
  /\ Pid \subseteq Nat \ {0} /\ IsFiniteSet(Pid) /\ R \in Pid
  /\ \A f \in Secrets : DOMAIN f = {0} \cup Pid
  /\ OpsPerConn \in {"one", "many"}
  /\ MaxPolls \in Nat /\ MaxOps \in Nat /\ MaxFaults \in Nat

VARIABLES
  pc,        \* where the operation is
  pid,       \* what CRIU or restored.pid says, 0 if nothing
  pidfile,   \* restored.pid in the image, which outlives the operation; 0 if absent
  polls,     \* attempt
  cands,     \* candidates left in this poll
  conn,      \* the connection of tryShimRestore
  secret,    \* the member of Secrets that holds
  sock,      \* pids whose socket file is in the run directory
  bound,     \* pids of processes that have bound theirs
  up,        \* pids of processes that listen on it
  gpu,       \* gpu[p]: the process and its device state
  loaded,    \* ghost: processes that run and in which, since they started, a RESTORE of
             \* this operation has succeeded
  hit,       \* ghost: other processes that were sent RESTORE
  missed,    \* ghost: R was a candidate and was passed over because it did not listen
  result,    \* the pid the operation returned, 0 before and on an error
  total,     \* restores_total
  failures,  \* restore_failures_total
  rolling,   \* whether the operation is a rollback
  rollbacks, \* rollbacks_total
  ops, faults

sockets == <<sock, bound, up>>
server == <<sockets, gpu, loaded, hit, missed, secret>>
counts == <<result, total, failures, ops, rolling, rollbacks>>
vars == <<pc, pid, pidfile, polls, cands, conn, server, counts, faults>>

\* gone: there is no such process; dying: it has been sent SIGKILL; FROZEN: its GPU
\* state is not there yet; broken: a RESTORE failed half way and its addresses are taken.
Gpu == {"gone", "dying", "FROZEN", "broken", "RESTORED", "RUNNING"}

TypeOK ==
  /\ pc \in {"idle", "stop", "validate", "preflight", "materialize", "criu", "poll", "try", "ping", "restore", "resume"}
  /\ pid \in {0} \cup Pid /\ pidfile \in {0} \cup Pid /\ result \in {0} \cup Pid
  /\ polls \in 0..MaxPolls
  /\ cands \in Seq(Pid)
  /\ conn \in {"none", "open", "closed"}
  /\ sock \subseteq Pid /\ bound \subseteq sock /\ up \subseteq bound /\ loaded \subseteq Pid /\ hit \subseteq Pid \ {R}
  /\ gpu \in [Pid -> Gpu]
  /\ secret \in Secrets /\ missed \in BOOLEAN /\ rolling \in BOOLEAN
  /\ rollbacks \in 0..MaxOps /\ total \in 0..MaxOps /\ failures \in 0..MaxOps /\ ops \in 0..MaxOps
  /\ faults \in 0..MaxFaults

Init ==
  /\ pc = "idle" /\ pid = 0 /\ pidfile = 0 /\ polls = 0 /\ cands = <<>> /\ conn = "none"
  /\ secret \in Secrets
  /\ sock \in {{}, {R}} /\ bound = {} /\ up = {} /\ missed = FALSE
  /\ gpu = [p \in Pid |-> IF p = R THEN "gone" ELSE "RUNNING"]
  /\ loaded = {} /\ hit = {}
  /\ result = 0 /\ total = 0 /\ failures = 0 /\ rolling = FALSE /\ rollbacks = 0
  /\ ops = 0 /\ faults = 0

-----------------------------------------------------------------------------

Fault == faults < MaxFaults /\ faults' = faults + 1

\* The operation returns, and its locals go, except for what properties say of pid.
Return ==
  /\ pc' = "idle" /\ polls' = 0 /\ cands' = <<>> /\ conn' = "none" /\ rolling' = FALSE
  /\ UNCHANGED <<pid, ops>>

\* ... with an error, which it counts.
Fail ==
  /\ Return
  /\ failures' = failures + 1
  /\ UNCHANGED <<result, total, rollbacks>>

Goto(l) ==
  /\ pc' = l
  /\ UNCHANGED <<pid, polls, cands, conn, counts>>

\* What an operation starts with.
Fresh ==
  /\ ops < MaxOps
  /\ pid' = 0 /\ result' = 0 /\ loaded' = {} /\ hit' = {} /\ missed' = FALSE
  /\ UNCHANGED <<pidfile, polls, cands, conn, sockets, secret, total, failures, rollbacks, faults>>

Start ==
  /\ pc = "idle" /\ gpu[R] = "gone"
  /\ pc' = "preflight" /\ ops' = ops + 1 /\ rolling' = FALSE
  /\ Fresh /\ UNCHANGED gpu

\* Rollback with the pid of the process that is to go, if it is there.
StartRollback ==
  /\ pc = "idle"
  /\ pc' = IF gpu[R] = "gone" THEN "validate" ELSE "stop"
  /\ rolling' = TRUE
  /\ Fresh /\ UNCHANGED <<gpu, ops>>

\* A process ends; its destructor removes the socket file if it may run.
Ends(p) ==
  /\ gpu' = [gpu EXCEPT ![p] = "gone"]
  /\ bound' = bound \ {p} /\ up' = up \ {p}
  /\ sock' \in {sock, sock \ {p}}
  /\ loaded' = loaded \ {p}

\* stopProcess: SIGTERM, a wait, and then SIGKILL, after which it does not wait, and
\* which is an error when the process has ended just before.
Stop ==
  /\ pc = "stop"
  /\ \/ Ends(R) /\ Goto("validate")
     \/ gpu' = [gpu EXCEPT ![R] = "dying"] /\ Goto("validate") /\ UNCHANGED <<sockets, loaded>>
     \/ Ends(R) /\ Return /\ UNCHANGED <<result, total, failures, rollbacks>>
  /\ UNCHANGED <<pidfile, hit, missed, secret, faults>>

\* ValidateImage, whose error is returned as it is; then Restore.
Validate ==
  /\ pc = "validate"
  /\ \/ /\ pc' = "preflight" /\ ops' = ops + 1
        /\ UNCHANGED <<pid, polls, cands, conn, result, total, failures, rolling, rollbacks, faults>>
     \/ Fault /\ Return /\ UNCHANGED <<result, total, failures, rollbacks>>
  /\ UNCHANGED <<server, pidfile>>

\* Mutant: the error is returned without being counted.
PreflightUncounted ==
  /\ pc = "preflight"
  /\ \/ Goto("materialize") /\ UNCHANGED faults
     \/ Fault /\ Goto("idle")
  /\ UNCHANGED <<server, pidfile>>

\* PreflightRestore looks at the marker, the files and the manifest.
Preflight ==
  /\ pc = "preflight"
  /\ \/ Goto("materialize") /\ UNCHANGED faults
     \/ Fault /\ Fail
  /\ UNCHANGED <<server, pidfile>>

\* EnsureDeviceMaterialized; see module Images.
Materialize ==
  /\ pc = "materialize"
  /\ \/ Goto("criu") /\ UNCHANGED faults
     \/ Fault /\ Fail
  /\ UNCHANGED <<server, pidfile>>

\* criu.Restore runs CRIU and looks for the pid in restored.pid, which CRIU may
\* have written or an earlier restore of this image have left, and in CRIU's
\* output.  A pid is recorded in restored.pid.  The process may not have its socket
\* yet.  CRIU cannot restore a process whose pid is taken.
Criu ==
  /\ pc = "criu"
  /\ \/ /\ gpu[R] = "gone"
        /\ gpu' = [gpu EXCEPT ![R] = "FROZEN"]
        /\ \E told \in {R, pidfile} : pid' = told /\ pidfile' = told
        /\ pc' = "poll" /\ polls' = 0
        /\ UNCHANGED <<cands, conn, sockets, loaded, hit, missed, secret, counts, faults>>
     \/ gpu[R] # "gone" /\ Fail /\ UNCHANGED <<server, pidfile, faults>>
     \/ Fault /\ Fail /\ UNCHANGED <<server, pidfile>>

\* sortedShims: the members of S in increasing order, which is one sequence.
Sorted(S) ==
  {q \in [1..Cardinality(S) -> S] : \A i, j \in 1..Cardinality(S) : i < j => q[i] < q[j]}

\* resolveRestorePID: pid is 0 only when there is no restored.pid either.
Target(shims) == IF pid # 0 THEN pid ELSE IF shims # <<>> THEN shims[1] ELSE 0

\* Mutant: the candidates are tried in the order of their pids.
restoreCandidatesSorted(primary) == Sorted(sock)

\* restoreCandidates: the primary first, then every other shim, in one sequence.
restoreCandidates(primary) ==
  {(IF primary # 0 THEN <<primary>> ELSE <<>>) \o q : q \in Sorted(sock \ {primary})}

\* The wait for the target's socket, and the candidates once it is there.
AwaitTarget(target) ==
  IF target # 0 /\ target \notin sock
    THEN UNCHANGED <<pc, cands>>
    ELSE pc' = "try" /\ cands' \in restoreCandidates(target)

\* Mutant: the loop is not bounded by the deadline.
PollForever ==
  /\ pc = "poll"
  /\ \E shims \in Sorted(sock) : AwaitTarget(Target(shims))
  /\ UNCHANGED <<pid, polls, conn, counts, server, pidfile, faults>>

\* Mutant: the deadline is compared with <= instead of <.
PollOnceMore ==
  /\ pc = "poll"
  /\ polls <= MaxPolls
  /\ polls' = polls + 1
  /\ \E shims \in Sorted(sock) : AwaitTarget(Target(shims))
  /\ UNCHANGED <<pid, conn, counts, server, pidfile, faults>>

\* The head of the loop: the deadline; the listing of the run directory, which
\* may fail; the wait for the target's socket.
Poll ==
  /\ pc = "poll"
  /\ \/ polls = MaxPolls /\ Fail /\ UNCHANGED faults
     \/ /\ polls < MaxPolls
        /\ polls' = polls + 1
        /\ \/ (\E shims \in Sorted(sock) : AwaitTarget(Target(shims))) /\ UNCHANGED faults
           \/ Fault /\ UNCHANGED <<pc, cands>>
        /\ UNCHANGED <<pid, conn, counts>>
  /\ UNCHANGED <<server, pidfile>>

\* dial and authenticate: where there is a secret it is sent first, and refused by
\* a server with another one, and by a server with none, which takes AUTH for an
\* unknown request.
Dials(p) == p \in up /\ secret[0] \in {"", secret[p]}

\* The loop over the candidates ends, skips one without a socket file, or dials it.
Try ==
  /\ pc = "try"
  /\ \/ cands = <<>> /\ Goto("poll") /\ UNCHANGED <<missed, faults>>
     \/ /\ cands # <<>> /\ Head(cands) \in sock /\ Dials(Head(cands))
        /\ pc' = "ping" /\ conn' = "open"
        /\ UNCHANGED <<pid, polls, cands, counts, missed, faults>>
     \/ /\ cands # <<>>
        /\ \/ (Head(cands) \notin sock \/ ~Dials(Head(cands))) /\ UNCHANGED faults
           \/ Fault
        /\ cands' = Tail(cands)
        /\ missed' = (missed \/ (Head(cands) = R /\ R \notin up))
        /\ UNCHANGED <<pc, pid, polls, conn, counts>>
  /\ UNCHANGED <<sockets, gpu, loaded, hit, secret, pidfile>>

\* tryShimRestore returns an error, the connection is closed, the next candidate
\* follows.
GiveUp ==
  /\ pc' = "try" /\ cands' = Tail(cands) /\ conn' = "none"
  /\ UNCHANGED <<pid, polls, counts>>

\* What the server has done with the connection when it has answered.
Answered == IF OpsPerConn = "one" THEN "closed" ELSE "open"

\* A call fails: the server has closed, or the process it was in has ended, whether
\* or not there is another with its pid; or the call itself fails.
CallFails == (conn = "closed" /\ UNCHANGED faults) \/ Fault

CallReaches == conn = "open"

\* Mutant: a connection without a secret is served.
ServesAll(p) == TRUE

\* require_auth: a server that has a secret serves only a connection that began
\* with it, and answers any other request with 2.
Serves(p) == secret[p] \in {"", secret[0]}

Ping ==
  /\ pc = "ping"
  /\ \/ CallReaches /\ ~Serves(Head(cands)) /\ GiveUp /\ UNCHANGED faults
     \/ CallReaches /\ Serves(Head(cands)) /\ pc' = "restore" /\ conn' = Answered
        /\ UNCHANGED <<pid, polls, cands, counts, faults>>
     \/ CallFails /\ GiveUp
  /\ UNCHANGED <<server, pidfile>>

\* Mutant: the return code of RESTORE is not looked at.
RestoreUnchecked ==
  LET p == Head(cands)
  IN  /\ pc = "restore"
      /\ pc' = "resume" /\ conn' = Answered
      /\ hit' = hit \cup ({p} \ {R})
      /\ UNCHANGED <<pid, pidfile, polls, cands, counts, faults, sockets, gpu, loaded, missed, secret>>

\* RESTORE at the candidate: ckpt_restore_load maps the image's addresses, which
\* only works where they are free; a process that runs may have them or not.
\* A failure may come before or after the first address has been mapped.
RestoreCall ==
  LET p == Head(cands)
  IN  /\ pc = "restore"
      /\ hit' = IF CallReaches THEN hit \cup ({p} \ {R}) ELSE hit
      /\ \/ /\ CallReaches /\ gpu[p] \in {"FROZEN", "RUNNING"}
            /\ gpu' = [gpu EXCEPT ![p] = "RESTORED"]
            /\ loaded' = loaded \cup {p}
            /\ pc' = "resume" /\ conn' = Answered
            /\ UNCHANGED <<pid, polls, cands, counts, faults>>
         \/ /\ CallReaches /\ gpu[p] # "FROZEN"
            /\ GiveUp /\ UNCHANGED <<gpu, loaded, faults>>
         \/ /\ CallReaches /\ Fault /\ GiveUp
            /\ gpu' \in {gpu, [gpu EXCEPT ![p] = "broken"]}
            /\ UNCHANGED loaded
         \/ ~CallReaches /\ GiveUp /\ UNCHANGED <<gpu, loaded, faults>>
      /\ UNCHANGED <<sockets, missed, secret, pidfile>>

\* Mutant: the operation returns without sending RESUME.
ResumeSkipped ==
  /\ pc = "resume"
  /\ \/ /\ CallReaches
        /\ Return
        /\ result' = Head(cands) /\ pidfile' = Head(cands) /\ total' = total + 1
        /\ rollbacks' = IF rolling THEN rollbacks + 1 ELSE rollbacks
        /\ UNCHANGED <<failures, faults>>
     \/ CallFails /\ GiveUp /\ UNCHANGED pidfile
  /\ UNCHANGED server

\* RESUME, and the operation returns.  Its answer may be lost.
Resume ==
  LET p == Head(cands)
  IN  /\ pc = "resume"
      /\ \/ /\ CallReaches
            /\ gpu' = [gpu EXCEPT ![p] = "RUNNING"]
            /\ Return
            /\ result' = p /\ pidfile' = p /\ total' = total + 1
            /\ rollbacks' = IF rolling THEN rollbacks + 1 ELSE rollbacks
            /\ UNCHANGED <<failures, faults>>
         \/ CallFails /\ GiveUp /\ UNCHANGED <<gpu, pidfile>>
         \/ /\ CallReaches /\ Fault /\ GiveUp
            /\ gpu' = [gpu EXCEPT ![p] = "RUNNING"]
            /\ UNCHANGED pidfile
      /\ UNCHANGED <<sockets, loaded, hit, missed, secret>>

Orchestrator ==
  Stop \/ Validate \/ Preflight \/ Materialize \/ Criu \/ Poll \/ Try \/ Ping \/ RestoreCall \/ Resume

\* ckpt_ipc_init removes a socket file that is there, binds, which makes the file, and
\* listens, from when on a dial is not refused; CRIU does the same for R.
Unlink(p) == p \in sock \ bound /\ sock' = sock \ {p} /\ UNCHANGED <<bound, up>>
Bind(p) == p \notin sock /\ sock' = sock \cup {p} /\ bound' = bound \cup {p} /\ UNCHANGED up
Listen(p) == p \in bound \ up /\ up' = up \cup {p} /\ UNCHANGED <<sock, bound>>

\* A connection to a process that has ended is broken.
Breaks(p) == conn' = IF conn # "none" /\ Head(cands) = p THEN "closed" ELSE conn

\* Processes start, make their sockets and end, the others at any time, and the
\* restored one between operations, after a SIGKILL or, which counts as a failure,
\* while it is being restored.
Process ==
  /\ \E p \in Pid :
       \/ /\ gpu[p] \notin {"gone", "dying"}
          /\ Unlink(p) \/ Bind(p) \/ Listen(p)
          /\ UNCHANGED <<gpu, loaded, conn, faults>>
       \/ /\ gpu[p] # "gone" /\ Ends(p) /\ Breaks(p)
          /\ \/ (p # R \/ pc = "idle" \/ gpu[p] = "dying") /\ UNCHANGED faults
             \/ p = R /\ Fault
       \/ /\ p # R /\ gpu[p] = "gone"
          /\ gpu' = [gpu EXCEPT ![p] = "RUNNING"] /\ UNCHANGED <<sockets, loaded, conn, faults>>
  /\ UNCHANGED <<pc, pid, pidfile, polls, cands, hit, missed, secret, counts>>

Next == Start \/ StartRollback \/ Orchestrator \/ Process

Spec == Init /\ [][Next]_vars
FairSpec == Spec /\ WF_vars(Orchestrator)

-----------------------------------------------------------------------------
(* Properties.                                                             *)

\* docs/OPERATIONS.md, lines 157 to 159: a restore adds one to exactly one of its
\* two counters, however it ends and however many candidates it tried; a rollback
\* is counted only when its restore is.
RestoreCounted == pc = "idle" => total + failures = ops /\ rollbacks <= total

\* A process that is reported as restored has had its GPU state loaded by this
\* operation: not by an earlier one, and not in an earlier process with its pid that
\* ended between RESTORE and RESUME.
ReportedIsLoaded == [][result' \notin {0, result} => result' \in loaded]_vars

\* When CRIU names the process, nothing fails and the process has the orchestrator's
\* secret, no other process's tracker is cleared by a RESTORE that was not meant for
\* it, and no other is reported.  One thing takes that away: the orchestrator waits
\* for the socket file of the process and not for the process.  If the file is there
\* and nobody listens, because it is left from the process's earlier life or because
\* the process has bound and not come to listen yet, and the process is dialled just
\* then, the dial is refused and the others are tried.
BystandersUntouched ==
  pid = R /\ faults = 0 /\ ~missed /\ secret[R] = secret[0] => hit = {} /\ result \in {0, R}

\* docs/CONFIG.md, line 38: whatever candidates are tried, only processes with the
\* orchestrator's secret are sent RESTORE.
OwnSecretOnly == \A p \in hit \cup loaded : secret[p] = secret[0]

\* Every restore and every rollback ends: at the deadline if not before.
RestoreEnds == pc # "idle" ~> pc = "idle"

\* docs/OPERATIONS.md, lines 58 and 59: when the process is back, CRIU has named it,
\* its socket accepts and it has the secret (docs/CONFIG.md, line 51), the GPU
\* state is restored and the application resumed, unless something fails.
RestoreCompletes ==
  pc = "poll" /\ polls = 0 /\ pid = R /\ R \in up /\ secret[R] = secret[0]
    ~> gpu[R] = "RUNNING" \/ faults > 0
=============================================================================
