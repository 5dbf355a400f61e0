---------------------------- MODULE RestoreProofs ----------------------------
(***************************************************************************)
(* Proofs about module Restore: the counters, what is reported, which      *)
(* processes are sent RESTORE.  They hold for every set of processes, every*)
(* setting of the secrets and every bound.                                 *)
(***************************************************************************)
EXTENDS Restore, TLAPS, FiniteSetTheorems

Asking == {"ping", "restore", "resume"}
Early == {"stop", "validate", "preflight", "materialize", "criu"}

-----------------------------------------------------------------------------
(* The parts of the type invariant.                                        *)

OpType ==
  /\ pc \in {"idle", "stop", "validate", "preflight", "materialize", "criu", "poll", "try", "ping", "restore", "resume"}
  /\ pid \in {0} \cup Pid /\ pidfile \in {0} \cup Pid /\ result \in {0} \cup Pid
  /\ polls \in 0..MaxPolls
  /\ cands \in Seq(Pid)
  /\ conn \in {"none", "open", "closed"}

ServerType ==
  /\ sock \subseteq Pid /\ bound \subseteq sock /\ up \subseteq bound /\ loaded \subseteq Pid /\ hit \subseteq Pid \ {R}
  /\ gpu \in [Pid -> Gpu]
  /\ secret \in Secrets

FlagType == missed \in BOOLEAN /\ rolling \in BOOLEAN

CountType ==
  /\ rollbacks \in 0..MaxOps /\ total \in 0..MaxOps /\ failures \in 0..MaxOps /\ ops \in 0..MaxOps

FaultType == faults \in 0..MaxFaults

-----------------------------------------------------------------------------
(* The inductive invariant.                                                *)

\* What each position of the operation has counted.
CountInv ==
  /\ pc \in {"stop", "validate"} => ops < MaxOps
  /\ IF pc \in {"idle", "stop", "validate"} THEN total + failures = ops
                                            ELSE total + failures + 1 = ops
  /\ rollbacks <= total

\* A candidate that is sent RESUME has been loaded by this operation and has not
\* ended since, or the connection is broken.
LoadInv ==
  /\ pc \in Asking => cands # <<>>
  /\ pc = "resume" /\ conn = "open" => Head(cands) \in loaded
  /\ pc # "idle" => result = 0

\* The dial shows that the candidate takes the orchestrator's secret if there is one,
\* the answer to PING that there is one if the candidate has.
SecretInv ==
  /\ pc = "ping" => secret[0] \in {"", secret[Head(cands)]}
  /\ pc \in {"restore", "resume"} => secret[Head(cands)] = secret[0]
  /\ OwnSecretOnly

\* The case BystandersUntouched is about.
Named == pid = R /\ faults = 0 /\ missed = FALSE /\ secret[R] = secret[0]

\* Where a connection serves many requests and CRIU has named the process, it is the
\* candidate once its socket file is there, and as long as it has not been passed
\* over; it is frozen until its RESTORE and does not go away.
NamedInv ==
  (Named /\ OpsPerConn = "many") =>
    /\ pc \in {"poll", "try", "ping", "restore"} => gpu[R] = "FROZEN"
    /\ pc = "resume" => gpu[R] = "RESTORED"
    /\ pc \in {"try"} \cup Asking => cands # <<>> /\ Head(cands) = R
    /\ pc \in Asking => conn = "open"
    /\ hit = {} /\ result \in {0, R}

\* Where it serves one, RESTORE always finds the connection closed.
OneInv ==
  OpsPerConn = "one" =>
    /\ hit = {} /\ loaded = {} /\ result = 0
    /\ pc # "resume"
    /\ pc = "restore" => conn = "closed"

\* Until CRIU has run nothing is known of the process and nothing has been sent.
EarlyInv == pc \in Early => pid = 0 /\ hit = {} /\ loaded = {} /\ result = 0

RestoreInv ==
  /\ OpType /\ ServerType /\ FlagType /\ CountType /\ FaultType
  /\ CountInv /\ LoadInv /\ SecretInv /\ EarlyInv /\ NamedInv /\ OneInv

-----------------------------------------------------------------------------
(* Facts about the operators.                                              *)

\* No candidates, and no polls yet.
LEMMA EmptyType == <<>> \in Seq(Pid) /\ 0 \in 0..MaxPolls
BY RestoreAssumption

\* A sorted listing is a sequence of the members of the set.
LEMMA SortedType ==
  ASSUME NEW S \in SUBSET Pid, NEW q \in Sorted(S)
  PROVE  q \in Seq(Pid) /\ (q # <<>> => q[1] \in S)
<1>1. IsFiniteSet(S)
  BY RestoreAssumption, FS_Subset
<1>2. Cardinality(S) \in Nat
  BY <1>1, FS_CardinalityType
<1>3. q \in [1..Cardinality(S) -> S]
  BY DEF Sorted
<1> QED
  BY <1>2, <1>3

\* The candidates are processes, and the primary is the first.
LEMMA CandidatesType ==
  ASSUME ServerType, NEW primary \in {0} \cup Pid, NEW cs \in restoreCandidates(primary)
  PROVE  /\ cs \in Seq(Pid)
         /\ primary # 0 => cs # <<>> /\ Head(cs) = primary
<1>1. PICK q \in Sorted(sock \ {primary}) : cs = (IF primary # 0 THEN <<primary>> ELSE <<>>) \o q
  BY DEF restoreCandidates
<1>2. q \in Seq(Pid)
  BY <1>1, SortedType DEF ServerType
<1>3. CASE primary = 0
  BY <1>1, <1>2, <1>3
<1>4. CASE primary # 0
  <2>1. primary \in Pid /\ <<primary>> \in Seq(Pid)
    BY <1>4
  <2>2. cs = <<primary>> \o q
    BY <1>1, <1>4
  <2>3. cs \in Seq(Pid) /\ Len(cs) = 1 + Len(q) /\ cs[1] = primary
    BY <1>2, <2>1, <2>2
  <2> QED
    BY <1>2, <2>3
<1> QED
  BY <1>3, <1>4

\* resolveRestorePID gives a process, or 0.
LEMMA TargetType ==
  ASSUME OpType, ServerType, NEW shims \in Sorted(sock)
  PROVE  /\ Target(shims) \in {0} \cup Pid
         /\ pid # 0 => Target(shims) = pid
<1>1. sock \in SUBSET Pid
  BY DEF ServerType
<1> QED
  BY <1>1, SortedType DEF Target, OpType

\* The invariant holds at first.
LEMMA InitInv == Init => RestoreInv
<1> SUFFICES ASSUME Init PROVE RestoreInv
  OBVIOUS
<1> USE RestoreAssumption DEF Init
<1>1. OpType /\ ServerType /\ FlagType /\ CountType /\ FaultType
  BY DEF OpType, ServerType, FlagType, CountType, FaultType, Gpu
<1>2. CountInv /\ LoadInv /\ EarlyInv /\ NamedInv /\ OneInv
  BY DEF CountInv, LoadInv, EarlyInv, Early, Asking, NamedInv, OneInv
<1>3. SecretInv
  BY DEF SecretInv, OwnSecretOnly
<1> QED
  BY <1>1, <1>2, <1>3 DEF RestoreInv

-----------------------------------------------------------------------------
(* The steps.                                                              *)

\* An operator starts a restore.
LEMMA StartInv == RestoreInv /\ Start => RestoreInv'
<1> SUFFICES ASSUME RestoreInv, Start PROVE RestoreInv'
  OBVIOUS
<1> USE RestoreAssumption DEF RestoreInv, server, sockets, counts
<1>1. OpType'
  BY DEF OpType, LoadInv, Asking, Start, Fresh
<1>2. ServerType'
  BY DEF ServerType, Gpu, OpType, LoadInv, Asking, Start, Fresh
<1>3. FlagType'
  BY Zenon DEF FlagType, Start, Fresh
<1>4. CountType'
  BY DEF CountType, CountInv, Start, Fresh
<1>5. FaultType'
  BY DEF FaultType, Start, Fresh
<1>6. CountInv'
  BY DEF CountInv, CountType, OpType, Start, Fresh
<1>7. LoadInv'
  BY DEF LoadInv, Asking, OpType, EarlyInv, Early, Start, Fresh
<1>8. SecretInv'
  BY DEF SecretInv, OwnSecretOnly, LoadInv, Asking, Start, Fresh
<1>9. EarlyInv'
  BY DEF EarlyInv, Early, LoadInv, Start, Fresh
<1>10. NamedInv'
  BY DEF NamedInv, Named, OpType, ServerType, FaultType, EarlyInv, Early, Asking, LoadInv, Start, Fresh
<1>11. OneInv'
  BY DEF OneInv, LoadInv, OpType, Start, Fresh
<1> QED
  BY <1>1, <1>2, <1>3, <1>4, <1>5, <1>6, <1>7, <1>8, <1>9, <1>10, <1>11

\* An operator starts a rollback.
LEMMA StartRollbackInv == RestoreInv /\ StartRollback => RestoreInv'
<1> SUFFICES ASSUME RestoreInv, StartRollback PROVE RestoreInv'
  OBVIOUS
<1> USE RestoreAssumption DEF RestoreInv, server, sockets, counts
<1>1. OpType'
  BY DEF OpType, LoadInv, Asking, StartRollback, Fresh
<1>2. ServerType'
  BY DEF ServerType, Gpu, OpType, LoadInv, Asking, StartRollback, Fresh
<1>3. FlagType'
  BY Zenon DEF FlagType, StartRollback, Fresh
<1>4. CountType'
  BY DEF CountType, CountInv, StartRollback, Fresh
<1>5. FaultType'
  BY DEF FaultType, StartRollback, Fresh
<1>6. CountInv'
  BY DEF CountInv, CountType, OpType, StartRollback, Fresh
<1>7. LoadInv'
  BY DEF LoadInv, Asking, OpType, EarlyInv, Early, StartRollback, Fresh
<1>8. SecretInv'
  BY DEF SecretInv, OwnSecretOnly, LoadInv, Asking, StartRollback, Fresh
<1>9. EarlyInv'
  BY DEF EarlyInv, Early, LoadInv, StartRollback, Fresh
<1>10. NamedInv'
  BY DEF NamedInv, Named, OpType, ServerType, FaultType, EarlyInv, Early, Asking, LoadInv, StartRollback, Fresh
<1>11. OneInv'
  BY DEF OneInv, LoadInv, OpType, StartRollback, Fresh
<1> QED
  BY <1>1, <1>2, <1>3, <1>4, <1>5, <1>6, <1>7, <1>8, <1>9, <1>10, <1>11

\* Rollback stops the process.
LEMMA StopInv == RestoreInv /\ Stop => RestoreInv'
<1> SUFFICES ASSUME RestoreInv, Stop PROVE RestoreInv'
  OBVIOUS
<1> USE RestoreAssumption DEF RestoreInv, server, sockets, counts
<1>1. OpType'
  BY EmptyType DEF OpType, LoadInv, Asking, Stop, Ends, Goto, Return
<1>2. ServerType'
  BY DEF ServerType, Gpu, OpType, LoadInv, Asking, Stop, Ends, Goto, Return
<1>3. FlagType'
  BY Zenon DEF FlagType, Stop, Ends, Goto, Return
<1>4. CountType'
  BY DEF CountType, CountInv, Stop, Ends, Goto, Return
<1>5. FaultType'
  BY DEF FaultType, Stop, Ends, Goto, Return
<1>6. CountInv'
  BY DEF CountInv, CountType, OpType, Stop, Ends, Goto, Return
<1>7. LoadInv'
  BY DEF LoadInv, Asking, OpType, EarlyInv, Early, Stop, Ends, Goto, Return
<1>8. SecretInv'
  BY DEF SecretInv, OwnSecretOnly, LoadInv, Asking, Stop, Ends, Goto, Return
<1>9. EarlyInv'
  BY DEF EarlyInv, Early, LoadInv, Stop, Ends, Goto, Return
<1>10. NamedInv'
  BY DEF NamedInv, Named, OpType, ServerType, FaultType, EarlyInv, Early, Asking, LoadInv, Stop, Ends, Goto, Return
<1>11. OneInv'
  BY DEF OneInv, LoadInv, OpType, Stop, Ends, Goto, Return
<1> QED
  BY <1>1, <1>2, <1>3, <1>4, <1>5, <1>6, <1>7, <1>8, <1>9, <1>10, <1>11

\* Rollback validates the image.
LEMMA ValidateInv == RestoreInv /\ Validate => RestoreInv'
<1> SUFFICES ASSUME RestoreInv, Validate PROVE RestoreInv'
  OBVIOUS
<1> USE RestoreAssumption DEF RestoreInv, server, sockets, counts
<1>1. OpType'
  BY EmptyType DEF OpType, LoadInv, Asking, Validate, Return, Fault
<1>2. ServerType'
  BY DEF ServerType, Gpu, OpType, LoadInv, Asking, Validate, Return, Fault
<1>3. FlagType'
  BY Zenon DEF FlagType, Validate, Return, Fault
<1>4. CountType'
  BY DEF CountType, CountInv, Validate, Return, Fault
<1>5. FaultType'
  BY DEF FaultType, Validate, Return, Fault
<1>6. CountInv'
  BY DEF CountInv, CountType, OpType, Validate, Return, Fault
<1>7. LoadInv'
  BY DEF LoadInv, Asking, OpType, EarlyInv, Early, Validate, Return, Fault
<1>8. SecretInv'
  BY DEF SecretInv, OwnSecretOnly, LoadInv, Asking, Validate, Return, Fault
<1>9. EarlyInv'
  BY DEF EarlyInv, Early, LoadInv, Validate, Return, Fault
<1>10. NamedInv'
  BY DEF NamedInv, Named, OpType, ServerType, FaultType, EarlyInv, Early, Asking, LoadInv, Validate, Return, Fault
<1>11. OneInv'
  BY DEF OneInv, LoadInv, OpType, Validate, Return, Fault
<1> QED
  BY <1>1, <1>2, <1>3, <1>4, <1>5, <1>6, <1>7, <1>8, <1>9, <1>10, <1>11

\* The preflight checks.
LEMMA PreflightInv == RestoreInv /\ Preflight => RestoreInv'
<1> SUFFICES ASSUME RestoreInv, Preflight PROVE RestoreInv'
  OBVIOUS
<1> USE RestoreAssumption DEF RestoreInv, server, sockets, counts
<1>1. OpType'
  BY EmptyType DEF OpType, LoadInv, Asking, Preflight, Goto, Fail, Return, Fault
<1>2. ServerType'
  BY DEF ServerType, Gpu, OpType, LoadInv, Asking, Preflight, Goto, Fail, Return, Fault
<1>3. FlagType'
  BY Zenon DEF FlagType, Preflight, Goto, Fail, Return, Fault
<1>4. CountType'
  BY DEF CountType, CountInv, Preflight, Goto, Fail, Return, Fault
<1>5. FaultType'
  BY DEF FaultType, Preflight, Goto, Fail, Return, Fault
<1>6. CountInv'
  BY SMTT(60) DEF CountInv, CountType, OpType, Preflight, Goto, Fail, Return, Fault
<1>7. LoadInv'
  BY DEF LoadInv, Asking, OpType, EarlyInv, Early, Preflight, Goto, Fail, Return, Fault
<1>8. SecretInv'
  BY DEF SecretInv, OwnSecretOnly, LoadInv, Asking, Preflight, Goto, Fail, Return, Fault
<1>9. EarlyInv'
  BY DEF EarlyInv, Early, LoadInv, Preflight, Goto, Fail, Return, Fault
<1>10. NamedInv'
  BY DEF NamedInv, Named, OpType, ServerType, FaultType, EarlyInv, Early, Asking, LoadInv, Preflight, Goto, Fail, Return, Fault
<1>11. OneInv'
  BY DEF OneInv, LoadInv, OpType, Preflight, Goto, Fail, Return, Fault
<1> QED
  BY <1>1, <1>2, <1>3, <1>4, <1>5, <1>6, <1>7, <1>8, <1>9, <1>10, <1>11

\* The image is materialized.
LEMMA MaterializeInv == RestoreInv /\ Materialize => RestoreInv'
<1> SUFFICES ASSUME RestoreInv, Materialize PROVE RestoreInv'
  OBVIOUS
<1> USE RestoreAssumption DEF RestoreInv, server, sockets, counts
<1>1. OpType'
  BY EmptyType DEF OpType, LoadInv, Asking, Materialize, Goto, Fail, Return, Fault
<1>2. ServerType'
  BY DEF ServerType, Gpu, OpType, LoadInv, Asking, Materialize, Goto, Fail, Return, Fault
<1>3. FlagType'
  BY Zenon DEF FlagType, Materialize, Goto, Fail, Return, Fault
<1>4. CountType'
  BY DEF CountType, CountInv, Materialize, Goto, Fail, Return, Fault
<1>5. FaultType'
  BY DEF FaultType, Materialize, Goto, Fail, Return, Fault
<1>6. CountInv'
  BY SMTT(60) DEF CountInv, CountType, OpType, Materialize, Goto, Fail, Return, Fault
<1>7. LoadInv'
  BY DEF LoadInv, Asking, OpType, EarlyInv, Early, Materialize, Goto, Fail, Return, Fault
<1>8. SecretInv'
  BY DEF SecretInv, OwnSecretOnly, LoadInv, Asking, Materialize, Goto, Fail, Return, Fault
<1>9. EarlyInv'
  BY DEF EarlyInv, Early, LoadInv, Materialize, Goto, Fail, Return, Fault
<1>10. NamedInv'
  BY DEF NamedInv, Named, OpType, ServerType, FaultType, EarlyInv, Early, Asking, LoadInv, Materialize, Goto, Fail, Return, Fault
<1>11. OneInv'
  BY DEF OneInv, LoadInv, OpType, Materialize, Goto, Fail, Return, Fault
<1> QED
  BY <1>1, <1>2, <1>3, <1>4, <1>5, <1>6, <1>7, <1>8, <1>9, <1>10, <1>11

\* CRIU restores the process, with or without telling its pid.
LEMMA CriuInv == RestoreInv /\ Criu => RestoreInv'
<1> SUFFICES ASSUME RestoreInv, Criu PROVE RestoreInv'
  OBVIOUS
<1> USE RestoreAssumption DEF RestoreInv, server, sockets, counts
<1>1. OpType'
  BY EmptyType DEF OpType, LoadInv, Asking, Criu, Fail, Return, Fault
<1>2. ServerType'
  BY DEF ServerType, Gpu, OpType, LoadInv, Asking, Criu, Fail, Return, Fault
<1>3. FlagType'
  <2>1. missed' = missed /\ rolling' \in {FALSE, rolling}
    BY Zenon DEF Criu, Fail, Return
  <2> QED
    BY <2>1, Zenon DEF FlagType
<1>4. CountType'
  BY DEF CountType, CountInv, Criu, Fail, Return, Fault
<1>5. FaultType'
  BY DEF FaultType, Criu, Fail, Return, Fault
<1>6. CountInv'
  BY SMTT(60) DEF CountInv, CountType, OpType, Criu, Fail, Return, Fault
<1>7. LoadInv'
  BY DEF LoadInv, Asking, OpType, EarlyInv, Early, Criu, Fail, Return, Fault
<1>8. SecretInv'
  BY DEF SecretInv, OwnSecretOnly, LoadInv, Asking, Criu, Fail, Return, Fault
<1>9. EarlyInv'
  BY DEF EarlyInv, Early, LoadInv, Criu, Fail, Return, Fault
<1>10. NamedInv'
  BY DEF NamedInv, Named, OpType, ServerType, FaultType, EarlyInv, Early, Asking, LoadInv, Criu, Fail, Return, Fault
<1>11. OneInv'
  BY DEF OneInv, LoadInv, OpType, Criu, Fail, Return, Fault
<1> QED
  BY <1>1, <1>2, <1>3, <1>4, <1>5, <1>6, <1>7, <1>8, <1>9, <1>10, <1>11

\* The next candidate is dialled, which shows whether it takes the secret.
LEMMA TryInv == RestoreInv /\ Try => RestoreInv'
<1> SUFFICES ASSUME RestoreInv, Try PROVE RestoreInv'
  OBVIOUS
<1> USE RestoreAssumption DEF RestoreInv, server, sockets, counts
<1>0. cands # <<>> => Tail(cands) \in Seq(Pid) /\ Head(cands) \in Pid
  BY DEF OpType
<1>1. OpType'
  BY <1>0 DEF OpType, LoadInv, Asking, Try, Goto, Fault, Dials
<1>2. ServerType'
  BY <1>0 DEF ServerType, Gpu, OpType, LoadInv, Asking, Try, Goto, Fault, Dials
<1>3. FlagType'
  <2>1. missed' = missed \/ missed' = (missed \/ (Head(cands) = R /\ R \notin up))
    BY Zenon DEF Try
  <2>2. missed' \in BOOLEAN
    BY <2>1, Zenon DEF FlagType
  <2>3. rolling' = rolling
    BY DEF Try, Goto
  <2> QED
    BY <2>2, <2>3, Zenon DEF FlagType
<1>4. CountType'
  BY <1>0 DEF CountType, CountInv, Try, Goto, Fault, Dials
<1>5. FaultType'
  <2>1. Fault \/ faults' = faults
    BY DEF Try
  <2> QED
    BY <2>1 DEF FaultType, Fault
<1>6. CountInv'
  BY <1>0 DEF CountInv, CountType, OpType, Try, Goto, Fault, Dials
<1>7. LoadInv'
  BY <1>0 DEF LoadInv, Asking, OpType, EarlyInv, Early, Try, Goto, Fault, Dials
<1>8. SecretInv'
  BY <1>0 DEF SecretInv, OwnSecretOnly, LoadInv, Asking, Try, Goto, Fault, Dials
<1>9. EarlyInv'
  BY <1>0 DEF EarlyInv, Early, LoadInv, Try, Goto, Fault, Dials
<1>10. NamedInv'
  <2> SUFFICES ASSUME Named', OpsPerConn = "many" PROVE NamedInv'
    BY DEF NamedInv
  <2>0. missed' = FALSE => missed = FALSE
    <3>1. missed' = missed \/ missed' = (missed \/ (Head(cands) = R /\ R \notin up))
      BY Zenon DEF Try
    <3> QED
      BY <3>1, Zenon DEF FlagType
  <2>1. pid = R /\ faults' = 0 /\ missed = FALSE /\ secret[R] = secret[0]
    <3>1. missed' = FALSE
      BY DEF Named
    <3>2. missed = FALSE
      BY <2>0, <3>1
    <3> QED
      BY <3>2 DEF Named, Try, Goto
  <2>2. faults = 0 /\ ~Fault
    <3>1. Fault \/ faults' = faults
      BY DEF Try
    <3> QED
      BY <2>1, <3>1 DEF FaultType, Fault
  <2>3. cands # <<>> /\ Head(cands) = R /\ gpu[R] = "FROZEN" /\ hit = {} /\ result = 0
    BY <2>1, <2>2 DEF NamedInv, Named, LoadInv, Asking, Try
  <2>4. CASE R \in up
    <3>1. Dials(R) /\ R \in sock
      BY <2>1, <2>4 DEF Dials, ServerType
    <3>2. pc' = "ping" /\ conn' = "open" /\ UNCHANGED <<cands, up, gpu, hit, result>>
      BY <2>2, <2>3, <3>1 DEF Try
    <3> QED
      BY <2>3, <3>2 DEF NamedInv, Asking
  <2>5. CASE R \notin up
    <3>1. ~Dials(Head(cands))
      BY <2>3, <2>5 DEF Dials
    <3>2. missed' = (missed \/ (Head(cands) = R /\ R \notin up))
      BY <2>3, <3>1 DEF Try
    <3>3. missed' = TRUE
      BY <2>3, <2>5, <3>2, Zenon
    <3>4. missed' = FALSE
      BY DEF Named
    <3> QED
      BY <3>3, <3>4, Zenon
  <2> QED
    BY <2>4, <2>5
<1>11. OneInv'
  BY <1>0 DEF OneInv, LoadInv, OpType, Try, Goto, Fault, Dials
<1> QED
  BY <1>1, <1>2, <1>3, <1>4, <1>5, <1>6, <1>7, <1>8, <1>9, <1>10, <1>11

\* PING is answered, or the candidate is given up.
LEMMA PingInv == RestoreInv /\ Ping => RestoreInv'
<1> SUFFICES ASSUME RestoreInv, Ping PROVE RestoreInv'
  OBVIOUS
<1> USE RestoreAssumption DEF RestoreInv, server, sockets, counts
<1>0. cands # <<>> => Tail(cands) \in Seq(Pid) /\ Head(cands) \in Pid
  BY DEF OpType
<1>1. OpType'
  BY <1>0 DEF OpType, LoadInv, Asking, Ping, GiveUp, CallReaches, CallFails, Serves, Answered, Fault
<1>2. ServerType'
  BY <1>0 DEF ServerType, Gpu, OpType, LoadInv, Asking, Ping, GiveUp, CallReaches, CallFails, Serves, Answered, Fault
<1>3. FlagType'
  BY <1>0, Zenon DEF FlagType, Ping, GiveUp, CallReaches, CallFails, Serves, Answered, Fault
<1>4. CountType'
  BY <1>0 DEF CountType, CountInv, Ping, GiveUp, CallReaches, CallFails, Serves, Answered, Fault
<1>5. FaultType'
  <2>1. Fault \/ faults' = faults
    BY DEF Ping, CallFails
  <2> QED
    BY <2>1 DEF FaultType, Fault
<1>6. CountInv'
  BY <1>0 DEF CountInv, CountType, OpType, Ping, GiveUp, CallReaches, CallFails, Serves, Answered, Fault
<1>7. LoadInv'
  BY <1>0 DEF LoadInv, Asking, OpType, EarlyInv, Early, Ping, GiveUp, CallReaches, CallFails, Serves, Answered, Fault
<1>8. SecretInv'
  BY <1>0 DEF SecretInv, OwnSecretOnly, LoadInv, Asking, Ping, GiveUp, CallReaches, CallFails, Serves, Answered, Fault
<1>9. EarlyInv'
  BY <1>0 DEF EarlyInv, Early, LoadInv, Ping, GiveUp, CallReaches, CallFails, Serves, Answered, Fault
<1>10. NamedInv'
  <2> SUFFICES ASSUME Named', OpsPerConn = "many" PROVE NamedInv'
    BY DEF NamedInv
  <2>1. pid = R /\ faults' = 0 /\ missed = FALSE /\ secret[R] = secret[0]
    BY DEF Named, Ping, GiveUp
  <2>2. faults = 0 /\ ~Fault
    <3>1. Fault \/ faults' = faults
      BY DEF Ping, CallFails
    <3> QED
      BY <2>1, <3>1 DEF FaultType, Fault
  <2>3. /\ cands # <<>> /\ Head(cands) = R
        /\ gpu[R] = "FROZEN" /\ hit = {} /\ result = 0 /\ conn = "open"
    BY <2>1, <2>2 DEF NamedInv, Named, ServerType, LoadInv, Asking, Ping
  <2>4. CallReaches /\ ~CallFails /\ Serves(Head(cands))
    BY <2>1, <2>2, <2>3 DEF CallReaches, CallFails, Serves
  <2>5. pc' = "restore" /\ conn' = Answered /\ UNCHANGED <<cands, up, gpu, hit, result>>
    BY <2>4 DEF Ping
  <2> QED
    BY <2>3, <2>5 DEF NamedInv, Asking, Answered
<1>11. OneInv'
  BY <1>0 DEF OneInv, LoadInv, OpType, Ping, GiveUp, CallReaches, CallFails, Serves, Answered, Fault
<1> QED
  BY <1>1, <1>2, <1>3, <1>4, <1>5, <1>6, <1>7, <1>8, <1>9, <1>10, <1>11

\* RESTORE is executed, whether its answer arrives or not.
LEMMA RestoreCallInv == RestoreInv /\ RestoreCall => RestoreInv'
<1> SUFFICES ASSUME RestoreInv, RestoreCall PROVE RestoreInv'
  OBVIOUS
<1> USE RestoreAssumption DEF RestoreInv, server, sockets, counts
<1>0. cands # <<>> => Tail(cands) \in Seq(Pid) /\ Head(cands) \in Pid
  BY DEF OpType
<1>1. OpType'
  BY <1>0 DEF OpType, LoadInv, Asking, RestoreCall, GiveUp, CallReaches, Answered, Fault
<1>2. ServerType'
  BY <1>0 DEF ServerType, Gpu, OpType, LoadInv, Asking, RestoreCall, GiveUp, CallReaches, Answered, Fault
<1>3. FlagType'
  BY <1>0, Zenon DEF FlagType, RestoreCall, GiveUp, CallReaches, Answered, Fault
<1>4. CountType'
  BY <1>0 DEF CountType, CountInv, RestoreCall, GiveUp, CallReaches, Answered, Fault
<1>5. FaultType'
  BY <1>0 DEF FaultType, RestoreCall, GiveUp, CallReaches, Answered, Fault
<1>6. CountInv'
  BY <1>0 DEF CountInv, CountType, OpType, RestoreCall, GiveUp, CallReaches, Answered, Fault
<1>7. LoadInv'
  BY <1>0 DEF LoadInv, Asking, OpType, EarlyInv, Early, RestoreCall, GiveUp, CallReaches, Answered, Fault
<1>8. SecretInv'
  BY <1>0 DEF SecretInv, OwnSecretOnly, LoadInv, Asking, RestoreCall, GiveUp, CallReaches, Answered, Fault
<1>9. EarlyInv'
  BY <1>0 DEF EarlyInv, Early, LoadInv, RestoreCall, GiveUp, CallReaches, Answered, Fault
<1>10. NamedInv'
  <2> SUFFICES ASSUME Named', OpsPerConn = "many" PROVE NamedInv'
    BY DEF NamedInv
  <2>1. pid = R /\ faults' = 0 /\ missed = FALSE /\ secret[R] = secret[0]
    BY DEF Named, RestoreCall, GiveUp
  <2>2. faults = 0 /\ ~Fault
    <3>1. Fault \/ faults' = faults
      BY DEF RestoreCall
    <3> QED
      BY <2>1, <3>1 DEF FaultType, Fault
  <2>3. /\ cands # <<>> /\ Head(cands) = R
        /\ gpu[R] = "FROZEN" /\ hit = {} /\ result = 0 /\ conn = "open"
    BY <2>1, <2>2 DEF NamedInv, Named, ServerType, LoadInv, Asking, RestoreCall
  <2>4. CallReaches
    BY <2>3 DEF CallReaches
  <2>5. /\ pc' = "resume" /\ conn' = Answered /\ UNCHANGED <<cands, up, result>>
        /\ gpu' = [gpu EXCEPT ![R] = "RESTORED"] /\ hit' = hit \cup ({R} \ {R})
    BY <2>2, <2>3, <2>4 DEF RestoreCall
  <2> QED
    BY <2>3, <2>5 DEF NamedInv, Asking, Answered, ServerType
<1>11. OneInv'
  BY <1>0 DEF OneInv, LoadInv, OpType, RestoreCall, GiveUp, CallReaches, Answered, Fault
<1> QED
  BY <1>1, <1>2, <1>3, <1>4, <1>5, <1>6, <1>7, <1>8, <1>9, <1>10, <1>11

\* RESUME, upon which the process is reported.
LEMMA ResumeInv == RestoreInv /\ Resume => RestoreInv'
<1> SUFFICES ASSUME RestoreInv, Resume PROVE RestoreInv'
  OBVIOUS
<1> USE RestoreAssumption DEF RestoreInv, server, sockets, counts
<1>0. cands # <<>> => Tail(cands) \in Seq(Pid) /\ Head(cands) \in Pid
  BY DEF OpType
<1>1. OpType'
  BY <1>0, EmptyType DEF OpType, LoadInv, Asking, Resume, GiveUp, CallReaches, CallFails, Return, Fault
<1>2. ServerType'
  BY <1>0 DEF ServerType, Gpu, OpType, LoadInv, Asking, Resume, GiveUp, CallReaches, CallFails, Return, Fault
<1>3. FlagType'
  BY <1>0, Zenon DEF FlagType, Resume, GiveUp, CallReaches, CallFails, Return, Fault
<1>4. CountType'
  BY <1>0 DEF CountType, CountInv, Resume, GiveUp, CallReaches, CallFails, Return, Fault
<1>5. FaultType'
  BY <1>0 DEF FaultType, Resume, GiveUp, CallReaches, CallFails, Return, Fault
<1>6. CountInv'
  BY <1>0, SMTT(60) DEF CountInv, CountType, OpType, Resume, GiveUp, CallReaches, CallFails, Return, Fault
<1>7. LoadInv'
  BY <1>0 DEF LoadInv, Asking, OpType, EarlyInv, Early, Resume, GiveUp, CallReaches, CallFails, Return, Fault
<1>8. SecretInv'
  BY <1>0 DEF SecretInv, OwnSecretOnly, LoadInv, Asking, Resume, GiveUp, CallReaches, CallFails, Return, Fault
<1>9. EarlyInv'
  BY <1>0 DEF EarlyInv, Early, LoadInv, Resume, GiveUp, CallReaches, CallFails, Return, Fault
<1>10. NamedInv'
  BY <1>0 DEF NamedInv, Named, OpType, ServerType, FaultType, EarlyInv, Early, Asking, LoadInv, Resume, GiveUp, CallReaches, CallFails, Return, Fault
<1>11. OneInv'
  BY <1>0 DEF OneInv, LoadInv, OpType, Resume, GiveUp, CallReaches, CallFails, Return, Fault
<1> QED
  BY <1>1, <1>2, <1>3, <1>4, <1>5, <1>6, <1>7, <1>8, <1>9, <1>10, <1>11

\* Processes begin to listen and end.
LEMMA ProcessInv == RestoreInv /\ Process => RestoreInv'
<1> SUFFICES ASSUME RestoreInv, Process PROVE RestoreInv'
  OBVIOUS
<1> USE RestoreAssumption DEF RestoreInv, server, sockets, counts
<1>1. OpType'
  BY DEF OpType, LoadInv, Asking, Process, Unlink, Bind, Listen, Ends, Breaks, Fault
<1>2. ServerType'
  BY DEF ServerType, Gpu, OpType, LoadInv, Asking, Process, Unlink, Bind, Listen, Ends, Breaks, Fault
<1>3. FlagType'
  BY Zenon DEF FlagType, Process, Unlink, Bind, Listen, Ends, Breaks, Fault
<1>4. CountType'
  BY DEF CountType, CountInv, Process, Unlink, Bind, Listen, Ends, Breaks, Fault
<1>5. FaultType'
  BY DEF FaultType, Process, Unlink, Bind, Listen, Ends, Breaks, Fault
<1>6. CountInv'
  BY DEF CountInv, CountType, OpType, Process, Unlink, Bind, Listen, Ends, Breaks, Fault
<1>7. LoadInv'
  BY DEF LoadInv, Asking, OpType, EarlyInv, Early, Process, Unlink, Bind, Listen, Ends, Breaks, Fault
<1>8. SecretInv'
  BY DEF SecretInv, OwnSecretOnly, LoadInv, Asking, Process, Unlink, Bind, Listen, Ends, Breaks, Fault
<1>9. EarlyInv'
  BY DEF EarlyInv, Early, LoadInv, Process, Unlink, Bind, Listen, Ends, Breaks, Fault
<1>10. NamedInv'
  BY DEF NamedInv, Named, OpType, ServerType, FaultType, EarlyInv, Early, Asking, LoadInv, Process, Unlink, Bind, Listen, Ends, Breaks, Fault
<1>11. OneInv'
  BY DEF OneInv, LoadInv, OpType, Process, Unlink, Bind, Listen, Ends, Breaks, Fault
<1> QED
  BY <1>1, <1>2, <1>3, <1>4, <1>5, <1>6, <1>7, <1>8, <1>9, <1>10, <1>11

\* The run directory is looked at once more, or the deadline has passed.
LEMMA PollInv == RestoreInv /\ Poll => RestoreInv'
<1> SUFFICES ASSUME RestoreInv, Poll PROVE RestoreInv'
  OBVIOUS
<1> USE RestoreAssumption DEF RestoreInv, server, sockets, counts
<1>1. CASE polls = MaxPolls /\ Fail /\ UNCHANGED <<faults, server, pidfile>>
  <2> USE <1>1 DEF Fail, Return
  <2>1. OpType' /\ FlagType' /\ FaultType'
    BY EmptyType DEF OpType, FlagType, FaultType
  <2>2. ServerType' /\ OneInv' /\ EarlyInv'
    BY DEF ServerType, OneInv, EarlyInv, Early, LoadInv
  <2>3. CountType' /\ CountInv'
    BY DEF CountType, CountInv, Poll
  <2>4. LoadInv' /\ SecretInv'
    BY DEF LoadInv, Asking, SecretInv, OwnSecretOnly
  <2>5. NamedInv'
    BY DEF NamedInv, Named, Asking, Poll
  <2> QED
    BY <2>1, <2>2, <2>3, <2>4, <2>5
<1>2. CASE /\ pc = "poll" /\ polls < MaxPolls /\ polls' = polls + 1
           /\ UNCHANGED <<pc, cands, pid, conn, counts, server, pidfile>>
           /\ (Fault \/ faults' = faults)
  <2> USE <1>2
  <2>1. FaultType' /\ (faults' = 0 => faults = 0)
    BY DEF FaultType, Fault
  <2>2. OpType' /\ FlagType' /\ ServerType' /\ CountType'
    BY DEF OpType, FlagType, ServerType, CountType
  <2>3. OneInv' /\ EarlyInv' /\ CountInv' /\ LoadInv' /\ SecretInv'
    BY DEF OneInv, EarlyInv, Early, CountInv, LoadInv, Asking, SecretInv, OwnSecretOnly
  <2>4. NamedInv'
    BY <2>1 DEF NamedInv, Named, Asking
  <2> QED
    BY <2>1, <2>2, <2>3, <2>4
<1>3. ASSUME NEW shims \in Sorted(sock), NEW t, t = Target(shims),
             pc = "poll", polls < MaxPolls, polls' = polls + 1,
             ~(t # 0 /\ t \notin sock), pc' = "try", cands' \in restoreCandidates(t),
             UNCHANGED <<pid, conn, counts, server, pidfile, faults>>
      PROVE  RestoreInv'
  <2> USE <1>3
  <2>1. t \in {0} \cup Pid /\ (pid # 0 => t = pid)
    BY TargetType
  <2>2. cands' \in Seq(Pid) /\ (t # 0 => cands' # <<>> /\ Head(cands') = t)
    BY <2>1, CandidatesType
  <2>3. OpType' /\ FlagType' /\ ServerType' /\ CountType' /\ FaultType'
    BY <2>2 DEF OpType, FlagType, ServerType, CountType, FaultType
  <2>4. OneInv' /\ EarlyInv' /\ CountInv' /\ LoadInv' /\ SecretInv'
    BY DEF OneInv, EarlyInv, Early, CountInv, LoadInv, Asking, SecretInv, OwnSecretOnly
  <2>5. NamedInv'
    BY <2>1, <2>2 DEF NamedInv, Named, Asking
  <2> QED
    BY <2>3, <2>4, <2>5
<1> QED
  BY <1>1, <1>2, <1>3 DEF Poll, AwaitTarget

\* Every step keeps the invariant.
LEMMA NextInv == RestoreInv /\ [Next]_vars => RestoreInv'
<1>1. ASSUME RestoreInv, UNCHANGED vars PROVE RestoreInv'
  <2> USE <1>1 DEF RestoreInv, vars, server, sockets, counts
  <2>1. OpType' /\ ServerType' /\ FlagType' /\ CountType' /\ FaultType'
    BY DEF OpType, ServerType, FlagType, CountType, FaultType
  <2>2. CountInv' /\ LoadInv' /\ EarlyInv' /\ OneInv'
    BY DEF CountInv, LoadInv, EarlyInv, OneInv
  <2>3. SecretInv' /\ NamedInv'
    BY DEF SecretInv, OwnSecretOnly, NamedInv, Named
  <2> QED
    BY <2>1, <2>2, <2>3
<1> QED
  BY <1>1, StartInv, StartRollbackInv, StopInv, ValidateInv, PreflightInv, MaterializeInv, CriuInv,
     PollInv, TryInv, PingInv, RestoreCallInv, ResumeInv, ProcessInv
  DEF Next, Orchestrator

\* RestoreInv holds of every restore, every rollback and whatever other processes do.
THEOREM RestoreInvariant == Spec => []RestoreInv
BY InitInv, NextInv, PTL DEF Spec

-----------------------------------------------------------------------------
(* What follows from it.                                                   *)

\* The variables of the restore operation stay in their types: polls within the
\* deadline, no operation counted beyond the ones begun, candidates that are
\* processes, and only processes other than R counted as hit.
THEOREM RestoreTypeCorrect == Spec => []TypeOK
<1>1. RestoreInv => TypeOK
  BY DEF RestoreInv, TypeOK, OpType, ServerType, FlagType, CountType, FaultType
<1> QED
  BY <1>1, RestoreInvariant, PTL

\* Every ended restore has added one to exactly one of restores_total and
\* restore_failures_total, whichever of its return statements it took, and
\* rollbacks_total never runs ahead of restores_total.
THEOREM RestoresAreCounted == Spec => []RestoreCounted
<1>1. RestoreInv => RestoreCounted
  BY DEF RestoreInv, CountInv, RestoreCounted
<1> QED
  BY <1>1, RestoreInvariant, PTL

\* The pid that Restore returns is that of a process in which a RESTORE of this very
\* operation has succeeded since the process started, also when answers are lost,
\* candidates change between polls, an earlier operation has loaded another process,
\* or a process ends after its RESTORE and another has its pid.
THEOREM ReportedProcessIsLoaded == Spec => ReportedIsLoaded
<1>1. RestoreInv /\ [Next]_vars => [result' \notin {0, result} => result' \in loaded]_vars
  <2> SUFFICES ASSUME RestoreInv, Next, result' \notin {0, result} PROVE result' \in loaded
    OBVIOUS
  <2>1. Resume
    BY DEF Next, Start, StartRollback, Fresh, Orchestrator, Stop, Validate, Preflight, Materialize, Criu, Poll,
           Try, Ping, RestoreCall, Process, Goto, Fail, Return, GiveUp, counts
  <2>2. pc = "resume" /\ conn = "open" /\ result' = Head(cands)
    BY <2>1 DEF Resume, GiveUp, CallReaches, counts
  <2> QED
    BY <2>2 DEF RestoreInv, LoadInv
<1> QED
  BY <1>1, RestoreInvariant, PTL DEF Spec, ReportedIsLoaded

\* dial and require_auth together let RESTORE through only where both sides have the
\* same secret or none, for any assignment of secrets to any number of processes.
THEOREM SecretsKeepOthersOut == Spec => []OwnSecretOnly
<1>1. RestoreInv => OwnSecretOnly
  BY DEF RestoreInv, SecretInv
<1> QED
  BY <1>1, RestoreInvariant, PTL

\* When CRIU names the process, nothing fails, the process is not dialled in the time
\* in which its socket file is there and it does not listen, and the secrets agree, the polling loop sends RESTORE to no other of any number of
\* processes and reports no other.
THEOREM BystandersAreUntouched == Spec => []BystandersUntouched
<1>1. ASSUME RestoreInv PROVE BystandersUntouched
  <2> SUFFICES ASSUME pid = R, faults = 0, ~missed, secret[R] = secret[0]
               PROVE  hit = {} /\ result \in {0, R}
    BY DEF BystandersUntouched
  <2>1. missed = FALSE
    BY <1>1, Zenon DEF RestoreInv, FlagType
  <2>2. Named
    BY <2>1 DEF Named
  <2> QED
    BY <1>1, <2>2, RestoreAssumption DEF RestoreInv, NamedInv, OneInv
<1> QED
  BY <1>1, RestoreInvariant, PTL
=============================================================================
