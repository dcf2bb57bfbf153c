------------------------- MODULE ExecutionStoreProofs -------------------------
(***************************************************************************)
(* Proofs about ExecutionStore, for every number of Borgs, generations,    *)
(* tasks, runs, claims and attempts, every dependency graph, lease         *)
(* duration, clock bound and skew of clock readings: its types, and the    *)
(* safety invariant of its tables, proved inductive.  The parts of Safety  *)
(* lean on one another: an open claim is backed only because no two runs   *)
(* of a Borg are running, an active task is claimed only because every     *)
(* release requeues it, dependencies stay done only because terminal       *)
(* statuses are final.  The lemmas about one operation ask as little of    *)
(* its caller as they can, so that HostSchedulerProofs can use them too.   *)
(***************************************************************************)
EXTENDS ExecutionStore, TLAPS

USE DEF ActiveStatus, TerminalStatus, TaskStatus

(***************************************************************************)
(* Lemmas about the helpers.                                               *)
(***************************************************************************)

\* A clock reading is a time no later than the clock.
LEMMA ReadingType ==
    ASSUME TypeOK, NEW now \in 0..clock
    PROVE  /\ now \in Nat /\ now <= clock
           /\ now + LeaseDuration \in 0..(MaxTime + LeaseDuration)
BY ConstantsAssumption DEF TypeOK

\* The readings that are not too old for the store's callers are such times.
LEMMA ReadingsPast == ASSUME TypeOK PROVE Readings \subseteq 0..clock
BY DEF Readings

\* Releasing claims keeps the table well typed.
LEMMA ReleasedType ==
    ASSUME TypeOK, NEW C
    PROVE  Released(C) \in [Claim -> ClaimRecord]
BY DEF TypeOK, Released, ClaimRecord

\* Requeueing tasks keeps the table well typed.
LEMMA RequeuedType ==
    ASSUME TypeOK, NEW C
    PROVE  Requeued(C) \in [Task -> RuntimeRecord]
BY DEF TypeOK, Requeued, RuntimeRecord

\* Interrupting attempts keeps the table well typed.
LEMMA InterruptedType ==
    ASSUME TypeOK, NEW A
    PROVE  Interrupted(A) \in [Attempt -> AttemptRecord]
BY DEF TypeOK, Interrupted, AttemptRecord

\* Cancelling runs keeps the table well typed.
LEMMA CancelledType ==
    ASSUME TypeOK, NEW R
    PROVE  Cancelled(R) \in [Run -> RunRecord]
BY DEF TypeOK, Cancelled, RunRecord

\* The interruption of any set of runs keeps all four tables well typed.
LEMMA InterruptRunsType ==
    ASSUME TypeOK, NEW R, InterruptRuns(R), UNCHANGED <<clock, generation>>
    PROVE  TypeOK'
BY ReleasedType, RequeuedType, InterruptedType, CancelledType
   DEF InterruptRuns, TypeOK

(***************************************************************************)
(* Type correctness.                                                       *)
(***************************************************************************)
\* The empty tables are well typed.
LEMMA InitType == Init => TypeOK
BY ConstantsAssumption
   DEF Init, TypeOK, UnusedRun, UnusedClaim, UnusedAttempt, AbsentRuntime,
       RunRecord, ClaimRecord, AttemptRecord, RuntimeRecord

\* Taking over a Borg keeps the tables well typed.
LEMMA AcquireRunType ==
    ASSUME TypeOK, NEW g \in Generation, NEW r \in Run, NEW now \in Readings,
           AcquireRun(g, r, now)
    PROVE  TypeOK'
<1> DEFINE expired == RunningOf(BorgOf[g]) \cap ExpiredRuns(now)
<1>1. run' \in [Run -> RunRecord]
  <2>1. [status |-> "running", gen |-> g, lease |-> now + LeaseDuration]
          \in RunRecord
    BY ReadingType, ReadingsPast DEF RunRecord
  <2> QED
    BY <2>1, CancelledType DEF AcquireRun
<1>2. runtime' \in [Task -> RuntimeRecord]
  <2>1. NewRuntime \in RuntimeRecord
    BY ConstantsAssumption DEF NewRuntime, AbsentRuntime, RuntimeRecord
  <2>2. Requeued(ClaimsOfRuns(expired)) \in [Task -> RuntimeRecord]
    BY RequeuedType
  <2> QED
    BY <2>1, <2>2 DEF AcquireRun
<1>3. claim' \in [Claim -> ClaimRecord] /\ attempt' \in [Attempt -> AttemptRecord]
  BY ReleasedType, InterruptedType DEF AcquireRun
<1> QED
  BY <1>1, <1>2, <1>3 DEF AcquireRun, TypeOK

\* Renewing a run and its claims keeps the tables well typed.
LEMMA RenewRunType ==
    ASSUME TypeOK, NEW r \in Run, NEW now \in 0..clock, RenewRun(r, now)
    PROVE  TypeOK'
<1> DEFINE lost == ExpiredClaims(r, now)
<1>1. run' \in [Run -> RunRecord]
  BY ReadingType DEF RenewRun, TypeOK, RunRecord
<1>2. claim' \in [Claim -> ClaimRecord]
  <2>1. Released(lost) \in [Claim -> ClaimRecord]
    BY ReleasedType
  <2>2. \A c \in Claim :
          [claim[c] EXCEPT !.lease = now + LeaseDuration] \in ClaimRecord
    BY ReadingType DEF TypeOK, ClaimRecord
  <2> QED
    BY <2>1, <2>2 DEF RenewRun
<1>3. runtime' \in [Task -> RuntimeRecord] /\ attempt' \in [Attempt -> AttemptRecord]
  BY RequeuedType, InterruptedType DEF RenewRun
<1> QED
  BY <1>1, <1>2, <1>3 DEF RenewRun, TypeOK

\* Claiming a task keeps the tables well typed.
LEMMA ClaimTaskType ==
    ASSUME TypeOK, NEW r \in Run, NEW c \in Claim, NEW now \in Readings,
           ClaimTask(r, c, now)
    PROVE  TypeOK'
<1> DEFINE lost == ExpiredClaims(r, now)
<1>1. PICK t \in First(Ready(r, lost)) :
        /\ claim' = [Released(lost) EXCEPT
                       ![c] = [status |-> "open", run |-> r, task |-> t,
                               lease |-> Smaller(now + LeaseDuration,
                                                 run[r].lease),
                               resume |-> runtime[t].resume]]
        /\ runtime' = [Requeued(lost) EXCEPT
                         ![t] = [@ EXCEPT !.status = "claimed", !.lastRun = r]]
  BY DEF ClaimTask
<1>2. t \in Task
  BY <1>1 DEF First, Ready, TasksOf
<1>3. claim' \in [Claim -> ClaimRecord]
  <2>1. Smaller(now + LeaseDuration, run[r].lease)
          \in 0..(MaxTime + LeaseDuration)
    BY ReadingType, ReadingsPast DEF Smaller, TypeOK, RunRecord
  <2>2. runtime[t].resume \in TaskStatus
    BY <1>2 DEF TypeOK, RuntimeRecord
  <2>3. Released(lost) \in [Claim -> ClaimRecord]
    BY ReleasedType
  <2> QED
    BY <1>1, <1>2, <2>1, <2>2, <2>3 DEF ClaimRecord
<1>4. runtime' \in [Task -> RuntimeRecord]
  <2>1. Requeued(lost) \in [Task -> RuntimeRecord]
    BY RequeuedType
  <2>2. \A x \in RuntimeRecord :
          [x EXCEPT !.status = "claimed", !.lastRun = r] \in RuntimeRecord
    BY DEF RuntimeRecord
  <2> QED
    BY <1>1, <1>2, <2>1, <2>2
<1>5. attempt' \in [Attempt -> AttemptRecord]
  BY InterruptedType DEF ClaimTask
<1> QED
  BY <1>3, <1>4, <1>5 DEF ClaimTask, TypeOK

\* A phase transition keeps the tables well typed.
LEMMA TransitionTaskType ==
    ASSUME TypeOK, NEW r \in Run, NEW c \in Claim,
           NEW expected, NEW new \in TaskStatus, NEW resume \in TaskStatus,
           NEW round \in 0..MaxReviewRound, NEW now \in Readings,
           TransitionTask(r, c, expected, new, resume, round, now)
    PROVE  TypeOK'
<1>2. runtime' \in [Task -> RuntimeRecord]
  <2>1. \A x \in RuntimeRecord :
          [x EXCEPT !.status = new, !.resume = resume, !.round = round]
            \in RuntimeRecord
    BY DEF RuntimeRecord
  <2> QED
    BY <2>1 DEF TransitionTask, TypeOK
<1>3. claim' \in [Claim -> ClaimRecord]
  BY ReleasedType DEF TransitionTask, TypeOK
<1> QED
  BY <1>2, <1>3 DEF TransitionTask, TypeOK

\* Every operation keeps the tables well typed: one step per operation.
LEMMA NextType == TypeOK /\ [Next]_vars => TypeOK'
<1> SUFFICES ASSUME TypeOK, [Next]_vars
             PROVE  TypeOK'
  OBVIOUS
<1>1. CASE Tick
  BY <1>1, ConstantsAssumption DEF Tick, TypeOK
<1>2. ASSUME NEW g \in Generation, Promote(g)
      PROVE  TypeOK'
  BY <1>2 DEF Promote, TypeOK
<1>3. ASSUME NEW now \in Readings, RunOperation(now)
      PROVE  TypeOK'
  <2> PICK r \in Run :
        \/ \E g \in Generation : AcquireRun(g, r, now)
        \/ RenewRun(r, now)
        \/ RenewExpired(r, now)
        \/ \E status \in {"completed", "failed"} : FinishRun(r, status, now)
        \/ InterruptRun(r)
    BY <1>3 DEF RunOperation
  <2>1. CASE \E g \in Generation : AcquireRun(g, r, now)
    BY <2>1, <1>3, AcquireRunType
  <2>2. CASE RenewRun(r, now)
    BY <2>2, <1>3, RenewRunType, ReadingsPast
  <2>3. CASE RenewExpired(r, now)
    BY <2>3, InterruptRunsType DEF RenewExpired
  <2>4. ASSUME NEW status \in {"completed", "failed"}, FinishRun(r, status, now)
        PROVE  TypeOK'
    <3>1. /\ run' = [run EXCEPT ![r].status = status]
          /\ UNCHANGED <<clock, generation, claim, runtime, attempt>>
      BY <2>4 DEF FinishRun
    <3> QED
      BY <3>1, <2>4 DEF TypeOK, RunRecord
  <2>5. CASE InterruptRun(r)
    BY <2>5, InterruptRunsType DEF InterruptRun
  <2> QED
    BY <2>1, <2>2, <2>3, <2>4, <2>5
<1>4. ASSUME NEW now \in Readings, ClaimOperation(now)
      PROVE  TypeOK'
  <2>1. ASSUME NEW r \in Run, ClaimNothing(r, now)
        PROVE  TypeOK'
    BY <2>1, ReleasedType, RequeuedType, InterruptedType
       DEF ClaimNothing, TypeOK
  <2> QED
    BY <1>4, <2>1, ClaimTaskType, TransitionTaskType, ConstantsAssumption
       DEF ClaimOperation, OpenClaims
<1>5. ASSUME NEW now \in Readings, TaskOperation(now)
      PROVE  TypeOK'
  <2>1. ASSUME NEW r \in Run, NEW t \in Task, NEW identity \in Identity,
               AssignWorktree(r, t, identity, now)
        PROVE  TypeOK'
    BY <2>1 DEF AssignWorktree, TypeOK, RuntimeRecord
  <2>2. ASSUME NEW r \in Run, NEW t \in Task, NEW a \in Attempt,
               AppendRunAttempt(r, t, a, now)
        PROVE  TypeOK'
    BY <2>2 DEF AppendRunAttempt, TypeOK, AttemptRecord
  <2> QED
    BY <1>5, <2>1, <2>2 DEF TaskOperation
<1>6. ASSUME NEW now \in Readings, AttemptOperation(now)
      PROVE  TypeOK'
  <2>1. ASSUME NEW a \in Attempt, CompleteAttempt(a, now)
        PROVE  TypeOK'
    BY <2>1 DEF CompleteAttempt, TypeOK, AttemptRecord
  <2>2. ASSUME NEW a \in Attempt, NEW r \in Run, NEW c \in Claim,
               AppendClaimAttempt(r, c, a, now)
        PROVE  TypeOK'
    BY <2>2 DEF AppendClaimAttempt, TypeOK, AttemptRecord, ClaimRecord
  <2> QED
    BY <1>6, <2>1, <2>2 DEF AttemptOperation
<1>7. ASSUME NEW now \in Readings, SweepExpiredRuns(now)
      PROVE  TypeOK'
  BY <1>7, InterruptRunsType DEF SweepExpiredRuns
<1>8. CASE UNCHANGED vars
  BY <1>8 DEF vars, TypeOK
<1> QED
  BY <1>1, <1>2, <1>3, <1>4, <1>5, <1>6, <1>7, <1>8 DEF Next

\* Every reachable table holds rows of its own shape, under any operations of
\* any callers.
THEOREM TypeCorrect == Spec => []TypeOK
<1>1. Init => TypeOK
  BY InitType
<1>2. TypeOK /\ [Next]_vars => TypeOK'
  BY NextType
<1> QED
  BY <1>1, <1>2, PTL DEF Spec

(***************************************************************************)
(* Safety.                                                                 *)
(***************************************************************************)
\* Releasing a set of open claims C: what each row becomes.
LEMMA ReleasedRow ==
    ASSUME TypeOK, NEW C, NEW c \in Claim
    PROVE  /\ Released(C)[c].run = claim[c].run
           /\ Released(C)[c].task = claim[c].task
           /\ Released(C)[c].lease = claim[c].lease
           /\ c \in C => Released(C)[c].status = "released"
           /\ c \notin C => Released(C)[c] = claim[c]
BY DEF Released, TypeOK, ClaimRecord

\* Requeueing the tasks of a set of claims C: what each row becomes.
LEMMA RequeuedRow ==
    ASSUME TypeOK, NEW C, NEW t \in Task
    PROVE  /\ Requeued(C)[t].lastRun = runtime[t].lastRun
           /\ Requeued(C)[t].status \in ActiveStatus =>
                /\ Requeued(C)[t] = runtime[t]
                /\ \A c \in C : claim[c].task # t
           /\ runtime[t].status \notin ActiveStatus =>
                Requeued(C)[t] = runtime[t]
           /\ (\A c \in C : claim[c].task # t) => Requeued(C)[t] = runtime[t]
           /\ Requeued(C)[t].status \in {"pending", runtime[t].status}
<1>1. runtime[t] \in RuntimeRecord
  BY DEF TypeOK
<1>2. CASE /\ runtime[t].status \in ActiveStatus
           /\ \E c \in C : claim[c].task = t
  <2>1. Requeued(C)[t] = [runtime[t] EXCEPT !.status = "pending"]
    BY <1>2 DEF Requeued
  <2>2. Requeued(C)[t].status = "pending" /\ Requeued(C)[t].lastRun = runtime[t].lastRun
    BY <2>1, <1>1 DEF RuntimeRecord
  <2> QED
    BY <2>2, <1>2
<1>3. CASE ~ (/\ runtime[t].status \in ActiveStatus
              /\ \E c \in C : claim[c].task = t)
  <2>1. Requeued(C)[t] = runtime[t]
    BY <1>3 DEF Requeued
  <2> QED
    BY <2>1, <1>3
<1> QED
  BY <1>2, <1>3

\* Cancelling a set of runs R: what each row becomes.
LEMMA CancelledRow ==
    ASSUME TypeOK, NEW R, NEW r \in Run
    PROVE  /\ Cancelled(R)[r].gen = run[r].gen
           /\ Cancelled(R)[r].lease = run[r].lease
           /\ r \in R => Cancelled(R)[r].status = "cancelled"
           /\ r \notin R => Cancelled(R)[r] = run[r]
BY DEF Cancelled, TypeOK, RunRecord

\* Interrupting a set of attempts A: what each row becomes.
LEMMA InterruptedRow ==
    ASSUME TypeOK, NEW A, NEW a \in Attempt
    PROVE  /\ Interrupted(A)[a].run = attempt[a].run
           /\ Interrupted(A)[a].task = attempt[a].task
           /\ Interrupted(A)[a].claim = attempt[a].claim
           /\ a \in A => Interrupted(A)[a].status = "interrupted"
           /\ a \notin A => Interrupted(A)[a] = attempt[a]
BY DEF Interrupted, TypeOK, AttemptRecord

\* _interrupt_run, on any set of running runs, preserves Safety.
LEMMA InterruptRunsSafe ==
    ASSUME TypeOK, Safety, NEW R \in SUBSET Run,
           \A r \in R : run[r].status = "running",
           InterruptRuns(R), UNCHANGED <<clock, generation>>
    PROVE  Safety'
<1> DEFINE C == ClaimsOfRuns(R)
<1>0. C \subseteq Claim
  BY DEF ClaimsOfRuns, OpenClaims
<1>1. /\ run' = Cancelled(R) /\ claim' = Released(C) /\ runtime' = Requeued(C)
      /\ attempt' = Interrupted(AttemptsOfRuns(R))
  BY DEF InterruptRuns
<1>a. OpenClaims' = OpenClaims \ C
  BY <1>1, ReleasedRow DEF OpenClaims, ClaimsOfRuns
<1> HIDE DEF C
<1>2. RowsAreLinked'
  <2>1. \A r \in Run : run'[r].gen = run[r].gen
                       /\ (run'[r].status = "unused" <=> run[r].status = "unused")
    BY <1>1, CancelledRow
  <2>2. \A c \in Claim : /\ claim'[c].run = claim[c].run
                         /\ claim'[c].task = claim[c].task
                         /\ claim'[c].status = "unused" <=> claim[c].status = "unused"
    BY <1>1, ReleasedRow DEF C, ClaimsOfRuns, OpenClaims
  <2>3. \A a \in Attempt : /\ attempt'[a].run = attempt[a].run
                           /\ attempt'[a].task = attempt[a].task
                           /\ attempt'[a].claim = attempt[a].claim
                           /\ attempt'[a].status = "unused" <=> attempt[a].status = "unused"
    BY <1>1, InterruptedRow DEF AttemptsOfRuns
  <2>4. \A c \in Claim : claim'[c].status # "unused" => LinkedClaim(c)'
    BY <2>1, <2>2 DEF Safety, RowsAreLinked, LinkedClaim
  <2>5. \A a \in Attempt : attempt'[a].status # "unused" => LinkedAttempt(a)'
    BY <2>1, <2>2, <2>3 DEF Safety, RowsAreLinked, LinkedAttempt
  <2> QED
    BY <2>1, <2>4, <2>5 DEF Safety, RowsAreLinked
<1>3. OneRunPerBorg'
  BY <1>1, CancelledRow DEF Safety, OneRunPerBorg
<1>4. OpenClaimIsBacked'
  <2> SUFFICES ASSUME NEW c \in OpenClaims \ C
               PROVE  /\ Backed(c)'
                      /\ \A d \in OpenClaims' : claim'[d].task = claim'[c].task => d = c
    BY <1>a DEF OpenClaimIsBacked
  <2>1. Backed(c) /\ claim[c].run \notin R /\ c \in Claim /\ claim'[c] = claim[c]
    BY <1>1, ReleasedRow DEF Safety, OpenClaimIsBacked, C, ClaimsOfRuns, OpenClaims
  <2>2. \A d \in C : claim[d].task # claim[c].task
    BY <1>0 DEF Safety, OpenClaimIsBacked, C, ClaimsOfRuns
  <2>3. run'[claim[c].run] = run[claim[c].run]
    BY <1>1, <2>1, CancelledRow DEF Backed
  <2>4. runtime'[claim[c].task] = runtime[claim[c].task]
    BY <1>1, <2>1, <2>2, RequeuedRow DEF Backed
  <2>5. Backed(c)'
    BY <2>1, <2>3, <2>4 DEF Backed
  <2>6. \A d \in OpenClaims' : claim'[d].task = claim'[c].task => d = c
    BY <1>1, <1>a, <2>1, ReleasedRow DEF Safety, OpenClaimIsBacked, OpenClaims
  <2> QED
    BY <2>5, <2>6
<1>5. ActiveTaskIsClaimed'
  <2> SUFFICES ASSUME NEW t \in Task, runtime'[t].status \in ActiveStatus
               PROVE  \E c \in OpenClaims' : claim'[c].task = t
    BY DEF ActiveTaskIsClaimed
  <2>1. runtime[t].status \in ActiveStatus /\ \A c \in C : claim[c].task # t
    BY <1>1, RequeuedRow
  <2>2. PICK c \in OpenClaims : claim[c].task = t
    BY <2>1 DEF Safety, ActiveTaskIsClaimed
  <2> QED
    BY <2>1, <2>2, <1>1, <1>a, ReleasedRow DEF OpenClaims
<1>6. DependenciesDone'
  <2>1. \A t \in Task : runtime[t].status = "done" => runtime'[t].status = "done"
    BY <1>1, RequeuedRow
  <2>2. \A t \in Task : runtime'[t].lastRun = runtime[t].lastRun
    BY <1>1, RequeuedRow
  <2> QED
    BY <2>1, <2>2, ConstantsAssumption DEF Safety, DependenciesDone
<1>7. CompletedRunIsComplete'
  <2>1. \A t \in Task : runtime[t].status = "done" => runtime'[t].status = "done"
    BY <1>1, RequeuedRow
  <2>2. \A r \in Run : run'[r].gen = run[r].gen
                       /\ (run'[r].status = "completed" => run[r].status = "completed")
    BY <1>1, CancelledRow
  <2> QED
    BY <2>1, <2>2 DEF Safety, CompletedRunIsComplete, TasksOf
<1>8. OpenAttemptIsBacked'
  <2> SUFFICES ASSUME NEW a \in Attempt, attempt'[a].status = "running"
               PROVE  /\ run'[attempt'[a].run].status # "cancelled"
                      /\ \/ attempt'[a].claim = NoRow
                         \/ claim'[attempt'[a].claim].status = "open"
                         \/ runtime'[attempt'[a].task].status \in TerminalStatus
    BY DEF OpenAttemptIsBacked
  <2>1. /\ attempt'[a] = attempt[a] /\ attempt[a].status = "running"
        /\ attempt[a].run \notin R
    BY <1>1, InterruptedRow DEF AttemptsOfRuns
  <2>2. LinkedAttempt(a)
    BY <2>1 DEF Safety, RowsAreLinked
  <2>3. run'[attempt[a].run] = run[attempt[a].run]
    BY <1>1, <2>1, <2>2, CancelledRow DEF LinkedAttempt
  <2>4. attempt[a].claim # NoRow => claim'[attempt[a].claim] = claim[attempt[a].claim]
    BY <1>1, <2>1, <2>2, ReleasedRow DEF LinkedAttempt, C, ClaimsOfRuns
  <2>5. runtime[attempt[a].task].status \in TerminalStatus =>
          runtime'[attempt[a].task].status \in TerminalStatus
    BY <1>1, <2>2, RequeuedRow DEF LinkedAttempt
  <2> QED
    BY <2>1, <2>3, <2>4, <2>5 DEF Safety, OpenAttemptIsBacked
<1> QED
  BY <1>2, <1>3, <1>4, <1>5, <1>6, <1>7, <1>8 DEF Safety

(***************************************************************************)
(* A step that changes no run's status or generation, releases the open    *)
(* claims C with their attempts and tasks, and may move leases.            *)
(***************************************************************************)
\* _reconcile_expired_claims preserves Safety.
LEMMA ReconcileSafe ==
    ASSUME TypeOK, Safety, NEW C \in SUBSET OpenClaims,
           \A r \in Run : run'[r].status = run[r].status /\ run'[r].gen = run[r].gen,
           \A c \in Claim :
             /\ claim'[c].run = claim[c].run /\ claim'[c].task = claim[c].task
             /\ claim'[c].status = IF c \in C THEN "released" ELSE claim[c].status,
           \A c \in OpenClaims \ C : claim'[c].lease <= run'[claim[c].run].lease,
           runtime' = Requeued(C),
           attempt' = Interrupted(AttemptsOfClaims(C))
    PROVE  Safety'
<1>a. OpenClaims' = OpenClaims \ C
  BY DEF OpenClaims
<1>b. \A t \in Task : runtime[t].status \in TerminalStatus =>
                        runtime'[t].status = runtime[t].status
  BY RequeuedRow
<1>2. RowsAreLinked'
  <2>1. \A c \in Claim : claim'[c].status # "unused" => LinkedClaim(c)'
    BY DEF OpenClaims, Safety, RowsAreLinked, LinkedClaim
  <2>2. \A a \in Attempt : /\ attempt'[a].run = attempt[a].run
                           /\ attempt'[a].task = attempt[a].task
                           /\ attempt'[a].claim = attempt[a].claim
                           /\ attempt'[a].status = "unused" <=> attempt[a].status = "unused"
    BY InterruptedRow DEF AttemptsOfClaims
  <2>3. \A a \in Attempt : attempt'[a].status # "unused" => LinkedAttempt(a)'
    BY <2>2 DEF OpenClaims, Safety, RowsAreLinked, LinkedAttempt
  <2> QED
    BY <2>1, <2>3 DEF Safety, RowsAreLinked
<1>3. OneRunPerBorg'
  BY DEF Safety, OneRunPerBorg
<1>4. OpenClaimIsBacked'
  <2> SUFFICES ASSUME NEW c \in OpenClaims \ C
               PROVE  /\ Backed(c)'
                      /\ \A d \in OpenClaims' : claim'[d].task = claim'[c].task => d = c
    BY <1>a DEF OpenClaimIsBacked
  <2>1. Backed(c) /\ c \in Claim
    BY DEF Safety, OpenClaimIsBacked, OpenClaims
  <2>2. \A d \in C : claim[d].task # claim[c].task
    BY DEF Safety, OpenClaimIsBacked
  <2>3. runtime'[claim[c].task] = runtime[claim[c].task]
    BY <2>1, <2>2, RequeuedRow DEF Backed
  <2>4. Backed(c)'
    BY <2>1, <2>3 DEF Backed
  <2>5. \A d \in OpenClaims' : claim'[d].task = claim'[c].task => d = c
    BY <1>a, <2>1 DEF Safety, OpenClaimIsBacked, OpenClaims
  <2> QED
    BY <2>4, <2>5
<1>5. ActiveTaskIsClaimed'
  <2> SUFFICES ASSUME NEW t \in Task, runtime'[t].status \in ActiveStatus
               PROVE  \E c \in OpenClaims' : claim'[c].task = t
    BY DEF ActiveTaskIsClaimed
  <2>1. runtime[t].status \in ActiveStatus /\ \A c \in C : claim[c].task # t
    BY RequeuedRow
  <2>2. PICK c \in OpenClaims : claim[c].task = t
    BY <2>1 DEF Safety, ActiveTaskIsClaimed
  <2> QED
    BY <2>1, <2>2, <1>a DEF OpenClaims
<1>6. DependenciesDone'
  <2>1. \A t \in Task : runtime'[t].lastRun = runtime[t].lastRun
    BY RequeuedRow
  <2> QED
    BY <1>b, <2>1, ConstantsAssumption DEF Safety, DependenciesDone
<1>7. CompletedRunIsComplete'
  BY <1>b DEF Safety, CompletedRunIsComplete, TasksOf
<1>8. OpenAttemptIsBacked'
  <2> SUFFICES ASSUME NEW a \in Attempt, attempt'[a].status = "running"
               PROVE  /\ run'[attempt'[a].run].status # "cancelled"
                      /\ \/ attempt'[a].claim = NoRow
                         \/ claim'[attempt'[a].claim].status = "open"
                         \/ runtime'[attempt'[a].task].status \in TerminalStatus
    BY DEF OpenAttemptIsBacked
  <2>1. /\ attempt'[a] = attempt[a] /\ attempt[a].status = "running"
        /\ attempt[a].claim \notin C
    BY InterruptedRow DEF AttemptsOfClaims
  <2>2. LinkedAttempt(a)
    BY <2>1 DEF Safety, RowsAreLinked
  <2>3. /\ run[attempt[a].run].status # "cancelled"
        /\ \/ attempt[a].claim = NoRow
           \/ claim[attempt[a].claim].status = "open"
           \/ runtime[attempt[a].task].status \in TerminalStatus
    BY <2>1 DEF Safety, OpenAttemptIsBacked
  <2> QED
    BY <1>b, <2>1, <2>2, <2>3 DEF LinkedAttempt
<1> QED
  BY <1>2, <1>3, <1>4, <1>5, <1>6, <1>7, <1>8 DEF Safety

\* A renewal is a reconciliation that moves leases.
LEMMA RenewRunSafe ==
    ASSUME TypeOK, Safety, NEW r \in Run, NEW now \in 0..clock, RenewRun(r, now)
    PROVE  Safety'
<1> DEFINE C == ExpiredClaims(r, now)
<1>1. C \in SUBSET OpenClaims
  BY DEF ExpiredClaims, ClaimsOfRuns
<1>2. \A s \in Run : /\ run'[s].status = run[s].status /\ run'[s].gen = run[s].gen
                     /\ s # r => run'[s] = run[s]
  BY DEF RenewRun, TypeOK, RunRecord
<1>3. run'[r].lease = now + LeaseDuration
  BY DEF RenewRun, TypeOK, RunRecord
<1>4. \A c \in Claim :
        /\ claim'[c].run = claim[c].run /\ claim'[c].task = claim[c].task
        /\ claim'[c].status = IF c \in C THEN "released" ELSE claim[c].status
        /\ c \in ClaimsOfRuns({r}) \ C => claim'[c].lease = now + LeaseDuration
        /\ c \notin ClaimsOfRuns({r}) => claim'[c] = claim[c]
  <2> TAKE c \in Claim
  <2>0. claim[c] \in ClaimRecord
    BY DEF TypeOK
  <2>1. CASE c \in ClaimsOfRuns({r}) \ C
    <3>1. claim'[c] = [claim[c] EXCEPT !.lease = now + LeaseDuration]
      BY <2>1 DEF RenewRun
    <3> QED
      BY <3>1, <2>0, <2>1 DEF ClaimRecord
  <2>2. CASE c \notin ClaimsOfRuns({r}) \ C
    <3>1. claim'[c] = Released(C)[c]
      BY <2>2 DEF RenewRun
    <3>2. c \in C => c \in ClaimsOfRuns({r})
      BY DEF ExpiredClaims
    <3> QED
      BY <3>1, <3>2, <2>2, ReleasedRow
  <2> QED
    BY <2>1, <2>2
<1>5. \A c \in OpenClaims \ C : claim'[c].lease <= run'[claim[c].run].lease
  <2> TAKE c \in OpenClaims \ C
  <2>1. Backed(c) /\ c \in Claim
    BY DEF Safety, OpenClaimIsBacked, OpenClaims
  <2>2. CASE claim[c].run = r
    <3>1. c \in ClaimsOfRuns({r}) \ C
      BY <2>2 DEF ClaimsOfRuns
    <3> QED
      <4>1. now + LeaseDuration <= now + LeaseDuration
        BY ReadingType, ConstantsAssumption
      <4>2. /\ claim'[c].lease = now + LeaseDuration
            /\ run'[claim[c].run].lease = now + LeaseDuration
        BY <3>1, <2>1, <2>2, <1>3, <1>4
      <4> QED
        BY <4>1, <4>2
  <2>3. CASE claim[c].run # r
    BY <2>3, <2>1, <1>2, <1>4 DEF Backed, ClaimsOfRuns
  <2> QED
    BY <2>2, <2>3
<1>6. runtime' = Requeued(C) /\ attempt' = Interrupted(AttemptsOfClaims(C))
  BY DEF RenewRun
<1> HIDE DEF C
<1> QED
  BY <1>1, <1>2, <1>4, <1>5, <1>6, ReconcileSafe

\* A claim that finds no ready task is a reconciliation only.
LEMMA ClaimNothingSafe ==
    ASSUME TypeOK, Safety, NEW r \in Run, NEW now \in Readings,
           ClaimNothing(r, now)
    PROVE  Safety'
<1> DEFINE C == ExpiredClaims(r, now)
<1>1. C \in SUBSET OpenClaims
  BY DEF ExpiredClaims, ClaimsOfRuns
<1>2. /\ claim' = Released(C) /\ run' = run
      /\ runtime' = Requeued(C) /\ attempt' = Interrupted(AttemptsOfClaims(C))
  BY DEF ClaimNothing
<1>3. \A c \in Claim :
        /\ claim'[c].run = claim[c].run /\ claim'[c].task = claim[c].task
        /\ claim'[c].status = IF c \in C THEN "released" ELSE claim[c].status
        /\ claim'[c].lease = claim[c].lease
  BY <1>2, ReleasedRow
<1>4. \A c \in OpenClaims \ C : claim'[c].lease <= run'[claim[c].run].lease
  BY <1>2, <1>3 DEF Safety, OpenClaimIsBacked, Backed, OpenClaims
<1> HIDE DEF C
<1> QED
  BY <1>1, <1>2, <1>3, <1>4, ReconcileSafe

\* Taking t: the reconciliation of ClaimNothing, then one more open claim on a
\* ready task.
LEMMA ClaimTaskSafe ==
    ASSUME TypeOK, Safety, NEW r \in Run, NEW c \in Claim, NEW now \in Readings,
           ClaimTask(r, c, now)
    PROVE  Safety'
<1> DEFINE C == ExpiredClaims(r, now)
<1>1. PICK t \in First(Ready(r, C)) :
        /\ claim' = [Released(C) EXCEPT
                       ![c] = [status |-> "open", run |-> r, task |-> t,
                               lease |-> Smaller(now + LeaseDuration,
                                                 run[r].lease),
                               resume |-> runtime[t].resume]]
        /\ runtime' = [Requeued(C) EXCEPT
                         ![t] = [@ EXCEPT !.status = "claimed", !.lastRun = r]]
  BY DEF ClaimTask
<1>2. /\ t \in Task /\ GenerationOf[t] = run[r].gen
      /\ Requeued(C)[t].status = "pending"
      /\ \A d \in OpenClaims \ C : claim[d].task # t
      /\ \A d \in Dependencies[t] : runtime[d].status = "done"
  BY <1>1 DEF First, Ready, TasksOf
<1>3. /\ C \in SUBSET OpenClaims /\ c \notin OpenClaims
      /\ claim[c].status = "unused" /\ run[r].status = "running" /\ run' = run
      /\ attempt' = Interrupted(AttemptsOfClaims(C))
  BY DEF ClaimTask, LiveRun, ExpiredClaims, ClaimsOfRuns, OpenClaims
<1>4. /\ claim'[c].status = "open" /\ claim'[c].run = r /\ claim'[c].task = t
      /\ claim'[c].lease = Smaller(now + LeaseDuration, run[r].lease)
  BY <1>1, ReleasedType
<1>5. \A d \in Claim \ {c} :
        /\ claim'[d].run = claim[d].run /\ claim'[d].task = claim[d].task
        /\ claim'[d].status = IF d \in C THEN "released" ELSE claim[d].status
        /\ claim'[d].lease = claim[d].lease
        /\ d \notin C => claim'[d] = claim[d]
  BY <1>1, ReleasedRow, ReleasedType
<1>6. /\ runtime'[t].status = "claimed" /\ runtime'[t].lastRun = r
      /\ \A u \in Task \ {t} : runtime'[u] = Requeued(C)[u]
  <2>1. Requeued(C)[t] \in RuntimeRecord
    BY <1>2, RequeuedType
  <2>2. runtime'[t] = [Requeued(C)[t] EXCEPT !.status = "claimed", !.lastRun = r]
    BY <1>1, <1>2, RequeuedType
  <2>3. runtime'[t].status = "claimed" /\ runtime'[t].lastRun = r
    BY <2>1, <2>2 DEF RuntimeRecord
  <2> QED
    BY <1>1, <1>2, <2>3, RequeuedType
<1> HIDE DEF C
<1>7. OpenClaims' = (OpenClaims \ C) \cup {c}
  BY <1>3, <1>4, <1>5 DEF OpenClaims
<1>8. \A u \in Task : runtime[u].status \in TerminalStatus =>
                        u # t /\ runtime'[u] = runtime[u]
  BY <1>2, <1>6, RequeuedRow
<1>9. RowsAreLinked'
  <2>1. \A d \in Claim : claim'[d].status # "unused" => LinkedClaim(d)'
    <3> SUFFICES ASSUME NEW d \in Claim, claim'[d].status # "unused"
                 PROVE  LinkedClaim(d)'
      OBVIOUS
    <3>1. CASE d = c
      BY <3>1, <1>2, <1>3, <1>4 DEF LinkedClaim
    <3>2. CASE d # c
      BY <3>2, <1>3, <1>5 DEF Safety, RowsAreLinked, LinkedClaim, OpenClaims
    <3> QED
      BY <3>1, <3>2
  <2>2. \A a \in Attempt : /\ attempt'[a].run = attempt[a].run
                           /\ attempt'[a].task = attempt[a].task
                           /\ attempt'[a].claim = attempt[a].claim
                           /\ attempt'[a].status = "unused" <=> attempt[a].status = "unused"
    BY <1>3, InterruptedRow DEF AttemptsOfClaims
  <2>3. \A a \in Attempt : attempt'[a].status # "unused" => LinkedAttempt(a)'
    <3> SUFFICES ASSUME NEW a \in Attempt, attempt'[a].status # "unused"
                 PROVE  LinkedAttempt(a)'
      OBVIOUS
    <3>1. LinkedAttempt(a)
      BY <2>2 DEF Safety, RowsAreLinked
    <3>2. attempt[a].claim # NoRow => attempt[a].claim # c
      BY <3>1, <1>3 DEF LinkedAttempt
    <3> QED
      BY <2>2, <3>1, <3>2, <1>3, <1>5 DEF LinkedAttempt, OpenClaims
  <2> QED
    BY <1>3, <2>1, <2>3 DEF Safety, RowsAreLinked
<1>10. OneRunPerBorg'
  BY <1>3 DEF Safety, OneRunPerBorg
<1>11. OpenClaimIsBacked'
  <2>1. Backed(c)'
    <3>1. Smaller(now + LeaseDuration, run[r].lease) <= run[r].lease
      BY ReadingType DEF Smaller, TypeOK, RunRecord
    <3> QED
      BY <3>1, <1>2, <1>3, <1>4, <1>6 DEF Backed
  <2>2. \A d \in OpenClaims \ C : Backed(d)' /\ claim'[d].task = claim[d].task /\ d # c
                                   /\ claim[d].task # t
    <3> SUFFICES ASSUME NEW d \in OpenClaims \ C
                 PROVE  Backed(d)' /\ claim'[d].task = claim[d].task /\ d # c
                        /\ claim[d].task # t
      OBVIOUS
    <3>1. Backed(d) /\ d \in Claim \ {c} /\ claim'[d] = claim[d]
      BY <1>3, <1>5 DEF Safety, OpenClaimIsBacked, OpenClaims
    <3>2. claim[d].task # t /\ \A e \in C : claim[e].task # claim[d].task
      BY <1>2, <1>3 DEF Safety, OpenClaimIsBacked
    <3>3. runtime'[claim[d].task] = runtime[claim[d].task]
      BY <1>6, <3>1, <3>2, RequeuedRow DEF Backed
    <3> QED
      BY <1>3, <3>1, <3>2, <3>3 DEF Backed
  <2> QED
    BY <1>4, <1>7, <2>1, <2>2 DEF Safety, OpenClaimIsBacked
<1>12. ActiveTaskIsClaimed'
  <2> SUFFICES ASSUME NEW u \in Task, runtime'[u].status \in ActiveStatus
               PROVE  \E d \in OpenClaims' : claim'[d].task = u
    BY DEF ActiveTaskIsClaimed
  <2>1. CASE u = t
    BY <2>1, <1>4, <1>7
  <2>2. CASE u # t
    <3>1. runtime[u].status \in ActiveStatus /\ \A d \in C : claim[d].task # u
      BY <2>2, <1>6, RequeuedRow
    <3>2. PICK d \in OpenClaims : claim[d].task = u
      BY <3>1 DEF Safety, ActiveTaskIsClaimed
    <3> QED
      BY <3>1, <3>2, <1>3, <1>5, <1>7 DEF OpenClaims
  <2> QED
    BY <2>1, <2>2
<1>13. DependenciesDone'
  <2>1. \A u \in Task \ {t} : runtime'[u].lastRun = runtime[u].lastRun
    BY <1>6, RequeuedRow
  <2> QED
    BY <1>2, <1>8, <2>1, ConstantsAssumption DEF Safety, DependenciesDone
<1>14. CompletedRunIsComplete'
  BY <1>3, <1>8 DEF Safety, CompletedRunIsComplete, TasksOf
<1>15. OpenAttemptIsBacked'
  <2> SUFFICES ASSUME NEW a \in Attempt, attempt'[a].status = "running"
               PROVE  /\ run'[attempt'[a].run].status # "cancelled"
                      /\ \/ attempt'[a].claim = NoRow
                         \/ claim'[attempt'[a].claim].status = "open"
                         \/ runtime'[attempt'[a].task].status \in TerminalStatus
    BY DEF OpenAttemptIsBacked
  <2>1. /\ attempt'[a] = attempt[a] /\ attempt[a].status = "running"
        /\ attempt[a].claim \notin C
    BY <1>3, InterruptedRow DEF AttemptsOfClaims
  <2>2. LinkedAttempt(a)
    BY <2>1 DEF Safety, RowsAreLinked
  <2>3. /\ run[attempt[a].run].status # "cancelled"
        /\ \/ attempt[a].claim = NoRow
           \/ claim[attempt[a].claim].status = "open"
           \/ runtime[attempt[a].task].status \in TerminalStatus
    BY <2>1 DEF Safety, OpenAttemptIsBacked
  <2> QED
    BY <1>3, <1>5, <1>8, <2>1, <2>2, <2>3 DEF LinkedAttempt
<1> QED
  BY <1>9, <1>10, <1>11, <1>12, <1>13, <1>14, <1>15 DEF Safety

\* Ending task t for claim c, or moving it on: the compare-and-set of one phase.
LEMMA TransitionTaskSafe ==
    ASSUME TypeOK, Safety, NEW r \in Run, NEW c \in Claim,
           NEW expected, NEW new \in TaskStatus, NEW resume \in TaskStatus,
           NEW round \in 0..MaxReviewRound, NEW now \in Readings,
           TransitionTask(r, c, expected, new, resume, round, now)
    PROVE  Safety'
<1> DEFINE t == claim[c].task
           C == IF new \in TerminalStatus THEN {c} ELSE {}
<1>1. c \in OpenClaims /\ claim[c].run = r /\ run[r].status = "running"
  BY DEF TransitionTask, LiveClaim, LiveRun, OpenClaims
<1>2. Backed(c) /\ t \in Task /\ \A d \in OpenClaims : claim[d].task = t => d = c
  BY <1>1 DEF Safety, OpenClaimIsBacked, Backed
<1>3. new \in ActiveStatus \cup TerminalStatus
  BY DEF TransitionTask, Successors
<1>4. runtime' = [runtime EXCEPT
                    ![t] = [@ EXCEPT !.status = new, !.resume = resume,
                                     !.round = round]]
  BY DEF TransitionTask
<1>5. /\ runtime'[t].status = new /\ runtime'[t].lastRun = runtime[t].lastRun
      /\ \A u \in Task \ {t} : runtime'[u] = runtime[u]
  <2>1. runtime[t] \in RuntimeRecord
    BY <1>2 DEF TypeOK
  <2>2. runtime'[t] = [runtime[t] EXCEPT !.status = new, !.resume = resume,
                                         !.round = round]
    BY <1>2, <1>4 DEF TypeOK
  <2>3. runtime'[t].status = new /\ runtime'[t].lastRun = runtime[t].lastRun
    BY <2>1, <2>2 DEF RuntimeRecord
  <2> QED
    BY <1>2, <1>4, <2>3 DEF TypeOK
<1>6. \A d \in Claim :
        /\ claim'[d].run = claim[d].run /\ claim'[d].task = claim[d].task
        /\ claim'[d].status = IF d \in C THEN "released" ELSE claim[d].status
        /\ d \notin C => claim'[d] = claim[d]
  BY ReleasedRow DEF TransitionTask
<1>7. run' = run /\ attempt' = attempt
  BY DEF TransitionTask
<1>8. OpenClaims' = OpenClaims \ C
  BY <1>6 DEF OpenClaims
<1>9. \A u \in Task : runtime[u].status \in TerminalStatus =>
                        u # t /\ runtime'[u] = runtime[u]
  BY <1>2, <1>5 DEF Backed
<1> HIDE DEF t
<1>10. RowsAreLinked'
  <2>1. \A d \in Claim : claim'[d].status # "unused" => LinkedClaim(d)'
    BY <1>1, <1>6, <1>7 DEF Safety, RowsAreLinked, LinkedClaim, OpenClaims
  <2>2. \A a \in Attempt : attempt'[a].status # "unused" => LinkedAttempt(a)'
    BY <1>1, <1>6, <1>7 DEF Safety, RowsAreLinked, LinkedAttempt, OpenClaims
  <2> QED
    BY <1>7, <2>1, <2>2 DEF Safety, RowsAreLinked
<1>11. OneRunPerBorg'
  BY <1>7 DEF Safety, OneRunPerBorg
<1>12. OpenClaimIsBacked'
  <2> SUFFICES ASSUME NEW d \in OpenClaims \ C
               PROVE  /\ Backed(d)'
                      /\ \A e \in OpenClaims' : claim'[e].task = claim'[d].task => e = d
    BY <1>8 DEF OpenClaimIsBacked
  <2>1. Backed(d) /\ claim'[d] = claim[d] /\ d \in Claim
    BY <1>6 DEF Safety, OpenClaimIsBacked, OpenClaims
  <2>2. CASE d = c
    <3>1. new \in ActiveStatus
      BY <2>2, <1>3
    <3> QED
      BY <2>1, <2>2, <3>1, <1>5, <1>6, <1>7, <1>8 DEF Backed, t, Safety, OpenClaimIsBacked, OpenClaims
  <2>3. CASE d # c
    <3>1. claim[d].task # t /\ runtime'[claim[d].task] = runtime[claim[d].task]
      BY <2>1, <2>3, <1>2, <1>5 DEF Backed
    <3> QED
      BY <2>1, <3>1, <1>6, <1>7, <1>8 DEF Backed, Safety, OpenClaimIsBacked, OpenClaims
  <2> QED
    BY <2>2, <2>3
<1>13. ActiveTaskIsClaimed'
  <2> SUFFICES ASSUME NEW u \in Task, runtime'[u].status \in ActiveStatus
               PROVE  \E d \in OpenClaims' : claim'[d].task = u
    BY DEF ActiveTaskIsClaimed
  <2>1. CASE u = t
    BY <2>1, <1>1, <1>5, <1>6, <1>8 DEF t, OpenClaims
  <2>2. CASE u # t
    <3>1. PICK d \in OpenClaims : claim[d].task = u
      BY <2>2, <1>5 DEF Safety, ActiveTaskIsClaimed
    <3> QED
      BY <2>2, <3>1, <1>6, <1>8 DEF t, OpenClaims
  <2> QED
    BY <2>1, <2>2
<1>14. DependenciesDone'
  BY <1>2, <1>5, <1>9, ConstantsAssumption DEF Safety, DependenciesDone
<1>15. CompletedRunIsComplete'
  BY <1>7, <1>9 DEF Safety, CompletedRunIsComplete, TasksOf
<1>16. OpenAttemptIsBacked'
  <2> SUFFICES ASSUME NEW a \in Attempt, attempt[a].status = "running"
               PROVE  /\ run[attempt[a].run].status # "cancelled"
                      /\ \/ attempt[a].claim = NoRow
                         \/ claim'[attempt[a].claim].status = "open"
                         \/ runtime'[attempt[a].task].status \in TerminalStatus
    BY <1>7 DEF OpenAttemptIsBacked
  <2>1. LinkedAttempt(a)
    BY DEF Safety, RowsAreLinked
  <2>2. /\ run[attempt[a].run].status # "cancelled"
        /\ \/ attempt[a].claim = NoRow
           \/ claim[attempt[a].claim].status = "open"
           \/ runtime[attempt[a].task].status \in TerminalStatus
    BY DEF Safety, OpenAttemptIsBacked
  <2>3. CASE attempt[a].claim = c /\ new \in TerminalStatus /\ c # NoRow
    BY <2>1, <2>2, <2>3, <1>5 DEF LinkedAttempt, t
  <2>4. CASE ~ (attempt[a].claim = c /\ new \in TerminalStatus /\ c # NoRow)
    BY <2>1, <2>2, <2>4, <1>6, <1>9 DEF LinkedAttempt
  <2> QED
    BY <2>3, <2>4
<1> QED
  BY <1>10, <1>11, <1>12, <1>13, <1>14, <1>15, <1>16 DEF Safety

\* Taking over a Borg preserves Safety: its live runs are cancelled first.
LEMMA AcquireRunSafe ==
    ASSUME TypeOK, Safety, NEW g \in Generation, NEW r \in Run,
           NEW now \in Readings, AcquireRun(g, r, now)
    PROVE  Safety'
<1> DEFINE R == RunningOf(BorgOf[g]) \cap ExpiredRuns(now)
           C == ClaimsOfRuns(R)
<1>1. /\ R \in SUBSET Run /\ C \in SUBSET Claim /\ r \notin R
      /\ run[r].status = "unused"
      /\ \A s \in Run : s \in R <=>
           run[s].status = "running" /\ BorgOf[run[s].gen] = BorgOf[g]
  BY DEF AcquireRun, RunningOf, ExpiredRuns, ClaimsOfRuns, OpenClaims
<1>2. /\ claim' = Released(C)
      /\ attempt' = Interrupted(AttemptsOfRuns(R))
  BY DEF AcquireRun
<1>3. /\ run'[r].status = "running" /\ run'[r].gen = g
      /\ \A s \in Run \ {r} : run'[s] = Cancelled(R)[s]
  BY CancelledType DEF AcquireRun
<1>4. \A t \in Task : \/ runtime'[t] = Requeued(C)[t]
                      \/ /\ runtime[t].status = "absent"
                         /\ runtime'[t] = NewRuntime
  BY DEF AcquireRun
<1>5. C = {c \in OpenClaims : claim[c].run \in R}
  BY DEF ClaimsOfRuns
<1> HIDE DEF R, C
<1>6. OpenClaims' = OpenClaims \ C
  BY <1>2, ReleasedRow DEF OpenClaims
<1>7. \A t \in Task : runtime[t].status \in TerminalStatus =>
                        runtime'[t] = runtime[t]
  BY <1>4, RequeuedRow
<1>8. \A c \in Claim : claim[c].status # "unused" => claim[c].run # r
  BY <1>1 DEF Safety, RowsAreLinked, LinkedClaim
<1>9. \A a \in Attempt : attempt[a].status # "unused" => attempt[a].run # r
  BY <1>1 DEF Safety, RowsAreLinked, LinkedAttempt
<1>10. RowsAreLinked'
  <2>1. \A s \in Run : run'[s].status # "unused" => run'[s].gen \in Generation
    BY <1>3, <1>1, CancelledRow DEF Safety, RowsAreLinked
  <2>2. \A c \in Claim : claim'[c].status # "unused" => LinkedClaim(c)'
    BY <1>1, <1>2, <1>3, <1>5, <1>8, ReleasedRow, CancelledRow
       DEF Safety, RowsAreLinked, LinkedClaim, OpenClaims
  <2>3. \A a \in Attempt : attempt'[a].status # "unused" => LinkedAttempt(a)'
    <3> SUFFICES ASSUME NEW a \in Attempt, attempt'[a].status # "unused"
                 PROVE  LinkedAttempt(a)'
      OBVIOUS
    <3>1. /\ attempt'[a].run = attempt[a].run /\ attempt'[a].task = attempt[a].task
          /\ attempt'[a].claim = attempt[a].claim /\ attempt[a].status # "unused"
      BY <1>2, InterruptedRow DEF AttemptsOfRuns
    <3>2. LinkedAttempt(a)
      BY <3>1 DEF Safety, RowsAreLinked
    <3>3. run'[attempt[a].run].status # "unused"
      BY <3>1, <3>2, <1>9, <1>3, CancelledRow DEF LinkedAttempt
    <3>4. \A c \in Claim : /\ claim'[c].run = claim[c].run
                           /\ claim'[c].task = claim[c].task
                           /\ claim[c].status # "unused" => claim'[c].status # "unused"
      BY <1>2, ReleasedRow
    <3> QED
      BY <3>1, <3>2, <3>3, <3>4 DEF LinkedAttempt
  <2> QED
    BY <2>1, <2>2, <2>3 DEF RowsAreLinked
<1>11. OneRunPerBorg'
  <2>1. \A s \in Run \ {r} : run'[s].status = "running" =>
          /\ run[s].status = "running" /\ run'[s].gen = run[s].gen
          /\ BorgOf[run'[s].gen] # BorgOf[g]
    BY <1>1, <1>3, CancelledRow
  <2> QED
    BY <1>3, <2>1 DEF Safety, OneRunPerBorg
<1>12. OpenClaimIsBacked'
  <2> SUFFICES ASSUME NEW c \in OpenClaims \ C
               PROVE  /\ Backed(c)'
                      /\ \A d \in OpenClaims' : claim'[d].task = claim'[c].task => d = c
    BY <1>6 DEF OpenClaimIsBacked
  <2>1. Backed(c) /\ claim[c].run \notin R /\ c \in Claim /\ claim'[c] = claim[c]
    BY <1>2, <1>5, ReleasedRow DEF Safety, OpenClaimIsBacked, OpenClaims
  <2>2. \A d \in C : claim[d].task # claim[c].task
    BY <1>5 DEF Safety, OpenClaimIsBacked
  <2>3. run'[claim[c].run] = run[claim[c].run]
    BY <1>1, <1>3, <2>1, CancelledRow DEF Backed
  <2>4. runtime'[claim[c].task] = runtime[claim[c].task]
    BY <1>4, <2>1, <2>2, RequeuedRow DEF Backed
  <2>5. Backed(c)'
    BY <2>1, <2>3, <2>4 DEF Backed
  <2>6. \A d \in OpenClaims' : claim'[d].task = claim'[c].task => d = c
    BY <1>2, <1>6, <2>1, ReleasedRow DEF Safety, OpenClaimIsBacked, OpenClaims
  <2> QED
    BY <2>5, <2>6
<1>13. ActiveTaskIsClaimed'
  <2> SUFFICES ASSUME NEW t \in Task, runtime'[t].status \in ActiveStatus
               PROVE  \E c \in OpenClaims' : claim'[c].task = t
    BY DEF ActiveTaskIsClaimed
  <2>1. runtime[t].status \in ActiveStatus /\ \A c \in C : claim[c].task # t
    BY <1>4, RequeuedRow DEF NewRuntime, AbsentRuntime
  <2>2. PICK c \in OpenClaims : claim[c].task = t
    BY <2>1 DEF Safety, ActiveTaskIsClaimed
  <2> QED
    BY <2>1, <2>2, <1>2, <1>6, ReleasedRow DEF OpenClaims
<1>14. DependenciesDone'
  <2>1. \A t \in Task : runtime'[t].lastRun \in {NoRow, runtime[t].lastRun}
    BY <1>4, RequeuedRow DEF NewRuntime, AbsentRuntime
  <2> QED
    BY <1>7, <2>1, ConstantsAssumption DEF Safety, DependenciesDone
<1>15. CompletedRunIsComplete'
  <2>1. \A s \in Run : run'[s].status = "completed" =>
          run[s].status = "completed" /\ run'[s].gen = run[s].gen
    BY <1>1, <1>3, CancelledRow
  <2> QED
    BY <1>7, <2>1 DEF Safety, CompletedRunIsComplete, TasksOf
<1>16. OpenAttemptIsBacked'
  <2> SUFFICES ASSUME NEW a \in Attempt, attempt'[a].status = "running"
               PROVE  /\ run'[attempt'[a].run].status # "cancelled"
                      /\ \/ attempt'[a].claim = NoRow
                         \/ claim'[attempt'[a].claim].status = "open"
                         \/ runtime'[attempt'[a].task].status \in TerminalStatus
    BY DEF OpenAttemptIsBacked
  <2>1. /\ attempt'[a] = attempt[a] /\ attempt[a].status = "running"
        /\ attempt[a].run \notin R
    BY <1>2, InterruptedRow DEF AttemptsOfRuns
  <2>2. LinkedAttempt(a)
    BY <2>1 DEF Safety, RowsAreLinked
  <2>3. run'[attempt[a].run] = run[attempt[a].run]
    BY <1>3, <1>9, <2>1, <2>2, CancelledRow DEF LinkedAttempt
  <2>4. attempt[a].claim # NoRow => claim'[attempt[a].claim] = claim[attempt[a].claim]
    BY <1>2, <1>5, <2>1, <2>2, ReleasedRow DEF LinkedAttempt
  <2>5. runtime[attempt[a].task].status \in TerminalStatus =>
          runtime'[attempt[a].task].status \in TerminalStatus
    BY <1>7, <2>2 DEF LinkedAttempt
  <2> QED
    BY <2>1, <2>3, <2>4, <2>5 DEF Safety, OpenAttemptIsBacked
<1> QED
  BY <1>10, <1>11, <1>12, <1>13, <1>14, <1>15, <1>16 DEF Safety

\* Finishing a run preserves Safety: it has no open claim left.
LEMMA FinishRunSafe ==
    ASSUME TypeOK, Safety, NEW r \in Run, NEW status \in {"completed", "failed"},
           NEW now \in Readings, FinishRun(r, status, now)
    PROVE  Safety'
<1>1. /\ run' = [run EXCEPT ![r].status = status] /\ run[r].status = "running"
      /\ claim' = claim /\ runtime' = runtime /\ attempt' = attempt
      /\ \A t \in TasksOf(run[r].gen) : runtime[t].status \notin ActiveStatus
      /\ status = "completed" =>
           \A t \in TasksOf(run[r].gen) : runtime[t].status = "done"
  <2>1. ActiveStatus \cap {runtime[t].status : t \in TasksOf(run[r].gen)} = {}
    BY DEF FinishRun
  <2>2. status = "completed" =>
          {runtime[t].status : t \in TasksOf(run[r].gen)} \subseteq {"done"}
    BY DEF FinishRun
  <2> QED
    BY <2>1, <2>2 DEF FinishRun, LiveRun
<1>2. /\ run'[r].status = status /\ \A s \in Run : run'[s].gen = run[s].gen
                                                /\ run'[s].lease = run[s].lease
      /\ \A s \in Run \ {r} : run'[s] = run[s]
  BY <1>1 DEF TypeOK, RunRecord
<1>3. OpenClaims' = OpenClaims
  BY <1>1 DEF OpenClaims
<1>4. \A c \in OpenClaims : claim[c].run # r
  BY <1>1 DEF Safety, OpenClaimIsBacked, Backed, TasksOf
<1>5. RowsAreLinked'
  BY <1>1, <1>2 DEF Safety, RowsAreLinked, LinkedClaim, LinkedAttempt
<1>6. OneRunPerBorg'
  BY <1>2 DEF Safety, OneRunPerBorg
<1>7. OpenClaimIsBacked'
  BY <1>1, <1>2, <1>3, <1>4 DEF Safety, OpenClaimIsBacked, Backed
<1>8. ActiveTaskIsClaimed'
  BY <1>1, <1>3 DEF Safety, ActiveTaskIsClaimed
<1>9. DependenciesDone'
  BY <1>1 DEF Safety, DependenciesDone
<1>10. CompletedRunIsComplete'
  BY <1>1, <1>2 DEF Safety, CompletedRunIsComplete
<1>11. OpenAttemptIsBacked'
  BY <1>1, <1>2 DEF Safety, OpenAttemptIsBacked, RowsAreLinked, LinkedAttempt
<1> QED
  BY <1>5, <1>6, <1>7, <1>8, <1>9, <1>10, <1>11 DEF Safety

\* Giving a task its worktree preserves Safety.
LEMMA AssignWorktreeSafe ==
    ASSUME TypeOK, Safety, NEW r \in Run, NEW t \in Task, NEW identity \in Identity,
           NEW now \in Readings, AssignWorktree(r, t, identity, now)
    PROVE  Safety'
<1>1. /\ run' = run /\ claim' = claim /\ attempt' = attempt
      /\ \A u \in Task : /\ runtime'[u].status = runtime[u].status
                         /\ runtime'[u].lastRun = runtime[u].lastRun
  BY DEF AssignWorktree, TypeOK, RuntimeRecord
<1>2. RowsAreLinked' /\ OneRunPerBorg'
  BY <1>1 DEF Safety, RowsAreLinked, LinkedClaim, LinkedAttempt, OneRunPerBorg
<1>3. OpenClaimIsBacked' /\ ActiveTaskIsClaimed'
  BY <1>1 DEF Safety, OpenClaimIsBacked, Backed, OpenClaims, ActiveTaskIsClaimed
<1>4. DependenciesDone' /\ CompletedRunIsComplete'
  BY <1>1, ConstantsAssumption
     DEF Safety, DependenciesDone, CompletedRunIsComplete, TasksOf
<1>5. OpenAttemptIsBacked'
  BY <1>1 DEF Safety, OpenAttemptIsBacked, RowsAreLinked, LinkedAttempt
<1> QED
  BY <1>2, <1>3, <1>4, <1>5 DEF Safety

\* A step that only writes the attempt table, one row of it.
LEMMA AttemptSafe ==
    ASSUME TypeOK, Safety, NEW a \in Attempt, NEW row,
           attempt' = [attempt EXCEPT ![a] = row],
           UNCHANGED <<run, claim, runtime>>,
           row.status # "unused" /\ LinkedAttempt(a)',
           row.status = "running" =>
             /\ run[row.run].status # "cancelled"
             /\ row.claim = NoRow \/ claim[row.claim].status = "open"
    PROVE  Safety'
<1>1. attempt'[a] = row /\ \A b \in Attempt \ {a} : attempt'[b] = attempt[b]
  BY DEF TypeOK
<1>2. RowsAreLinked'
  BY <1>1 DEF Safety, RowsAreLinked, LinkedClaim, LinkedAttempt
<1>3. OneRunPerBorg' /\ OpenClaimIsBacked' /\ ActiveTaskIsClaimed'
  BY DEF Safety, OneRunPerBorg, OpenClaimIsBacked, Backed, OpenClaims,
         ActiveTaskIsClaimed
<1>4. DependenciesDone' /\ CompletedRunIsComplete'
  BY DEF Safety, DependenciesDone, CompletedRunIsComplete
<1>5. OpenAttemptIsBacked'
  BY <1>1 DEF Safety, OpenAttemptIsBacked
<1> QED
  BY <1>2, <1>3, <1>4, <1>5 DEF Safety

\* A preflight attempt preserves Safety.
LEMMA AppendRunAttemptSafe ==
    ASSUME TypeOK, Safety, NEW r \in Run, NEW t \in Task, NEW a \in Attempt,
           NEW now \in Readings, AppendRunAttempt(r, t, a, now)
    PROVE  Safety'
<1> DEFINE row == [status |-> "running", run |-> r, claim |-> NoRow, task |-> t]
<1>1. /\ attempt' = [attempt EXCEPT ![a] = row] /\ UNCHANGED <<run, claim, runtime>>
      /\ run[r].status = "running"
  BY DEF AppendRunAttempt, LiveRun
<1>2. attempt'[a] = row
  BY <1>1 DEF TypeOK
<1>3. LinkedAttempt(a)'
  BY <1>1, <1>2 DEF LinkedAttempt
<1>4. row.status = "running" /\ row.run = r /\ row.claim = NoRow
  OBVIOUS
<1> HIDE DEF row
<1> QED
  BY <1>1, <1>3, <1>4, AttemptSafe

\* An attempt under a claim preserves Safety.
LEMMA AppendClaimAttemptSafe ==
    ASSUME TypeOK, Safety, NEW r \in Run, NEW c \in Claim, NEW a \in Attempt,
           NEW now \in Readings, AppendClaimAttempt(r, c, a, now)
    PROVE  Safety'
<1> DEFINE row == [status |-> "running", run |-> r, claim |-> c,
                   task |-> claim[c].task]
<1>1. /\ attempt' = [attempt EXCEPT ![a] = row] /\ UNCHANGED <<run, claim, runtime>>
      /\ run[r].status = "running" /\ claim[c].status = "open" /\ claim[c].run = r
  BY DEF AppendClaimAttempt, LiveClaim, LiveRun
<1>2. attempt'[a] = row
  BY <1>1 DEF TypeOK
<1>3. LinkedAttempt(a)'
  BY <1>1, <1>2 DEF LinkedAttempt, Safety, RowsAreLinked, LinkedClaim
<1>4. row.status = "running" /\ row.run = r /\ row.claim = c
  OBVIOUS
<1> HIDE DEF row
<1> QED
  BY <1>1, <1>3, <1>4, AttemptSafe

\* Completing an attempt preserves Safety.
LEMMA CompleteAttemptSafe ==
    ASSUME TypeOK, Safety, NEW a \in Attempt, NEW now \in Readings,
           CompleteAttempt(a, now)
    PROVE  Safety'
<1> DEFINE row == [attempt[a] EXCEPT !.status = "finished"]
<1>1. /\ attempt' = [attempt EXCEPT ![a] = row] /\ UNCHANGED <<run, claim, runtime>>
      /\ attempt[a].status = "running"
  BY DEF CompleteAttempt
<1>2. /\ row.status = "finished" /\ row.run = attempt[a].run
      /\ row.claim = attempt[a].claim /\ row.task = attempt[a].task
  BY DEF TypeOK, AttemptRecord
<1>3. attempt'[a] = row
  BY <1>1 DEF TypeOK
<1>4. LinkedAttempt(a)'
  BY <1>1, <1>2, <1>3 DEF LinkedAttempt, Safety, RowsAreLinked
<1> HIDE DEF row
<1> QED
  BY <1>1, <1>2, <1>4, AttemptSafe

(***************************************************************************)
(* The theorem.                                                            *)
(***************************************************************************)
\* The empty tables satisfy Safety.
LEMMA InitSafe == Init => Safety
BY ConstantsAssumption
   DEF Init, Safety, UnusedRun, UnusedClaim, UnusedAttempt, AbsentRuntime,
       RowsAreLinked, LinkedClaim, LinkedAttempt, OneRunPerBorg, OpenClaimIsBacked,
       OpenClaims, ActiveTaskIsClaimed, DependenciesDone, CompletedRunIsComplete,
       OpenAttemptIsBacked

\* A step that writes none of the four tables.
LEMMA UnchangedSafe ==
    Safety /\ UNCHANGED <<run, claim, runtime, attempt>> => Safety'
BY DEF Safety, RowsAreLinked, LinkedClaim, LinkedAttempt, OneRunPerBorg,
       OpenClaimIsBacked, Backed, OpenClaims, ActiveTaskIsClaimed, DependenciesDone,
       CompletedRunIsComplete, OpenAttemptIsBacked

\* Every operation preserves Safety: one step per operation.
LEMMA NextSafe == TypeOK /\ Safety /\ [Next]_vars => Safety'
<1> SUFFICES ASSUME TypeOK, Safety, [Next]_vars
             PROVE  Safety'
  OBVIOUS
<1>1. CASE Tick \/ UNCHANGED vars \/ \E g \in Generation : Promote(g)
  <2>1. UNCHANGED <<run, claim, runtime, attempt>>
    BY <1>1 DEF Tick, vars, Promote
  <2> QED
    BY <2>1, UnchangedSafe
<1>2. ASSUME NEW now \in Readings, RunOperation(now)
      PROVE  Safety'
  <2>1. ASSUME NEW r \in Run, RenewExpired(r, now) \/ InterruptRun(r)
        PROVE  Safety'
    BY <2>1, InterruptRunsSafe DEF RenewExpired, InterruptRun
  <2> QED
    BY <1>2, <2>1, AcquireRunSafe, RenewRunSafe, FinishRunSafe, ReadingsPast
       DEF RunOperation
<1>3. ASSUME NEW now \in Readings, ClaimOperation(now)
      PROVE  Safety'
  BY <1>3, ClaimNothingSafe, ClaimTaskSafe, TransitionTaskSafe, ConstantsAssumption
     DEF ClaimOperation, OpenClaims
<1>4. ASSUME NEW now \in Readings, TaskOperation(now)
      PROVE  Safety'
  BY <1>4, AssignWorktreeSafe, AppendRunAttemptSafe DEF TaskOperation
<1>5. ASSUME NEW now \in Readings, AttemptOperation(now)
      PROVE  Safety'
  <2>1. PICK a \in Attempt :
          \/ CompleteAttempt(a, now)
          \/ \E r \in Run, c \in Claim : AppendClaimAttempt(r, c, a, now)
    BY <1>5 DEF AttemptOperation
  <2>2. CASE CompleteAttempt(a, now)
    BY <2>2, <1>5, CompleteAttemptSafe
  <2>3. CASE \E r \in Run, c \in Claim : AppendClaimAttempt(r, c, a, now)
    BY <2>3, <1>5, AppendClaimAttemptSafe
  <2> QED
    BY <2>1, <2>2, <2>3
<1>6. ASSUME NEW now \in Readings, SweepExpiredRuns(now)
      PROVE  Safety'
  BY <1>6, InterruptRunsSafe DEF SweepExpiredRuns, ExpiredRuns
<1> QED
  BY <1>1, <1>2, <1>3, <1>4, <1>5, <1>6 DEF Next

\* Whatever operations any callers run, with clock readings however old: the
\* seven parts of Safety hold in every reachable state.
THEOREM StoreIsSafe == Spec => []Safety
<1>1. Init => TypeOK /\ Safety
  BY InitType, InitSafe
<1>2. TypeOK /\ Safety /\ [Next]_vars => (TypeOK /\ Safety)'
  BY NextType, NextSafe
<1> QED
  BY <1>1, <1>2, PTL DEF Spec

\* At most one running run per Borg (OneRunPerBorg).
THEOREM RunsAreExclusive == Spec => []OneRunPerBorg
<1>1. Safety => OneRunPerBorg
  BY DEF Safety
<1> QED
  BY <1>1, StoreIsSafe, PTL

\* Every open claim is the only one on its task and is backed by a running run
\* of its generation (OpenClaimIsBacked).
THEOREM ClaimsAreBacked == Spec => []OpenClaimIsBacked
<1>1. Safety => OpenClaimIsBacked
  BY DEF Safety
<1> QED
  BY <1>1, StoreIsSafe, PTL

\* No task is ever stranded in an active phase (ActiveTaskIsClaimed).
THEOREM NoTaskIsStranded == Spec => []ActiveTaskIsClaimed
<1>1. Safety => ActiveTaskIsClaimed
  BY DEF Safety
<1> QED
  BY <1>1, StoreIsSafe, PTL

\* A task some run started has its dependencies done (DependenciesDone).
THEOREM DependenciesComeFirst == Spec => []DependenciesDone
<1>1. Safety => DependenciesDone
  BY DEF Safety
<1> QED
  BY <1>1, StoreIsSafe, PTL

\* A completed run's generation is done (CompletedRunIsComplete).
THEOREM CompletionIsTrue == Spec => []CompletedRunIsComplete
<1>1. Safety => CompletedRunIsComplete
  BY DEF Safety
<1> QED
  BY <1>1, StoreIsSafe, PTL

\* Interruption closes every attempt (OpenAttemptIsBacked).
THEOREM AttemptsAreClosed == Spec => []OpenAttemptIsBacked
<1>1. Safety => OpenAttemptIsBacked
  BY DEF Safety
<1> QED
  BY <1>1, StoreIsSafe, PTL
===============================================================================
