------------------------ MODULE ExecutionStoreActions -------------------------
(***************************************************************************)
(* What no step of the store may do, and that its steps are steps of       *)
(* TaskBoard.  Everything follows from TypeOK and Safety, which hold       *)
(* always (StoreIsSafe), by looking at one operation at a time.            *)
(***************************************************************************)
EXTENDS ExecutionStoreProofs

USE DEF ActiveStatus, TerminalStatus, TaskStatus

(***************************************************************************)
(* History and progress.                                                   *)
(***************************************************************************)
\* Reconciliation writes open claims, running attempts and the status of active
\* tasks, so it rewrites no history and keeps progress.
LEMMA ReleaseKeeps ==
    ASSUME TypeOK, NEW C, C \subseteq OpenClaims
    PROVE  /\ \A c \in Claim : claim[c].status = "released" => Released(C)[c] = claim[c]
           /\ \A t \in Task : runtime[t].status \in TerminalStatus \cup {"absent"}
                => Requeued(C)[t] = runtime[t]
           /\ \A t \in Task :
                /\ Requeued(C)[t].resume = runtime[t].resume
                /\ Requeued(C)[t].round = runtime[t].round
                /\ Requeued(C)[t].identity = runtime[t].identity
<1>1. \A c \in Claim : claim[c].status = "released" => Released(C)[c] = claim[c]
  BY ReleasedRow DEF OpenClaims
<1>2. \A t \in Task : runtime[t].status \in TerminalStatus \cup {"absent"}
        => Requeued(C)[t] = runtime[t]
  BY RequeuedRow
<1>3. \A t \in Task :
        /\ Requeued(C)[t].resume = runtime[t].resume
        /\ Requeued(C)[t].round = runtime[t].round
        /\ Requeued(C)[t].identity = runtime[t].identity
  BY DEF Requeued, TypeOK, RuntimeRecord
<1> QED
  BY <1>1, <1>2, <1>3

\* Interrupting running attempts rewrites no ended one.
LEMMA InterruptKeeps ==
    ASSUME TypeOK, NEW A, \A a \in A : attempt[a].status = "running"
    PROVE  \A a \in Attempt : attempt[a].status \in {"finished", "interrupted"}
             => Interrupted(A)[a] = attempt[a]
BY InterruptedRow

\* _interrupt_run keeps history and progress.
LEMMA InterruptRunsKeeps ==
    ASSUME TypeOK, NEW R \in SUBSET Run,
           \A r \in R : run[r].status = "running", InterruptRuns(R)
    PROVE  HistoryKept /\ ProgressKept
<1>1. \A r \in Run : run[r].status \in {"completed", "failed", "cancelled"}
        => run'[r] = run[r]
  BY CancelledRow DEF InterruptRuns
<1>2. ClaimsOfRuns(R) \subseteq OpenClaims
  BY DEF ClaimsOfRuns
<1>3. \A a \in AttemptsOfRuns(R) : attempt[a].status = "running"
  BY DEF AttemptsOfRuns
<1>4. HistoryKept
  BY <1>1, <1>2, <1>3, ReleaseKeeps, InterruptKeeps DEF HistoryKept, InterruptRuns
<1>5. ProgressKept
  BY <1>2, ReleaseKeeps DEF ProgressKept, InterruptRuns
<1> QED
  BY <1>4, <1>5

\* Taking over a Borg keeps history and progress: the new run was unused, and
\* only tasks with no runtime get a new one.
LEMMA AcquireRunKeeps ==
    ASSUME TypeOK, NEW g \in Generation, NEW r \in Run, NEW now \in Readings,
           AcquireRun(g, r, now)
    PROVE  HistoryKept /\ ProgressKept
<1> DEFINE R == RunningOf(BorgOf[g]) \cap ExpiredRuns(now)
           C == ClaimsOfRuns(R)
<1>1. /\ run[r].status = "unused"
      /\ run' = [Cancelled(R) EXCEPT ![r] = [status |-> "running", gen |-> g,
                                             lease |-> now + LeaseDuration]]
      /\ claim' = Released(C) /\ attempt' = Interrupted(AttemptsOfRuns(R))
      /\ \A t \in Task : runtime'[t] = IF t \in TasksOf(g) /\ runtime[t].status = "absent"
                                       THEN NewRuntime ELSE Requeued(C)[t]
  BY RequeuedType DEF AcquireRun
<1>2. /\ C \subseteq OpenClaims
      /\ \A s \in R : run[s].status = "running"
      /\ \A a \in AttemptsOfRuns(R) : attempt[a].status = "running"
  BY DEF ClaimsOfRuns, ExpiredRuns, AttemptsOfRuns
<1> HIDE DEF R, C
<1>3. \A s \in Run : run[s].status \in {"completed", "failed", "cancelled"}
        => run'[s] = run[s]
  BY <1>1, <1>2, CancelledRow, CancelledType
<1>4. HistoryKept
  BY <1>1, <1>2, <1>3, ReleaseKeeps, InterruptKeeps DEF HistoryKept
<1>5. ProgressKept
  BY <1>1, <1>2, ReleaseKeeps DEF ProgressKept
<1> QED
  BY <1>4, <1>5

\* Renewing a run keeps history and progress.
LEMMA RenewRunKeeps ==
    ASSUME TypeOK, NEW r \in Run, NEW now \in Readings, RenewRun(r, now)
    PROVE  HistoryKept /\ ProgressKept
<1> DEFINE C == ExpiredClaims(r, now)
<1>1. /\ run[r].status = "running"
      /\ run' = [run EXCEPT ![r].lease = now + LeaseDuration]
      /\ runtime' = Requeued(C) /\ attempt' = Interrupted(AttemptsOfClaims(C))
      /\ \A c \in Claim : c \notin OpenClaims => claim'[c] = Released(C)[c]
  BY DEF RenewRun, LiveRun, ClaimsOfRuns
<1>2. /\ C \subseteq OpenClaims
      /\ \A a \in AttemptsOfClaims(C) : attempt[a].status = "running"
  BY DEF ExpiredClaims, ClaimsOfRuns, AttemptsOfClaims
<1> HIDE DEF C
<1>3. \A s \in Run : run[s].status \in {"completed", "failed", "cancelled"}
        => run'[s] = run[s]
  BY <1>1 DEF TypeOK
<1>4. \A c \in Claim : claim[c].status = "released" => claim'[c] = claim[c]
  BY <1>1, <1>2, ReleaseKeeps DEF OpenClaims
<1>5. HistoryKept
  BY <1>1, <1>2, <1>3, <1>4, ReleaseKeeps, InterruptKeeps DEF HistoryKept
<1>6. ProgressKept
  BY <1>1, <1>2, ReleaseKeeps DEF ProgressKept
<1> QED
  BY <1>5, <1>6

\* A claim that finds no ready task keeps history and progress.
LEMMA ClaimNothingKeeps ==
    ASSUME TypeOK, NEW r \in Run, NEW now \in Readings, ClaimNothing(r, now)
    PROVE  HistoryKept /\ ProgressKept
<1> DEFINE C == ExpiredClaims(r, now)
<1>1. /\ run' = run /\ claim' = Released(C)
      /\ runtime' = Requeued(C) /\ attempt' = Interrupted(AttemptsOfClaims(C))
  BY DEF ClaimNothing
<1>2. /\ C \subseteq OpenClaims
      /\ \A a \in AttemptsOfClaims(C) : attempt[a].status = "running"
  BY DEF ExpiredClaims, ClaimsOfRuns, AttemptsOfClaims
<1> HIDE DEF C
<1> QED
  BY <1>1, <1>2, ReleaseKeeps, InterruptKeeps DEF HistoryKept, ProgressKept

\* Taking a task keeps history and progress: the claim was unused and the task
\* pending.
LEMMA ClaimTaskKeeps ==
    ASSUME TypeOK, NEW r \in Run, NEW c \in Claim, NEW now \in Readings,
           ClaimTask(r, c, now)
    PROVE  HistoryKept /\ ProgressKept
<1> DEFINE C == ExpiredClaims(r, now)
<1>1. PICK t \in First(Ready(r, C)) :
        /\ claim' = [Released(C) EXCEPT
                       ![c] = [status |-> "open", run |-> r, task |-> t,
                               lease |-> Smaller(now + LeaseDuration,
                                                 run[r].lease),
                               resume |-> runtime[t].resume]]
        /\ runtime' = [Requeued(C) EXCEPT
                         ![t] = [@ EXCEPT !.status = "claimed", !.lastRun = r]]
  BY DEF ClaimTask
<1>2. /\ t \in Task /\ Requeued(C)[t].status = "pending"
      /\ claim[c].status = "unused" /\ run' = run
      /\ attempt' = Interrupted(AttemptsOfClaims(C))
  BY <1>1 DEF ClaimTask, First, Ready, TasksOf
<1>3. /\ C \subseteq OpenClaims
      /\ \A a \in AttemptsOfClaims(C) : attempt[a].status = "running"
  BY DEF ExpiredClaims, ClaimsOfRuns, AttemptsOfClaims
<1>4. \A d \in Claim \ {c} : claim'[d] = Released(C)[d]
  BY <1>1, ReleasedType
<1>5. /\ runtime'[t] = [Requeued(C)[t] EXCEPT !.status = "claimed", !.lastRun = r]
      /\ \A u \in Task \ {t} : runtime'[u] = Requeued(C)[u]
  BY <1>1, <1>2, RequeuedType
<1> HIDE DEF C
<1>6. /\ runtime'[t].resume = Requeued(C)[t].resume
      /\ runtime'[t].round = Requeued(C)[t].round
      /\ runtime'[t].identity = Requeued(C)[t].identity
  <2>1. Requeued(C)[t] \in RuntimeRecord
    BY <1>2, RequeuedType
  <2> QED
    BY <1>5, <2>1 DEF RuntimeRecord
<1>7. HistoryKept
  <2>1. \A d \in Claim : claim[d].status = "released" => claim'[d] = claim[d]
    BY <1>2, <1>3, <1>4, ReleaseKeeps
  <2>2. \A u \in Task : runtime[u].status \in TerminalStatus
          => runtime'[u].status = runtime[u].status
    BY <1>2, <1>3, <1>5, ReleaseKeeps
  <2> QED
    BY <1>2, <1>3, <2>1, <2>2, InterruptKeeps DEF HistoryKept
<1>8. ProgressKept
  <2>1. \A u \in Task : /\ runtime'[u].resume = runtime[u].resume
                         /\ runtime'[u].round = runtime[u].round
                         /\ runtime'[u].identity = runtime[u].identity
    <3> TAKE u \in Task
    <3>1. /\ Requeued(C)[u].resume = runtime[u].resume
          /\ Requeued(C)[u].round = runtime[u].round
          /\ Requeued(C)[u].identity = runtime[u].identity
      BY <1>3, ReleaseKeeps
    <3> QED
      BY <1>5, <1>6, <3>1
  <2> QED
    BY <2>1 DEF ProgressKept
<1> QED
  BY <1>7, <1>8

\* A transition starts from an active phase and leads to neither "pending" nor
\* "claimed".
LEMMA SuccessorsMoveOn ==
    ASSUME NEW expected, NEW new \in Successors(expected)
    PROVE  /\ expected \in ActiveStatus
           /\ new \in (ActiveStatus \cup TerminalStatus) \ {"claimed"}
BY DEF Successors

\* A transition keeps history and progress.
LEMMA TransitionTaskKeeps ==
    ASSUME TypeOK, NEW r \in Run, NEW c \in Claim, NEW expected, NEW new,
           NEW resume, NEW round, NEW now \in Readings,
           TransitionTask(r, c, expected, new, resume, round, now)
    PROVE  HistoryKept /\ ProgressKept
<1> DEFINE t == claim[c].task
           row == [runtime[t] EXCEPT !.status = new, !.resume = resume,
                                     !.round = round]
<1>1. /\ new \in Successors(expected) /\ runtime[t].status = expected
      /\ runtime' = [runtime EXCEPT ![t] = row]
      /\ claim[c].status = "open" /\ claim' \in {Released({c}), claim}
      /\ run' = run /\ attempt' = attempt
  BY DEF TransitionTask, LiveClaim
<1>2. /\ expected \in ActiveStatus
      /\ new \in (ActiveStatus \cup TerminalStatus) \ {"claimed"}
  BY <1>1, SuccessorsMoveOn
<1>3. \A u \in Task : u # t => runtime'[u] = runtime[u]
  BY <1>1 DEF TypeOK
<1>4. t \in Task => runtime'[t].status = new
  BY <1>1 DEF TypeOK, RuntimeRecord
<1> HIDE DEF t, row
<1>5. \A d \in Claim : claim[d].status = "released" => claim'[d] = claim[d]
  BY <1>1, ReleasedRow
<1>6. HistoryKept
  BY <1>1, <1>2, <1>3, <1>5 DEF HistoryKept
<1>7. ProgressKept
  BY <1>2, <1>3, <1>4 DEF ProgressKept
<1> QED
  BY <1>6, <1>7

\* The remaining operations write rows that have not ended, and columns no
\* resumption looks at.
LEMMA FinishRunKeeps ==
    ASSUME TypeOK, NEW r \in Run, NEW status, NEW now \in Readings,
           FinishRun(r, status, now)
    PROVE  HistoryKept /\ ProgressKept
<1>1. /\ run[r].status = "running" /\ run' = [run EXCEPT ![r].status = status]
      /\ UNCHANGED <<claim, runtime, attempt>>
  BY DEF FinishRun, LiveRun
<1> QED
  BY <1>1 DEF TypeOK, HistoryKept, ProgressKept

\* A worktree is assigned once and never exchanged.
LEMMA AssignWorktreeKeeps ==
    ASSUME TypeOK, NEW r \in Run, NEW t \in Task, NEW identity \in Identity,
           NEW now \in Readings, AssignWorktree(r, t, identity, now)
    PROVE  HistoryKept /\ ProgressKept
<1>1. /\ UNCHANGED <<run, claim, attempt>> /\ runtime[t].identity = NoIdentity
      /\ \A u \in Task :
           /\ runtime'[u].status = runtime[u].status
           /\ runtime'[u].resume = runtime[u].resume
           /\ runtime'[u].round = runtime[u].round
           /\ u # t => runtime'[u] = runtime[u]
  BY DEF AssignWorktree, TypeOK, RuntimeRecord
<1> QED
  BY <1>1 DEF HistoryKept, ProgressKept

\* Opening or completing an attempt writes an attempt that has not ended.
LEMMA AttemptKeeps ==
    ASSUME NEW a \in Attempt, attempt[a].status \in {"unused", "running"},
           \A b \in Attempt \ {a} : attempt'[b] = attempt[b],
           UNCHANGED <<run, claim, runtime>>
    PROVE  HistoryKept /\ ProgressKept
BY DEF HistoryKept, ProgressKept

\* Every operation keeps history and progress.
LEMMA NextKeeps == TypeOK /\ [Next]_vars => HistoryKept /\ ProgressKept
<1> SUFFICES ASSUME TypeOK, [Next]_vars
             PROVE  HistoryKept /\ ProgressKept
  OBVIOUS
<1>1. CASE Tick \/ UNCHANGED vars \/ \E g \in Generation : Promote(g)
  <2>1. UNCHANGED <<run, claim, runtime, attempt>>
    BY <1>1 DEF Tick, vars, Promote
  <2> QED
    BY <2>1 DEF HistoryKept, ProgressKept
<1>2. ASSUME NEW now \in Readings, RunOperation(now)
      PROVE  HistoryKept /\ ProgressKept
  <2>1. ASSUME NEW r \in Run, RenewExpired(r, now) \/ InterruptRun(r)
        PROVE  HistoryKept /\ ProgressKept
    BY <2>1, InterruptRunsKeeps DEF RenewExpired, InterruptRun
  <2> QED
    BY <1>2, <2>1, AcquireRunKeeps, RenewRunKeeps, FinishRunKeeps DEF RunOperation
<1>3. ASSUME NEW now \in Readings, ClaimOperation(now)
      PROVE  HistoryKept /\ ProgressKept
  BY <1>3, ClaimNothingKeeps, ClaimTaskKeeps, TransitionTaskKeeps DEF ClaimOperation, OpenClaims
<1>4. ASSUME NEW now \in Readings, TaskOperation(now)
      PROVE  HistoryKept /\ ProgressKept
  <2>1. ASSUME NEW r \in Run, NEW t \in Task, NEW a \in Attempt,
               AppendRunAttempt(r, t, a, now)
        PROVE  HistoryKept /\ ProgressKept
    BY <2>1, AttemptKeeps DEF AppendRunAttempt, TypeOK
  <2> QED
    BY <1>4, <2>1, AssignWorktreeKeeps DEF TaskOperation
<1>5. ASSUME NEW now \in Readings, AttemptOperation(now)
      PROVE  HistoryKept /\ ProgressKept
  <2>1. ASSUME NEW a \in Attempt, CompleteAttempt(a, now)
        PROVE  HistoryKept /\ ProgressKept
    BY <2>1, AttemptKeeps DEF CompleteAttempt, TypeOK
  <2>2. ASSUME NEW a \in Attempt, NEW r \in Run, NEW c \in Claim,
               AppendClaimAttempt(r, c, a, now)
        PROVE  HistoryKept /\ ProgressKept
    BY <2>2, AttemptKeeps DEF AppendClaimAttempt, TypeOK
  <2> QED
    BY <1>5, <2>1, <2>2 DEF AttemptOperation
<1>6. ASSUME NEW now \in Readings, SweepExpiredRuns(now)
      PROVE  HistoryKept /\ ProgressKept
  BY <1>6, InterruptRunsKeeps DEF SweepExpiredRuns, ExpiredRuns
<1> QED
  BY <1>1, <1>2, <1>3, <1>4, <1>5, <1>6 DEF Next

\* Ended runs, released claims, ended attempts and terminal tasks are never
\* written again, by anybody (HistoryIsImmutable).
THEOREM HistoryStands == Spec => HistoryIsImmutable
<1>1. TypeOK /\ [Next]_vars => [HistoryKept]_vars
  BY NextKeeps
<1> QED
  BY <1>1, TypeCorrect, PTL DEF Spec, HistoryIsImmutable

\* However often a task is interrupted, requeued and claimed again, it resumes
\* from the phase, the round and the worktree it had (RequeueKeepsProgress).
THEOREM ProgressSurvives == Spec => RequeueKeepsProgress
<1>1. TypeOK /\ [Next]_vars => [ProgressKept]_vars
  BY NextKeeps
<1> QED
  BY <1>1, TypeCorrect, PTL DEF Spec, RequeueKeepsProgress

(***************************************************************************)
(* Fencing.                                                                *)
(***************************************************************************)
\* Nothing but a transition moves a task on.
NothingAdvances ==
    \A t \in Task : runtime'[t].status \in {runtime[t].status, "pending", "claimed"}

\* Reconciliation moves no task on.
LEMMA RequeueAdvancesNothing ==
    ASSUME TypeOK, NEW C, runtime' = Requeued(C)
    PROVE  NothingAdvances
BY RequeuedRow DEF NothingAdvances

\* A claim moves its task to its first phase only.
LEMMA ClaimAdvancesNothing ==
    ASSUME TypeOK, NEW r \in Run, NEW c \in Claim, NEW now \in Readings,
           ClaimTask(r, c, now)
    PROVE  NothingAdvances
<1> DEFINE C == ExpiredClaims(r, now)
<1>1. PICK t : runtime' = [Requeued(C) EXCEPT
                             ![t] = [@ EXCEPT !.status = "claimed", !.lastRun = r]]
  BY DEF ClaimTask
<1>2. \A u \in Task : u # t => runtime'[u] = Requeued(C)[u]
  BY <1>1, RequeuedType
<1>3. t \in Task => runtime'[t].status = "claimed"
  <2> HAVE t \in Task
  <2>1. Requeued(C)[t] \in RuntimeRecord
    BY RequeuedType
  <2>2. runtime'[t] = [Requeued(C)[t] EXCEPT !.status = "claimed", !.lastRun = r]
    BY <1>1, RequeuedType
  <2> QED
    BY <2>1, <2>2 DEF RuntimeRecord
<1> QED
  BY <1>2, <1>3, RequeuedRow DEF NothingAdvances

\* A transition is made by the owner of the open claim on the task, with a
\* reading before the end of both leases and at most MaxSkew old.
LEMMA TransitionIsFenced ==
    ASSUME TypeOK, NEW r \in Run, NEW c \in Claim, NEW expected, NEW new,
           NEW resume, NEW round, NEW now \in Readings,
           TransitionTask(r, c, expected, new, resume, round, now)
    PROVE  Fenced
<1>1. /\ LiveClaim(r, c, now)
      /\ \A t \in Task : t # claim[c].task => runtime'[t] = runtime[t]
  BY DEF TransitionTask, TypeOK
<1>2. /\ claim[c].lease \in Int /\ run[r].lease \in Int
      /\ now \in Int /\ clock \in Int /\ clock <= now + MaxSkew
  BY ReadingType, ReadingsPast, ConstantsAssumption DEF TypeOK, ClaimRecord, RunRecord, Readings
<1>3. clock < claim[c].lease + MaxSkew /\ clock < run[r].lease + MaxSkew
  BY <1>1, <1>2, ConstantsAssumption DEF LiveClaim, LiveRun
<1>4. c \in OpenClaims /\ claim[c].run = r /\ run[r].status = "running"
  BY <1>1 DEF LiveClaim, LiveRun, OpenClaims
<1> QED
  BY <1>1, <1>3, <1>4 DEF Fenced, Advances

\* Every operation is fenced.
LEMMA NextFenced == TypeOK /\ [Next]_vars => Fenced
<1>0. NothingAdvances => Fenced
  BY DEF NothingAdvances, Fenced, Advances
<1> SUFFICES ASSUME TypeOK, [Next]_vars
             PROVE  Fenced
  OBVIOUS
<1>1. CASE UNCHANGED runtime
  BY <1>0, <1>1 DEF NothingAdvances
<1>2. CASE \E R : InterruptRuns(R)
  BY <1>0, <1>2, RequeueAdvancesNothing DEF InterruptRuns
<1>3. ASSUME NEW now \in Readings, RunOperation(now)
      PROVE  Fenced
  <2>1. ASSUME NEW r \in Run, NEW g \in Generation, AcquireRun(g, r, now)
        PROVE  Fenced
    <3>1. \E C : \A t \in Task : runtime'[t] \in {NewRuntime, Requeued(C)[t]}
      BY <2>1 DEF AcquireRun
    <3> QED
      BY <1>0, <3>1, RequeuedRow DEF NothingAdvances, NewRuntime, AbsentRuntime
  <2>2. ASSUME NEW r \in Run, RenewRun(r, now)
        PROVE  Fenced
    BY <1>0, <2>2, RequeueAdvancesNothing DEF RenewRun
  <2>3. ASSUME NEW r \in Run, RenewExpired(r, now) \/ InterruptRun(r)
        PROVE  Fenced
    BY <1>2, <2>3 DEF RenewExpired, InterruptRun
  <2>4. ASSUME NEW r \in Run, NEW status, FinishRun(r, status, now)
        PROVE  Fenced
    BY <1>1, <2>4 DEF FinishRun
  <2> QED
    BY <1>3, <2>1, <2>2, <2>3, <2>4 DEF RunOperation
<1>4. ASSUME NEW now \in Readings, ClaimOperation(now)
      PROVE  Fenced
  <2>1. ASSUME NEW r \in Run, ClaimNothing(r, now)
        PROVE  Fenced
    BY <1>0, <2>1, RequeueAdvancesNothing DEF ClaimNothing
  <2>2. ASSUME NEW r \in Run, NEW c \in Claim, ClaimTask(r, c, now)
        PROVE  Fenced
    BY <1>0, <1>4, <2>2, ClaimAdvancesNothing
  <2> QED
    BY <1>4, <2>1, <2>2, TransitionIsFenced DEF ClaimOperation, OpenClaims
<1>5. ASSUME NEW now \in Readings, TaskOperation(now)
      PROVE  Fenced
  <2>1. ASSUME NEW r \in Run, NEW t \in Task, NEW identity,
               AssignWorktree(r, t, identity, now)
        PROVE  Fenced
    BY <1>0, <2>1 DEF AssignWorktree, TypeOK, RuntimeRecord, NothingAdvances
  <2> QED
    BY <1>1, <1>5, <2>1 DEF TaskOperation, AppendRunAttempt
<1>6. ASSUME NEW now \in Readings, AttemptOperation(now)
      PROVE  Fenced
  BY <1>1, <1>6 DEF AttemptOperation, CompleteAttempt, AppendClaimAttempt
<1>7. ASSUME NEW now \in Readings, SweepExpiredRuns(now)
      PROVE  Fenced
  BY <1>2, <1>7 DEF SweepExpiredRuns
<1>8. CASE Tick \/ UNCHANGED vars \/ \E g \in Generation : Promote(g)
  BY <1>1, <1>8 DEF Tick, vars, Promote
<1> QED
  BY <1>3, <1>4, <1>5, <1>6, <1>7, <1>8 DEF Next

\* A task's phase advances only for the owner of an open claim, and never later
\* than the skew of readings after either lease ran out (StaleOwnerIsFenced).
THEOREM StaleOwnersAreFenced == Spec => StaleOwnerIsFenced
<1>1. TypeOK /\ [Next]_vars => [Fenced]_vars
  BY NextFenced
<1> QED
  BY <1>1, TypeCorrect, PTL DEF Spec, StaleOwnerIsFenced

(***************************************************************************)
(* The tables implement TaskBoard.                                         *)
(***************************************************************************)
Outcome(t) == IF runtime[t].status \in TerminalStatus THEN runtime[t].status ELSE "open"

\* The holder of a task is the run of its open claim.
LEMMA HolderIs ==
    ASSUME OpenClaimIsBacked, NEW t
    PROVE  /\ \A c \in OpenClaims : claim[c].task = t => HolderOf(t) = claim[c].run
           /\ (\A c \in OpenClaims : claim[c].task # t) => HolderOf(t) = NoRow
BY DEF HolderOf, OpenClaimIsBacked

\* The same after a step.
LEMMA HolderIsAfter ==
    ASSUME OpenClaimIsBacked', NEW t
    PROVE  /\ \A c \in OpenClaims' : claim'[c].task = t => HolderOf(t)' = claim'[c].run
           /\ (\A c \in OpenClaims' : claim'[c].task # t) => HolderOf(t)' = NoRow
BY DEF HolderOf, OpenClaimIsBacked

\* A task is held exactly when it has an open claim.
LEMMA HeldIs ==
    ASSUME OpenClaimIsBacked, NEW t
    PROVE  HolderOf(t) # NoRow <=> \E c \in OpenClaims : claim[c].task = t
<1>1. \A c \in OpenClaims : claim[c].run # NoRow
  BY ConstantsAssumption DEF OpenClaimIsBacked, Backed
<1> QED
  BY <1>1, HolderIs

\* Releasing open claims C and changing no outcome hands their tasks back.
LEMMA ReleaseReturns ==
    ASSUME OpenClaimIsBacked, OpenClaimIsBacked', NEW C \in SUBSET OpenClaims,
           OpenClaims' = OpenClaims \ C,
           \A c \in OpenClaims \ C : /\ claim'[c].run = claim[c].run
                                     /\ claim'[c].task = claim[c].task,
           \A t \in Task : Outcome(t)' = Outcome(t)
    PROVE  Board!Return
<1> DEFINE S == {t \in Task : \E c \in C : claim[c].task = t}
<1>1. S \subseteq Board!Held
  BY HeldIs DEF Board!Held
<1>2. \A t \in S : HolderOf(t)' = NoRow
  BY HolderIsAfter DEF OpenClaimIsBacked
<1>3. \A t \in Task \ S : HolderOf(t)' = HolderOf(t)
  BY HolderIs, HolderIsAfter
<1> HIDE DEF S
<1>4. [t \in Task |-> HolderOf(t)]' = Board!HandBack(S)
  BY <1>2, <1>3 DEF Board!HandBack
<1> QED
  BY <1>1, <1>4 DEF Board!Return, Outcome

\* Requeueing changes no outcome.
LEMMA RequeueKeepsOutcome ==
    ASSUME TypeOK, NEW C, runtime' = Requeued(C)
    PROVE  \A t \in Task : Outcome(t)' = Outcome(t)
BY RequeuedRow DEF Outcome

\* An interruption of runs is a return.
LEMMA InterruptRunsReturns ==
    ASSUME TypeOK, Safety, Safety', NEW R, InterruptRuns(R)
    PROVE  Board!Return
<1>1. /\ claim' = Released(ClaimsOfRuns(R)) /\ runtime' = Requeued(ClaimsOfRuns(R))
      /\ ClaimsOfRuns(R) \subseteq OpenClaims
  BY DEF InterruptRuns, ClaimsOfRuns
<1>2. OpenClaims' = OpenClaims \ ClaimsOfRuns(R)
  BY <1>1, ReleasedRow DEF OpenClaims
<1>3. \A c \in OpenClaims : claim'[c].run = claim[c].run /\ claim'[c].task = claim[c].task
  BY <1>1, ReleasedRow DEF OpenClaims
<1> QED
  BY <1>1, <1>2, <1>3, RequeueKeepsOutcome, ReleaseReturns DEF Safety

\* A takeover returns the tasks of the runs it interrupts.
LEMMA AcquireRunReturns ==
    ASSUME TypeOK, Safety, Safety', NEW g \in Generation, NEW r \in Run,
           NEW now \in Readings, AcquireRun(g, r, now)
    PROVE  Board!Return
<1> DEFINE C == ClaimsOfRuns(RunningOf(BorgOf[g]) \cap ExpiredRuns(now))
<1>1. /\ claim' = Released(C) /\ C \subseteq OpenClaims
      /\ \A t \in Task : runtime'[t] = IF t \in TasksOf(g) /\ runtime[t].status = "absent"
                                       THEN NewRuntime ELSE Requeued(C)[t]
  BY DEF AcquireRun, ClaimsOfRuns
<1> HIDE DEF C
<1>2. OpenClaims' = OpenClaims \ C
  BY <1>1, ReleasedRow DEF OpenClaims
<1>3. \A c \in OpenClaims : claim'[c].run = claim[c].run /\ claim'[c].task = claim[c].task
  BY <1>1, ReleasedRow DEF OpenClaims
<1>4. \A t \in Task : Outcome(t)' = Outcome(t)
  BY <1>1, RequeuedRow DEF Outcome, NewRuntime, AbsentRuntime
<1> QED
  BY <1>1, <1>2, <1>3, <1>4, ReleaseReturns DEF Safety

\* A renewal returns the tasks of the claims it finds expired.
LEMMA RenewRunReturns ==
    ASSUME TypeOK, Safety, Safety', NEW r \in Run, NEW now \in Readings,
           RenewRun(r, now)
    PROVE  Board!Return
<1> DEFINE C == ExpiredClaims(r, now)
<1>1. runtime' = Requeued(C) /\ C \subseteq OpenClaims
  BY DEF RenewRun, ExpiredClaims, ClaimsOfRuns
<1>2. \A c \in Claim : /\ claim'[c].run = claim[c].run
                       /\ claim'[c].task = claim[c].task
                       /\ claim'[c].status = Released(C)[c].status
  <2> TAKE c \in Claim
  <2>1. claim[c] \in ClaimRecord
    BY DEF TypeOK
  <2>2. CASE c \in ClaimsOfRuns({r}) \ C
    <3>1. claim'[c] = [claim[c] EXCEPT !.lease = now + LeaseDuration]
      BY <2>2 DEF RenewRun
    <3> QED
      BY <3>1, <2>1, <2>2, ReleasedRow DEF ClaimRecord
  <2>3. CASE c \notin ClaimsOfRuns({r}) \ C
    BY <2>3, ReleasedRow DEF RenewRun
  <2> QED
    BY <2>2, <2>3
<1> HIDE DEF C
<1>3. OpenClaims' = OpenClaims \ C
  BY <1>1, <1>2, ReleasedRow DEF OpenClaims
<1>4. \A c \in OpenClaims : claim'[c].run = claim[c].run /\ claim'[c].task = claim[c].task
  BY <1>2 DEF OpenClaims
<1> QED
  BY <1>1, <1>3, <1>4, RequeueKeepsOutcome, ReleaseReturns DEF Safety

\* A claim that finds no ready task returns the tasks of expired claims.
LEMMA ClaimNothingReturns ==
    ASSUME TypeOK, Safety, Safety', NEW r \in Run, NEW now \in Readings,
           ClaimNothing(r, now)
    PROVE  Board!Return
<1> DEFINE C == ExpiredClaims(r, now)
<1>1. /\ claim' = Released(C) /\ runtime' = Requeued(C) /\ C \subseteq OpenClaims
  BY DEF ClaimNothing, ExpiredClaims, ClaimsOfRuns
<1> HIDE DEF C
<1>2. OpenClaims' = OpenClaims \ C
  BY <1>1, ReleasedRow DEF OpenClaims
<1>3. \A c \in OpenClaims : claim'[c].run = claim[c].run /\ claim'[c].task = claim[c].task
  BY <1>1, ReleasedRow DEF OpenClaims
<1> QED
  BY <1>1, <1>2, <1>3, RequeueKeepsOutcome, ReleaseReturns DEF Safety

\* A step that changes no open claim and no outcome is a stutter of the board.
LEMMA BoardStutters ==
    ASSUME UNCHANGED claim, \A t \in Task : Outcome(t)' = Outcome(t)
    PROVE  UNCHANGED Board!board
BY DEF Board!board, HolderOf, OpenClaims, Outcome

\* Two claims in runs of one Borg are in the same run.
LEMMA OneRunHolds ==
    ASSUME Safety, NEW r \in Run, run[r].status = "running", NEW d \in OpenClaims,
           BorgOf[GenerationOf[claim[d].task]] = BorgOf[run[r].gen]
    PROVE  claim[d].run = r
BY DEF Safety, OneRunPerBorg, OpenClaimIsBacked, Backed

\* Taking a task is a take, after the return of the tasks of expired claims.
LEMMA ClaimTaskTakes ==
    ASSUME TypeOK, Safety, Safety', NEW r \in Run, NEW c \in Claim,
           NEW now \in Readings, ClaimTask(r, c, now)
    PROVE  \E t \in Task : Board!Take(t, r)
<1> DEFINE C == ExpiredClaims(r, now)
<1>1. PICK t \in First(Ready(r, C)) :
        /\ claim' = [Released(C) EXCEPT
                       ![c] = [status |-> "open", run |-> r, task |-> t,
                               lease |-> Smaller(now + LeaseDuration,
                                                 run[r].lease),
                               resume |-> runtime[t].resume]]
        /\ runtime' = [Requeued(C) EXCEPT
                         ![t] = [@ EXCEPT !.status = "claimed", !.lastRun = r]]
  BY DEF ClaimTask
<1>2. /\ t \in Task /\ GenerationOf[t] = run[r].gen
      /\ Requeued(C)[t].status = "pending"
      /\ \A d \in OpenClaims \ C : claim[d].task # t
      /\ \A d \in Dependencies[t] : d \in Task /\ runtime[d].status = "done"
  BY <1>1, ConstantsAssumption DEF First, Ready, TasksOf
<1>3. /\ C \in SUBSET OpenClaims /\ c \notin OpenClaims /\ run[r].status = "running"
  BY DEF ClaimTask, LiveRun, ExpiredClaims, ClaimsOfRuns, OpenClaims
<1>4. claim'[c].status = "open" /\ claim'[c].run = r /\ claim'[c].task = t
  BY <1>1, ReleasedType
<1>5. \A d \in Claim \ {c} :
        /\ claim'[d].run = claim[d].run /\ claim'[d].task = claim[d].task
        /\ claim'[d].status = IF d \in C THEN "released" ELSE claim[d].status
  BY <1>1, ReleasedRow, ReleasedType
<1>6. \A u \in Task : Outcome(u)' = Outcome(u)
  <2>1. runtime'[t].status = "claimed"
    <3>1. Requeued(C)[t] \in RuntimeRecord
      BY <1>2, RequeuedType
    <3>2. runtime'[t] = [Requeued(C)[t] EXCEPT !.status = "claimed", !.lastRun = r]
      BY <1>1, <1>2, RequeuedType
    <3> QED
      BY <3>1, <3>2 DEF RuntimeRecord
  <2>2. \A u \in Task : u # t => runtime'[u] = Requeued(C)[u]
    BY <1>1, RequeuedType
  <2> QED
    BY <2>1, <2>2, <1>2, RequeuedRow DEF Outcome
<1> HIDE DEF C
<1>7. OpenClaims' = (OpenClaims \ C) \cup {c}
  BY <1>3, <1>4, <1>5 DEF OpenClaims
<1> DEFINE S == {u \in Task : \E d \in C : claim[d].task = u}
           cleared == Board!HandBack(S)
<1>8. S \subseteq Board!Held
  BY <1>3, HeldIs DEF Board!Held, Safety
<1>9. \A u \in Task : cleared[u] = IF u \in S THEN NoRow ELSE HolderOf(u)
  BY DEF Board!HandBack
<1>10. cleared[t] = NoRow
  BY <1>2, <1>3, <1>9, HolderIs DEF Safety
<1>11. \A u \in Task : BorgOf[GenerationOf[u]] = BorgOf[GenerationOf[t]]
                         => cleared[u] \in {r, NoRow}
  BY <1>2, <1>3, <1>9, HolderIs, OneRunHolds DEF Safety
<1>12. HolderOf(t)' = r
  BY <1>4, <1>7, HolderIsAfter DEF Safety
<1>13. \A u \in Task : u # t => HolderOf(u)' = cleared[u]
  <2> SUFFICES ASSUME NEW u \in Task, u # t
               PROVE  HolderOf(u)' = cleared[u]
    OBVIOUS
  <2>1. \A d \in OpenClaims' : claim'[d].task = u => d \in OpenClaims \ C
    BY <1>4, <1>7
  <2>2. \A d \in OpenClaims \ C : /\ d \in OpenClaims'
                                  /\ claim'[d].task = claim[d].task
                                  /\ claim'[d].run = claim[d].run
    BY <1>3, <1>5, <1>7 DEF OpenClaims
  <2>3. CASE \E d \in OpenClaims \ C : claim[d].task = u
    <3>1. PICK d \in OpenClaims \ C : claim[d].task = u
      BY <2>3
    <3>2. u \notin S
      BY <1>3, <3>1 DEF Safety, OpenClaimIsBacked
    <3>3. HolderOf(u)' = claim[d].run
      BY <2>2, <3>1, HolderIsAfter DEF Safety
    <3>4. HolderOf(u) = claim[d].run
      BY <3>1, HolderIs DEF Safety
    <3> QED
      BY <1>9, <3>2, <3>3, <3>4
  <2>4. CASE \A d \in OpenClaims \ C : claim[d].task # u
    <3>1. HolderOf(u)' = NoRow
      BY <2>1, <2>2, <2>4, HolderIsAfter DEF Safety
    <3>2. u \notin S => HolderOf(u) = NoRow
      BY <2>4, HolderIs DEF Safety
    <3> QED
      BY <1>9, <3>1, <3>2
  <2> QED
    BY <2>3, <2>4
<1>14. [u \in Task |-> HolderOf(u)]' = [cleared EXCEPT ![t] = r]
  <2>1. cleared = [u \in Task |-> cleared[u]]
    BY DEF Board!HandBack
  <2> HIDE DEF cleared
  <2> QED
    BY <2>1, <1>12, <1>13
<1>15. /\ Outcome(t) = "open"
       /\ \A d \in Dependencies[t] : d \in Task /\ Outcome(d) = "done"
  BY <1>2, RequeuedRow DEF Outcome
<1>16. [u \in Task |-> Outcome(u)]' = [u \in Task |-> Outcome(u)]
  BY <1>6
<1> HIDE DEF S
<1> QED
  BY <1>2, <1>8, <1>10, <1>11, <1>14, <1>15, <1>16 DEF Board!Take, Outcome

\* A transition to a terminal phase settles the task, any other is a stutter.
LEMMA TransitionTaskSettles ==
    ASSUME TypeOK, Safety, Safety', NEW r \in Run, NEW c \in Claim, NEW expected,
           NEW new, NEW resume, NEW round, NEW now \in Readings,
           TransitionTask(r, c, expected, new, resume, round, now)
    PROVE  \/ \E t \in Task, result \in Board!Outcome : Board!Settle(t, result)
           \/ UNCHANGED Board!board
<1>2. PICK t \in Task : t = claim[c].task
  BY DEF TransitionTask, LiveClaim, OpenClaims, Safety, OpenClaimIsBacked, Backed
<1> DEFINE row == [runtime[t] EXCEPT !.status = new, !.resume = resume,
                                     !.round = round]
<1>1. /\ new \in Successors(expected) /\ runtime[t].status = expected
      /\ runtime' = [runtime EXCEPT ![t] = row] /\ c \in OpenClaims
      /\ claim' = IF new \in TerminalStatus THEN Released({c}) ELSE claim
  BY <1>2 DEF TransitionTask, LiveClaim, OpenClaims
<1>3. /\ expected \in ActiveStatus
      /\ new \in (ActiveStatus \cup TerminalStatus) \ {"claimed"}
  BY <1>1, SuccessorsMoveOn
<1>4. /\ runtime'[t].status = new
      /\ \A u \in Task : u # t => runtime'[u] = runtime[u]
  BY <1>1, <1>2 DEF TypeOK, RuntimeRecord
<1> HIDE DEF row
<1>5. CASE new \in TerminalStatus
  <2>1. OpenClaims' = OpenClaims \ {c}
    BY <1>1, <1>5, ReleasedRow DEF OpenClaims
  <2>2. \A d \in OpenClaims \ {c} : claim'[d] = claim[d]
    BY <1>1, <1>5, ReleasedRow DEF OpenClaims
  <2>3. HolderOf(t) # NoRow
    BY <1>1, <1>2, HeldIs DEF Safety
  <2>4. HolderOf(t)' = NoRow
    <3>1. \A d \in OpenClaims \ {c} : claim[d].task # t
      BY <1>1, <1>2 DEF Safety, OpenClaimIsBacked
    <3>2. \A d \in OpenClaims' : claim'[d].task # t
      BY <2>1, <2>2, <3>1
    <3> QED
      BY <3>2, HolderIsAfter DEF Safety
  <2>5. \A u \in Task : u # t => HolderOf(u)' = HolderOf(u)
    <3> SUFFICES ASSUME NEW u \in Task, u # t
                 PROVE  HolderOf(u)' = HolderOf(u)
      OBVIOUS
    <3>1. CASE \E d \in OpenClaims \ {c} : claim[d].task = u
      BY <3>1, <1>2, <2>1, <2>2, HolderIs, HolderIsAfter DEF Safety
    <3>2. CASE \A d \in OpenClaims \ {c} : claim[d].task # u
      <4>1. \A d \in OpenClaims : claim[d].task # u
        BY <1>2, <3>2
      <4>2. \A d \in OpenClaims' : claim'[d].task # u
        BY <3>2, <2>1, <2>2
      <4> QED
        BY <4>1, <4>2, HolderIs, HolderIsAfter DEF Safety
    <3> QED
      BY <3>1, <3>2
  <2>6. [u \in Task |-> HolderOf(u)]'
          = [[u \in Task |-> HolderOf(u)] EXCEPT ![t] = NoRow]
    BY <2>4, <2>5
  <2>7. [u \in Task |-> Outcome(u)]'
          = [[u \in Task |-> Outcome(u)] EXCEPT ![t] = new]
    BY <1>4, <1>5 DEF Outcome
  <2>8. Board!Settle(t, new)
    BY <1>2, <2>3, <2>6, <2>7 DEF Board!Settle, Outcome
  <2> QED
    BY <1>2, <1>5, <2>8 DEF Board!Outcome
<1>6. CASE new \notin TerminalStatus
  <2>1. \A u \in Task : Outcome(u)' = Outcome(u)
    BY <1>1, <1>3, <1>4, <1>6 DEF Outcome
  <2> QED
    BY <1>1, <1>6, <2>1, BoardStutters
<1> QED
  BY <1>5, <1>6

\* The empty tables are the empty board.
LEMMA InitBoard == Init => Board!BoardInit
BY DEF Init, Board!BoardInit, HolderOf, OpenClaims, UnusedClaim, AbsentRuntime

\* Every operation is a step or a stutter of the board.
LEMMA NextBoard ==
    TypeOK /\ Safety /\ Safety' /\ [Next]_vars => [Board!BoardNext]_(Board!board)
<1> SUFFICES ASSUME TypeOK, Safety, Safety', [Next]_vars
             PROVE  Board!BoardNext \/ UNCHANGED Board!board
  OBVIOUS
<1>a. Board!Return => Board!BoardNext
  BY DEF Board!BoardNext
<1>b. UNCHANGED <<claim, runtime>> => UNCHANGED Board!board
  BY BoardStutters DEF Outcome
<1>1. CASE Tick \/ UNCHANGED vars \/ \E g \in Generation : Promote(g)
  BY <1>1, <1>b DEF Tick, vars, Promote
<1>2. ASSUME NEW now \in Readings, RunOperation(now)
      PROVE  Board!BoardNext \/ UNCHANGED Board!board
  <2>1. ASSUME NEW r \in Run, RenewExpired(r, now) \/ InterruptRun(r)
        PROVE  Board!Return
    BY <2>1, InterruptRunsReturns DEF RenewExpired, InterruptRun
  <2>2. ASSUME NEW r \in Run, NEW status, FinishRun(r, status, now)
        PROVE  UNCHANGED Board!board
    BY <2>2, <1>b DEF FinishRun
  <2> QED
    BY <1>2, <1>a, <2>1, <2>2, AcquireRunReturns, RenewRunReturns DEF RunOperation
<1>3. ASSUME NEW now \in Readings, ClaimOperation(now)
      PROVE  Board!BoardNext \/ UNCHANGED Board!board
  <2>1. ASSUME NEW r \in Run, NEW c \in Claim, ClaimTask(r, c, now)
        PROVE  Board!BoardNext
    BY <1>3, <2>1, ClaimTaskTakes DEF Board!BoardNext
  <2>2. ASSUME NEW r \in Run, NEW c \in Claim, NEW expected, NEW new, NEW resume,
               NEW round, TransitionTask(r, c, expected, new, resume, round, now)
        PROVE  Board!BoardNext \/ UNCHANGED Board!board
    BY <1>3, <2>2, TransitionTaskSettles DEF Board!BoardNext
  <2> QED
    BY <1>3, <1>a, <2>1, <2>2, ClaimNothingReturns DEF ClaimOperation, OpenClaims
<1>4. ASSUME NEW now \in Readings, TaskOperation(now)
      PROVE  UNCHANGED Board!board
  <2>1. ASSUME NEW r \in Run, NEW t \in Task, NEW identity,
               AssignWorktree(r, t, identity, now)
        PROVE  UNCHANGED Board!board
    <3>1. UNCHANGED claim /\ \A u \in Task : runtime'[u].status = runtime[u].status
      BY <2>1 DEF AssignWorktree, TypeOK, RuntimeRecord
    <3> QED
      BY <3>1, BoardStutters DEF Outcome
  <2> QED
    BY <1>4, <1>b, <2>1 DEF TaskOperation, AppendRunAttempt
<1>5. ASSUME NEW now \in Readings, AttemptOperation(now)
      PROVE  UNCHANGED Board!board
  BY <1>5, <1>b DEF AttemptOperation, CompleteAttempt, AppendClaimAttempt
<1>6. ASSUME NEW now \in Readings, SweepExpiredRuns(now)
      PROVE  Board!Return
  BY <1>6, InterruptRunsReturns DEF SweepExpiredRuns
<1> QED
  BY <1>1, <1>2, <1>3, <1>4, <1>5, <1>6, <1>a DEF Next

\* The execution tables, under any leases and clocks, implement the board
\* (ImplementsBoard).
THEOREM StoreImplementsBoard == Spec => ImplementsBoard
<1>1. Init => Board!BoardInit
  BY InitBoard
<1>2. TypeOK /\ Safety /\ Safety' /\ [Next]_vars => [Board!BoardNext]_(Board!board)
  BY NextBoard
<1> QED
  BY <1>1, <1>2, TypeCorrect, StoreIsSafe, PTL
     DEF Spec, ImplementsBoard, Board!BoardSpec

(***************************************************************************)
(* Generations.                                                            *)
(***************************************************************************)
\* Promotion supersedes the generation it replaces, and nothing else writes the
\* table: at most one generation of a Borg is current (OneCurrentGeneration).
THEOREM GenerationsAreExclusive == Spec => []OneCurrentGeneration
<1>1. Init => OneCurrentGeneration
  BY DEF Init, OneCurrentGeneration
<1>2. TypeOK /\ OneCurrentGeneration /\ [Next]_vars => OneCurrentGeneration'
  <2> SUFFICES ASSUME TypeOK, OneCurrentGeneration, [Next]_vars
               PROVE  OneCurrentGeneration'
    OBVIOUS
  <2>1. ASSUME NEW g \in Generation, Promote(g)
        PROVE  OneCurrentGeneration'
    BY <2>1 DEF Promote, OneCurrentGeneration, TypeOK
  <2>2. CASE UNCHANGED generation
    BY <2>2 DEF OneCurrentGeneration
  <2>3. ASSUME NEW now \in Readings, \/ RunOperation(now) \/ ClaimOperation(now)
                                     \/ TaskOperation(now) \/ AttemptOperation(now)
                                     \/ SweepExpiredRuns(now)
        PROVE  UNCHANGED generation
    <3>1. CASE RunOperation(now)
      BY <3>1 DEF RunOperation, AcquireRun, RenewRun, RenewExpired, FinishRun,
                  InterruptRun
    <3>2. CASE ClaimOperation(now)
      <4>1. ASSUME NEW r \in Run, ClaimNothing(r, now)
            PROVE  UNCHANGED generation
        BY <4>1 DEF ClaimNothing
      <4>2. ASSUME NEW r \in Run, NEW c \in Claim, ClaimTask(r, c, now)
            PROVE  UNCHANGED generation
        BY <4>2 DEF ClaimTask
      <4>3. ASSUME NEW r, NEW c, NEW expected, NEW new, NEW resume, NEW round,
                   TransitionTask(r, c, expected, new, resume, round, now)
            PROVE  UNCHANGED generation
        BY <4>3 DEF TransitionTask
      <4> QED
        BY <3>2, <4>1, <4>2, <4>3 DEF ClaimOperation, OpenClaims
    <3>3. CASE TaskOperation(now) \/ AttemptOperation(now) \/ SweepExpiredRuns(now)
      BY <3>3 DEF TaskOperation, AssignWorktree, AppendRunAttempt, AttemptOperation,
                  CompleteAttempt, AppendClaimAttempt, SweepExpiredRuns
    <3> QED
      BY <2>3, <3>1, <3>2, <3>3
  <2> QED
    BY <2>1, <2>2, <2>3 DEF Next, Tick, vars
<1> QED
  BY <1>1, <1>2, TypeCorrect, PTL DEF Spec
=============================================================================
