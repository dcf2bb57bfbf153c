-------------------------- MODULE HostSchedulerProofs --------------------------
(***************************************************************************)
(* Theorems about HostScheduler, for any number of Borgs, tasks, processes *)
(* and worker threads, any lease and any heartbeat shorter than it: live   *)
(* work keeps its task until its lease has really run out, only a crash or *)
(* an error of display or store leaves a run behind that lives, and a run  *)
(* is given up as failed only when nothing could have been started.        *)
(*                                                                         *)
(* They follow from IInv, which adds to the safety of the tables (Safety)  *)
(* what the processes know of them.  The clocks of one process never go    *)
(* back, unlike those of the store's callers in general, so that an open   *)
(* claim ends exactly with its run (Leased): no renewal and no claim ever  *)
(* finds an expired claim under a live run.                                *)
(***************************************************************************)
EXTENDS HostScheduler, ExecutionStoreProofs, FiniteSetTheorems

USE DEF ActiveStatus, TerminalStatus, TaskStatus, Over, Finished

\* What each process may be doing with its run and its claims.
Placed ==
    \A p \in Process :
        /\ now[p] <= clock
        /\ pc[p] \in {"idle", "acquire"} => run[p].status = "unused"
        /\ pc[p] \in SettingUp \cup {"setupFailed"} => ClaimsOf(p) = {}
        /\ pc[p] \in SettingUp \cup Loop \cup Draining
                       \cup {"setupFailed", "interrupt", "lost", "raised"}
             => run[p].status \in {"running", "cancelled"}
        /\ pc[p] \in {"submit", "register", "settleWrite"} => held[p] \in ClaimsOf(p)
        /\ active[p] \subseteq ClaimsOf(p) /\ unvisited[p] \subseteq ClaimsOf(p)

\* Leases are given from the clock, and a claim's is always that of its run.
Leased ==
    /\ \A r \in Run : run[r].status = "running" => run[r].lease <= clock + LeaseDuration
    /\ \A c \in OpenClaims : claim[c].lease = run[claim[c].run].lease

\* A claim is of a task that was opened, and is released when its task has ended
\* or its run is over.
Closed ==
    \A c \in Claim :
        /\ claim[c].status # "unused" => runtime[claim[c].task].status # "absent"
        /\ claim[c].status = "released" =>
             \/ runtime[claim[c].task].status \in TerminalStatus
             \/ run[claim[c].run].status # "running"

\* A thread exists for a claim of a process that is past its setup and has not
\* ended; without keyboard interrupts it is in the table or about to be.
Registered(c) ==
    LET p == claim[c].run
    IN  c \in active[p] \/ (pc[p] = "register" /\ held[p] = c)
Threaded ==
    /\ \A c \in Claim : worker[c] # "none" => claim[c].status # "unused"
    /\ \A c \in Working(Claim) :
         /\ pc[claim[c].run] \in (Loop \cup Ending) \ {"setupFailed"}
         /\ ~ KeyboardInterrupts => Registered(c)
    /\ \A p \in Process : pc[p] = "interrupt" => Working(active[p]) = {}

\* The settlement expects what the durable row says while its run lives.
Settling ==
    \A p \in Process :
        pc[p] = "settleWrite" =>
            /\ worker[held[p]] \in WorkerEnd
            /\ run[p].status = "running" =>
                 /\ claim[held[p]].status = "open"
                 /\ runtime[claim[held[p]].task].status = expected[p]

\* An open claim of a process in its loop that no future stands for is on its way
\* there, or will be found by nobody but the one who ends the run: the process
\* itself, cancelled or too late.
Overdue(p) ==
    run[p].lease <= clock /\ (pc[p] = "renew" => run[p].lease <= now[p])
Followed(c) ==
    LET p == claim[c].run
    IN  \/ c \in active[p]
        \/ pc[p] \in {"submit", "register", "settleWrite"} /\ held[p] = c
        \/ pc[p] \in Ending \cup Over
        \/ token[p] /\ pc[p] = "top"
        \/ Overdue(p)
Accounted == \A c \in OpenClaims : Followed(c)

\* A process about to finish has no future left, and while its lease lasts
\* every pending task of its generation waits for one that is not done, and the
\* verdict it has come to still holds.
Final == {"finish"} \cup Finished
Stuck(t) == \E d \in Dependencies[t] : runtime[d].status # "done"
Finishing ==
    \A p \in Process :
        pc[p] \in Final =>
            /\ active[p] = {}
            /\ LiveRun(p, clock) =>
                 /\ \A t \in TasksOf(run[p].gen) :
                      runtime[t].status = "pending" => Stuck(t)
                 /\ pc[p] \in Finished => (pc[p] = "complete") = AllDone(run[p].gen)

\* Live work, and a claim about to be worked on, still owns its task, or the task
\* has ended, or the lease it was given has run out.
Owns(c) ==
    \/ claim[c].status = "open"
    \/ runtime[claim[c].task].status \in TerminalStatus
    \/ claim[c].lease <= clock
Owning ==
    /\ RunningWorkerOwnsItsTask
    /\ \A p \in Process : pc[p] = "submit" => Owns(held[p])

\* A process that lost its run, or ended, has no run that lives.
Gone(p) == run[p].status # "running" \/ run[p].lease <= clock
Leaving == \A p \in Process : pc[p] = "lost" => Gone(p)

IInv ==
    /\ SchedulerTypeOK /\ Safety
    /\ Placed /\ Leased /\ Closed /\ Threaded /\ Settling /\ Accounted /\ Finishing
    /\ Leaving /\ EndedProcessLeavesNoLiveRun

--------------------------------------------------------------------------------
(***************************************************************************)
(* What the operations do to the rows, as the scheduler calls them.        *)
(***************************************************************************)
\* The claims of the runs R are released.
Releases(R) ==
    /\ \A c \in Claim :
         /\ claim'[c].run = claim[c].run /\ claim'[c].task = claim[c].task
         /\ claim'[c].lease = claim[c].lease
         /\ claim'[c].status = IF claim[c].status = "open" /\ claim[c].run \in R
                               THEN "released" ELSE claim[c].status
    /\ clock' = clock
Returns(t, R) == \E c \in OpenClaims : claim[c].task = t /\ claim[c].run \in R

\* The runs R are interrupted.
Cancels(R) ==
    /\ Releases(R)
    /\ \A r \in Run :
         /\ run'[r].gen = run[r].gen /\ run'[r].lease = run[r].lease
         /\ run'[r].status = IF r \in R THEN "cancelled" ELSE run[r].status
    /\ \A t \in Task :
         runtime'[t].status = IF Returns(t, R) THEN "pending" ELSE runtime[t].status

\* The run p of the generation g begins, after the Borg's run, if any, was
\* interrupted.
Begins(p, g, R) ==
    /\ R = RunningOf(BorgOf[g])
    /\ Releases(R)
    /\ run[p].status = "unused"
    /\ run'[p].status = "running" /\ run'[p].gen = g
    /\ run'[p].lease = clock + LeaseDuration
    /\ \A r \in Run \ {p} :
         /\ run'[r].gen = run[r].gen /\ run'[r].lease = run[r].lease
         /\ run'[r].status = IF r \in R THEN "cancelled" ELSE run[r].status
    /\ \A t \in Task :
         runtime'[t].status =
           IF Returns(t, R) \/ (runtime[t].status = "absent" /\ GenerationOf[t] = g)
           THEN "pending" ELSE runtime[t].status

\* The run p and all of its open claims get a lease that starts at t.
Renews(p, t) ==
    /\ LiveRun(p, t) /\ t \in 0..clock
    /\ clock' = clock /\ runtime' = runtime
    /\ \A r \in Run :
         /\ run'[r].gen = run[r].gen /\ run'[r].status = run[r].status
         /\ run'[r].lease = IF r = p THEN t + LeaseDuration ELSE run[r].lease
    /\ \A c \in Claim :
         /\ claim'[c].run = claim[c].run /\ claim'[c].task = claim[c].task
         /\ claim'[c].status = claim[c].status
         /\ claim'[c].lease = IF claim[c].status = "open" /\ claim[c].run = p
                              THEN t + LeaseDuration ELSE claim[c].lease

\* The run p gets the claim c of the task t, for as long as it has itself.
Takes(p, c, t) ==
    /\ LiveRun(p, clock) /\ claim[c].status = "unused"
    /\ t \in Task /\ GenerationOf[t] = run[p].gen /\ runtime[t].status = "pending"
    /\ clock' = clock /\ run' = run
    /\ claim'[c].status = "open" /\ claim'[c].run = p /\ claim'[c].task = t
    /\ claim'[c].lease = run[p].lease
    /\ \A d \in Claim \ {c} : claim'[d] = claim[d]
    /\ runtime'[t].status = "claimed"
    /\ \A u \in Task \ {t} : runtime'[u] = runtime[u]

\* The task of the live claim c of p moves on, and its end closes the claim.
Moves(p, c, new) ==
    /\ LiveClaim(p, c, clock)
    /\ new \in (ActiveStatus \cup TerminalStatus) \ {"claimed"}
    /\ clock' = clock /\ run' = run
    /\ claim'[c].run = p /\ claim'[c].task = claim[c].task
    /\ claim'[c].lease = claim[c].lease
    /\ claim'[c].status = IF new \in TerminalStatus THEN "released" ELSE "open"
    /\ \A d \in Claim \ {c} : claim'[d] = claim[d]
    /\ runtime'[claim[c].task].status = new
    /\ \A u \in Task \ {claim[c].task} : runtime'[u] = runtime[u]

\* The run p is finished.
Finishes(p, status) ==
    /\ LiveRun(p, clock) /\ status \in {"completed", "failed"}
    /\ \A t \in TasksOf(run[p].gen) : runtime[t].status \notin ActiveStatus
    /\ clock' = clock /\ claim' = claim /\ runtime' = runtime
    /\ run'[p].status = status
    /\ run'[p].gen = run[p].gen /\ run'[p].lease = run[p].lease
    /\ \A r \in Run \ {p} : run'[r] = run[r]

\* Times are numbers.
LEMMA Numbers ==
    ASSUME TypeOK
    PROVE  /\ clock \in Nat /\ MaxTime \in Nat /\ LeaseDuration \in Nat \ {0}
           /\ \A r \in Run : run[r].lease \in Nat
           /\ \A c \in Claim : claim[c].lease \in Nat
BY ConstantsAssumption DEF TypeOK, RunRecord, ClaimRecord

LEMMA ReleaseEffect ==
    ASSUME TypeOK, NEW R, claim' = Released(ClaimsOfRuns(R)), clock' = clock
    PROVE  Releases(R)
BY ReleasedRow DEF Releases, ClaimsOfRuns, OpenClaims

\* The task of an open claim is active, so its release requeues it.
LEMMA RequeueEffect ==
    ASSUME TypeOK, Safety, NEW R, NEW t \in Task
    PROVE  Requeued(ClaimsOfRuns(R))[t].status =
             IF Returns(t, R) THEN "pending" ELSE runtime[t].status
<1>1. CASE Returns(t, R)
  <2>1. PICK c \in OpenClaims : claim[c].task = t /\ claim[c].run \in R
    BY <1>1 DEF Returns
  <2>2. runtime[t].status \in ActiveStatus
    BY <2>1 DEF Safety, OpenClaimIsBacked, Backed
  <2>3. Requeued(ClaimsOfRuns(R))[t] = [runtime[t] EXCEPT !.status = "pending"]
    BY <2>1, <2>2 DEF Requeued, ClaimsOfRuns
  <2> QED
    BY <1>1, <2>3 DEF TypeOK, RuntimeRecord
<1>2. CASE ~ Returns(t, R)
  BY <1>2 DEF Requeued, ClaimsOfRuns, Returns
<1> QED
  BY <1>1, <1>2

\* _interrupt_run
LEMMA InterruptEffect ==
    ASSUME TypeOK, Safety, NEW R \in SUBSET Run, InterruptRuns(R), clock' = clock
    PROVE  Cancels(R)
<1>1. \A r \in Run :
        /\ run'[r].gen = run[r].gen /\ run'[r].lease = run[r].lease
        /\ run'[r].status = IF r \in R THEN "cancelled" ELSE run[r].status
  BY CancelledRow DEF InterruptRuns
<1>2. Releases(R)
  BY ReleaseEffect DEF InterruptRuns
<1>3. runtime' = Requeued(ClaimsOfRuns(R))
  BY DEF InterruptRuns
<1> QED
  BY <1>1, <1>2, <1>3, RequeueEffect DEF Cancels

\* acquire_execution_run
LEMMA AcquireEffect ==
    ASSUME TypeOK, Safety, NEW g \in Generation, NEW p \in Run, AcquireRun(g, p, clock)
    PROVE  /\ Begins(p, g, RunningOf(BorgOf[g]))
           /\ RunningOf(BorgOf[g]) \subseteq ExpiredRuns(clock)
<1> DEFINE R == RunningOf(BorgOf[g])
<1>0. R = R \cap ExpiredRuns(clock)
  BY DEF AcquireRun
<1>1. /\ run[p].status = "unused"
      /\ run' = [Cancelled(R) EXCEPT
                   ![p] = [status |-> "running", gen |-> g,
                           lease |-> clock + LeaseDuration]]
      /\ claim' = Released(ClaimsOfRuns(R)) /\ clock' = clock
      /\ runtime' = [t \in Task |->
                       IF t \in TasksOf(g) /\ runtime[t].status = "absent"
                       THEN NewRuntime ELSE Requeued(ClaimsOfRuns(R))[t]]
  BY <1>0 DEF AcquireRun
<1>2. Releases(R)
  BY <1>1, ReleaseEffect
<1>3. /\ run'[p].status = "running" /\ run'[p].gen = g
      /\ run'[p].lease = clock + LeaseDuration
      /\ \A r \in Run \ {p} : run'[r] = Cancelled(R)[r]
  BY <1>1 DEF Cancelled
<1>4. \A r \in Run \ {p} :
        /\ run'[r].gen = run[r].gen /\ run'[r].lease = run[r].lease
        /\ run'[r].status = IF r \in R THEN "cancelled" ELSE run[r].status
  BY <1>3, CancelledRow
<1>5. \A t \in Task :
        runtime'[t].status =
          IF Returns(t, R) \/ (runtime[t].status = "absent" /\ GenerationOf[t] = g)
          THEN "pending" ELSE runtime[t].status
  <2> TAKE t \in Task
  <2>1. CASE t \in TasksOf(g) /\ runtime[t].status = "absent"
    BY <1>1, <2>1 DEF NewRuntime, AbsentRuntime, TasksOf
  <2>2. CASE ~ (t \in TasksOf(g) /\ runtime[t].status = "absent")
    <3>1. runtime'[t] = Requeued(ClaimsOfRuns(R))[t]
      BY <1>1, <2>2
    <3> QED
      BY <3>1, <2>2, RequeueEffect DEF TasksOf
  <2> QED
    BY <2>1, <2>2
<1> HIDE DEF R
<1> QED
  BY <1>0, <1>1, <1>2, <1>3, <1>4, <1>5 DEF Begins, R

\* No claim of a live run has expired.
LEMMA NothingExpires ==
    ASSUME TypeOK, Leased, NEW p \in Run, NEW t \in 0..clock, LiveRun(p, t)
    PROVE  ExpiredClaims(p, t) = {}
BY Numbers DEF Leased, LiveRun, ExpiredClaims, ClaimsOfRuns, OpenClaims

\* Releasing no claims changes no row.
LEMMA ReleaseNothing ==
    ASSUME TypeOK
    PROVE  Released({}) = claim /\ Requeued({}) = runtime
BY DEF TypeOK, Released, Requeued

\* renew_execution_run
LEMMA RenewEffect ==
    ASSUME TypeOK, Leased, NEW p \in Run, NEW t \in 0..clock, RenewRun(p, t)
    PROVE  Renews(p, t)
<1>1. LiveRun(p, t) /\ clock' = clock
  BY DEF RenewRun
<1>2. ExpiredClaims(p, t) = {}
  BY <1>1, NothingExpires
<1>3. /\ run' = [run EXCEPT ![p].lease = t + LeaseDuration]
      /\ runtime' = Requeued({})
      /\ claim' = [c \in Claim |->
                     IF c \in ClaimsOfRuns({p})
                     THEN [claim[c] EXCEPT !.lease = t + LeaseDuration]
                     ELSE Released({})[c]]
  BY <1>2 DEF RenewRun
<1>4. \A r \in Run :
        /\ run'[r].gen = run[r].gen /\ run'[r].status = run[r].status
        /\ run'[r].lease = IF r = p THEN t + LeaseDuration ELSE run[r].lease
  BY <1>3 DEF TypeOK, RunRecord
<1>5. \A c \in Claim :
        /\ claim'[c].run = claim[c].run /\ claim'[c].task = claim[c].task
        /\ claim'[c].status = claim[c].status
        /\ claim'[c].lease = IF claim[c].status = "open" /\ claim[c].run = p
                             THEN t + LeaseDuration ELSE claim[c].lease
  BY <1>3, ReleaseNothing DEF TypeOK, ClaimRecord, ClaimsOfRuns, OpenClaims
<1> QED
  BY <1>1, <1>3, <1>4, <1>5, ReleaseNothing DEF Renews

\* claim_dependency_ready_task
LEMMA ClaimEffect ==
    ASSUME TypeOK, Leased, NEW p \in Run, NEW c \in Claim, ClaimTask(p, c, clock)
    PROVE  \E t \in Task : Takes(p, c, t)
<1>1. LiveRun(p, clock) /\ claim[c].status = "unused"
  BY DEF ClaimTask
<1>2. ExpiredClaims(p, clock) = {}
  BY <1>1, NothingExpires, Numbers
<1>3. PICK t \in First(Ready(p, {})) :
        /\ claim' = [Released({}) EXCEPT
                       ![c] = [status |-> "open", run |-> p, task |-> t,
                               lease |-> Smaller(clock + LeaseDuration, run[p].lease),
                               resume |-> runtime[t].resume]]
        /\ runtime' = [Requeued({}) EXCEPT
                         ![t] = [@ EXCEPT !.status = "claimed", !.lastRun = p]]
  BY <1>2 DEF ClaimTask
<1>4. t \in Task /\ GenerationOf[t] = run[p].gen /\ runtime[t].status = "pending"
  BY <1>3, ReleaseNothing DEF First, Ready, TasksOf
<1>5. Smaller(clock + LeaseDuration, run[p].lease) = run[p].lease
  BY <1>1, Numbers DEF Smaller, Leased, LiveRun
<1>6. /\ claim' = [claim EXCEPT
                     ![c] = [status |-> "open", run |-> p, task |-> t,
                             lease |-> run[p].lease, resume |-> runtime[t].resume]]
      /\ runtime' = [runtime EXCEPT
                       ![t] = [@ EXCEPT !.status = "claimed", !.lastRun = p]]
  BY <1>3, <1>5, ReleaseNothing
<1>7. claim \in [Claim -> ClaimRecord] /\ runtime \in [Task -> RuntimeRecord]
  BY DEF TypeOK
<1>8. runtime'[t].status = "claimed" /\ \A u \in Task \ {t} : runtime'[u] = runtime[u]
  BY <1>4, <1>6, <1>7 DEF RuntimeRecord
<1>9. /\ claim'[c].status = "open" /\ claim'[c].run = p /\ claim'[c].task = t
      /\ claim'[c].lease = run[p].lease
      /\ \A d \in Claim \ {c} : claim'[d] = claim[d]
  BY <1>6, <1>7
<1>10. clock' = clock /\ run' = run
  BY DEF ClaimTask
<1>11. Takes(p, c, t)
  BY <1>1, <1>4, <1>8, <1>9, <1>10 DEF Takes
<1> QED
  BY <1>4, <1>11

\* Where a task can move to: onwards, or to its end from everywhere but pending.
LEMMA SuccessorsAre ==
    /\ \A status \in TaskStatus \cup {"absent"} :
         Successors(status) \subseteq (ActiveStatus \cup TerminalStatus) \ {"claimed"}
    /\ \A status \in ActiveStatus : "failed" \in Successors(status)
<1>1. /\ Successors("claimed") = (ActiveStatus \cup TerminalStatus) \ {"claimed"}
      /\ Successors("environment") = {"coding"} \cup TerminalStatus
      /\ Successors("coding") = {"review"} \cup TerminalStatus
      /\ Successors("review") = {"fix", "merging"} \cup TerminalStatus
      /\ Successors("fix") = {"review"} \cup TerminalStatus
      /\ Successors("merging") = TerminalStatus
  BY DEF Successors
<1>2. /\ Successors("pending") = {} /\ Successors("absent") = {}
      /\ Successors("done") = {} /\ Successors("blocked") = {} /\ Successors("failed") = {}
  BY DEF Successors
<1>3. \A status \in TaskStatus \cup {"absent"} :
        Successors(status) \subseteq (ActiveStatus \cup TerminalStatus) \ {"claimed"}
  <2> TAKE status \in TaskStatus \cup {"absent"}
  <2>1. CASE status \in ActiveStatus
    BY <1>1, <2>1
  <2>2. CASE status \notin ActiveStatus
    BY <1>2, <2>2
  <2> QED
    BY <2>1, <2>2
<1>4. \A status \in ActiveStatus : "failed" \in Successors(status)
  BY <1>1
<1> QED
  BY <1>3, <1>4

\* transition_task_runtime
LEMMA MoveEffect ==
    ASSUME TypeOK, Safety, NEW p \in Run, NEW c \in Claim, NEW status, NEW new,
           NEW resume, NEW round,
           TransitionTask(p, c, status, new, resume, round, clock)
    PROVE  Moves(p, c, new) /\ runtime[claim[c].task].status = status
<1> DEFINE t == claim[c].task
<1>1. /\ LiveClaim(p, c, clock) /\ new \in Successors(status)
      /\ runtime[t].status = status
      /\ runtime' = [runtime EXCEPT ![t] = [@ EXCEPT !.status = new, !.resume = resume,
                                                     !.round = round]]
      /\ claim' = IF new \in TerminalStatus THEN Released({c}) ELSE claim
      /\ clock' = clock /\ run' = run
  BY DEF TransitionTask
<1>2. claim[c].status = "open" /\ claim[c].run = p
  BY <1>1 DEF LiveClaim
<1>3. t \in Task
  BY <1>2 DEF Safety, OpenClaimIsBacked, Backed, OpenClaims
<1>4. /\ runtime'[t].status = new
      /\ \A u \in Task \ {t} : runtime'[u] = runtime[u]
  BY <1>1, <1>3 DEF TypeOK, RuntimeRecord
<1>5. new \in (ActiveStatus \cup TerminalStatus) \ {"claimed"}
  <2>1. status \in TaskStatus \cup {"absent"}
    BY <1>1, <1>3 DEF TypeOK, RuntimeRecord
  <2> QED
    BY <1>1, <2>1, SuccessorsAre
<1>6. /\ claim'[c].run = p /\ claim'[c].task = t /\ claim'[c].lease = claim[c].lease
      /\ claim'[c].status = IF new \in TerminalStatus THEN "released" ELSE "open"
      /\ \A d \in Claim \ {c} : claim'[d] = claim[d]
  BY <1>1, <1>2, ReleasedRow
<1> QED
  BY <1>1, <1>4, <1>5, <1>6 DEF Moves

\* finish_execution_run
LEMMA FinishEffect ==
    ASSUME TypeOK, NEW p \in Run, NEW status \in {"completed", "failed"},
           FinishRun(p, status, clock)
    PROVE  Finishes(p, status)
<1>1. /\ LiveRun(p, clock) /\ run' = [run EXCEPT ![p].status = status]
      /\ clock' = clock /\ claim' = claim /\ runtime' = runtime
      /\ {runtime[t].status : t \in TasksOf(run[p].gen)} \cap ActiveStatus = {}
  BY DEF FinishRun
<1>2. \A t \in TasksOf(run[p].gen) : runtime[t].status \notin ActiveStatus
  BY <1>1
<1>3. /\ run'[p].status = status
      /\ run'[p].gen = run[p].gen /\ run'[p].lease = run[p].lease
      /\ \A r \in Run \ {p} : run'[r] = run[r]
  BY <1>1 DEF TypeOK, RunRecord
<1> QED
  BY <1>1, <1>2, <1>3 DEF Finishes

--------------------------------------------------------------------------------
(***************************************************************************)
(* The steps of the scheduler, by what they do to the tables.              *)
(***************************************************************************)
Turns(p) == FinishRead(p) \/ DisplayFails(p) \/ StoreFails(p)
Quiet(p) ==
    \/ SetupDone(p) \/ SetupFails(p) \/ Top(p) \/ SettleRead(p) \/ SettleDone(p)
    \/ FillLost(p) \/ Submit(p) \/ Register(p) \/ Drained(p) \/ LostCancel(p)
    \/ LostDrained(p) \/ ExecutorExit(p) \/ UserCancels(p) \/ KeyboardInterrupt(p)
    \/ Crash(p) \/ Turns(p)
QuietWorker(c) == WorkerCancels(c) \/ WorkerReturns(c) \/ WorkerStops(c) \/ WorkerRaises(c)
Sweeps(p) == Begin(p) \/ SetupSweep(p) \/ LastSweep(p) \/ SetupInterruptFails(p)
Renewals(p) == SetupRenew(p) \/ Renew(p) \/ DrainRenew(p)
Interrupts(p) == SetupInterrupt(p) \/ Interrupt(p)
Same == UNCHANGED <<clock, run, claim, runtime>>

LEMMA StepCases ==
    ASSUME SchedulerNext
    PROVE  \/ PassTime \/ Publish
           \/ \E p \in Process :
                \/ Quiet(p) \/ Sweeps(p) \/ Acquire(p) \/ Renewals(p) \/ Interrupts(p)
                \/ SettleWrite(p) \/ FillClaim(p) \/ FillDone(p) \/ Finish(p)
           \/ \E c \in Claim : WorkerTransition(c) \/ QuietWorker(c)
BY DEF SchedulerNext, Main, Breaks, WorkerStep, Quiet, Turns, QuietWorker, Sweeps,
       Renewals, Interrupts

LEMMA QuietIsSame ==
    /\ \A p \in Process : Quiet(p) => UNCHANGED vars
    /\ \A c \in Claim : QuietWorker(c) => UNCHANGED vars
BY DEF Quiet, SetupDone, SetupFails, Top, SettleRead, SettleDone, FillLost, Submit,
       Register, Drained, LostCancel, LostDrained, ExecutorExit, Turns, FinishRead,
       DisplayFails, StoreFails, UserCancels,
       KeyboardInterrupt, Crash, QuietWorker, WorkerCancels, WorkerReturns, WorkerStops,
       WorkerRaises, Ends

\* A round that claims nothing has nothing to reconcile either.
LEMMA FillDoneIsSame ==
    ASSUME IInv, NEW p \in Process, FillDone(p)
    PROVE  UNCHANGED vars
<1>1. CASE UNCHANGED vars
  BY <1>1
<1>2. CASE LiveRun(p, clock) /\ ClaimNothing(p, clock)
  <2>1. ExpiredClaims(p, clock) = {}
    BY <1>2, NothingExpires, Numbers DEF IInv, SchedulerTypeOK, Process
  <2> QED
    BY <1>2, <2>1 DEF ClaimNothing
<1> QED
  BY <1>1, <1>2 DEF FillDone

LEMMA SweepsOutcome ==
    ASSUME IInv, NEW p \in Process, Sweeps(p)
    PROVE  Same \/ Cancels(ExpiredRuns(clock))
<1>1. CASE UNCHANGED vars
  BY <1>1 DEF vars, Same
<1>2. CASE SweepExpiredRuns(clock)
  <2>1. ExpiredRuns(clock) \in SUBSET Run
    BY DEF ExpiredRuns
  <2> QED
    BY <1>2, <2>1, InterruptEffect DEF SweepExpiredRuns, IInv, SchedulerTypeOK
<1> QED
  BY <1>1, <1>2 DEF Sweeps, Begin, SetupSweep, LastSweep, SetupInterruptFails,
                    SweepOrNothing

LEMMA AcquireOutcome ==
    ASSUME IInv, NEW p \in Process, Acquire(p)
    PROVE  \/ Same /\ Goto(p, "sweep")
           \/ /\ Goto(p, "setupSweep")
              /\ \E g \in Generation : \E R \in SUBSET ExpiredRuns(clock) : Begins(p, g, R)
<1>1. PICK g \in Generation :
        \/ AcquireRun(g, p, clock) /\ Goto(p, "setupSweep")
        \/ Goto(p, "sweep") /\ UNCHANGED vars
  BY DEF Acquire
<1>2. CASE AcquireRun(g, p, clock) /\ Goto(p, "setupSweep")
  BY <1>2, AcquireEffect DEF IInv, SchedulerTypeOK, Process
<1>3. CASE Goto(p, "sweep") /\ UNCHANGED vars
  BY <1>3 DEF Same, vars
<1> QED
  BY <1>1, <1>2, <1>3

\* A renewal gives the run the lease of its reading, or finds the run over.
LEMMA RenewalsOutcome ==
    ASSUME IInv, NEW p \in Process, Renewals(p)
    PROVE  \/ \E t \in 0..clock :
                /\ Renews(p, t) /\ (pc[p] = "renew" => t = now[p])
                /\ pc' = pc \/ (pc[p] = "renew" /\ Goto(p, "settle"))
           \/ /\ \/ Same /\ run[p].status # "running"
                 \/ /\ Cancels({p})
                    /\ run[p].status = "running" /\ run[p].lease <= clock
              /\ Goto(p, IF pc[p] \in SettingUp THEN "setupFailed"
                         ELSE IF pc[p] = "handlerDrain" THEN "exit" ELSE "lost")
<1>1. /\ beat[p] <= clock => beat[p] \in 0..clock
      /\ now[p] \in 0..clock /\ clock \in 0..clock
  BY Numbers DEF IInv, SchedulerTypeOK, Placed, Process, Renewals, SetupRenew, DrainRenew
<1>2. \A t \in 0..clock : RenewRun(p, t) => Renews(p, t)
  BY RenewEffect DEF IInv, SchedulerTypeOK, Process
<1>3. \A t \in 0..clock : RenewExpired(p, t) =>
        Cancels({p}) /\ run[p].status = "running" /\ run[p].lease <= clock
  <2> SUFFICES ASSUME NEW t \in 0..clock, RenewExpired(p, t)
               PROVE  Cancels({p}) /\ run[p].status = "running" /\ run[p].lease <= clock
    OBVIOUS
  <2>1. InterruptRuns({p}) /\ clock' = clock /\ {p} \in SUBSET Run
    BY DEF RenewExpired, Process
  <2>2. run[p].status = "running" /\ run[p].lease <= t
    BY DEF RenewExpired
  <2>3. run[p].lease <= clock
    BY <2>2, Numbers DEF IInv, SchedulerTypeOK, Process
  <2> QED
    BY <2>1, <2>2, <2>3, InterruptEffect DEF IInv, SchedulerTypeOK
<1>4. CASE SetupRenew(p)
  <2>1. /\ pc[p] # "renew" /\ pc[p] # "handlerDrain" /\ pc[p] \in SettingUp
        /\ beat[p] <= clock
    BY <1>4 DEF SetupRenew, SettingUp
  <2>2. CASE RenewRun(p, beat[p]) /\ UNCHANGED pc
    BY <1>1, <1>2, <2>1, <2>2
  <2>3. CASE RenewExpired(p, beat[p]) /\ Goto(p, "setupFailed")
    BY <1>1, <1>3, <2>1, <2>3
  <2>4. CASE run[p].status # "running" /\ Goto(p, "setupFailed") /\ UNCHANGED vars
    BY <2>1, <2>4 DEF Same, vars
  <2> QED
    BY <1>4, <2>2, <2>3, <2>4 DEF SetupRenew
<1>5. CASE Renew(p)
  <2>1. pc[p] = "renew" /\ pc[p] \notin SettingUp
    BY <1>5 DEF Renew, SettingUp
  <2>2. CASE RenewRun(p, now[p]) /\ Goto(p, "settle")
    BY <1>1, <1>2, <2>1, <2>2
  <2>3. CASE RenewExpired(p, now[p]) /\ Goto(p, "lost")
    BY <1>1, <1>3, <2>1, <2>3
  <2>4. CASE run[p].status # "running" /\ Goto(p, "lost") /\ UNCHANGED vars
    BY <2>1, <2>4 DEF Same, vars
  <2> QED
    BY <1>5, <2>2, <2>3, <2>4 DEF Renew
<1>6. CASE DrainRenew(p)
  <2>1. /\ pc[p] # "renew" /\ pc[p] \notin SettingUp
        /\ pc[p] \in {"drain", "handlerDrain"}
    BY <1>6 DEF DrainRenew, Draining, SettingUp
  <2>2. CASE RenewRun(p, clock) /\ UNCHANGED pc
    BY <1>1, <1>2, <2>1, <2>2
  <2>3. CASE RenewExpired(p, clock) /\ Goto(p, IF pc[p] = "drain" THEN "lost" ELSE "exit")
    <3>1. Cancels({p}) /\ run[p].status = "running" /\ run[p].lease <= clock
      BY <1>1, <1>3, <2>3
    <3> QED
      BY <2>1, <2>3, <3>1
  <2>4. CASE /\ run[p].status # "running" /\ UNCHANGED vars
             /\ Goto(p, IF pc[p] = "drain" THEN "lost" ELSE "exit")
    BY <2>1, <2>4 DEF Same, vars
  <2> QED
    BY <1>6, <2>2, <2>3, <2>4 DEF DrainRenew
<1> QED
  BY <1>4, <1>5, <1>6 DEF Renewals

LEMMA InterruptsOutcome ==
    ASSUME IInv, NEW p \in Process, Interrupts(p)
    PROVE  /\ pc[p] \in {"setupFailed", "interrupt"} /\ Goto(p, "sweep")
           /\ \/ Same /\ run[p].status # "running"
              \/ Cancels({p}) /\ run[p].status = "running"
<1>1. pc[p] \in {"setupFailed", "interrupt"} /\ Goto(p, "sweep") /\ InterruptOrNothing(p)
  BY DEF Interrupts, SetupInterrupt, Interrupt
<1>2. CASE InterruptRun(p)
  <2>1. InterruptRuns({p}) /\ clock' = clock /\ {p} \in SUBSET Run
    BY <1>2 DEF InterruptRun, Process
  <2>2. Cancels({p})
    BY <2>1, InterruptEffect DEF IInv, SchedulerTypeOK
  <2> QED
    BY <1>1, <1>2, <2>2 DEF InterruptRun
<1>3. CASE run[p].status # "running" /\ UNCHANGED vars
  BY <1>1, <1>3 DEF Same, vars
<1> QED
  BY <1>1, <1>2, <1>3 DEF InterruptOrNothing

LEMMA SettleWriteOutcome ==
    ASSUME IInv, NEW p \in Process, SettleWrite(p)
    PROVE  /\ pc[p] = "settleWrite" /\ held[p] \in ClaimsOf(p)
           /\ \/ Moves(p, held[p], "failed") /\ Goto(p, "settle")
              \/ Same /\ Goto(p, "settle") /\ ~ LiveClaim(p, held[p], clock)
              \/ Same /\ Goto(p, "raised") /\ run[p].status # "running"
<1> DEFINE c == held[p]
<1>1. pc[p] = "settleWrite" /\ c \in ClaimsOf(p)
  BY DEF SettleWrite, IInv, Placed
<1>2. CASE /\ TransitionTask(p, c, expected[p], "failed", "failed",
                             runtime[claim[c].task].round, clock)
           /\ Goto(p, "settle")
  BY <1>1, <1>2, MoveEffect DEF IInv, SchedulerTypeOK, Process, ClaimsOf
<1>3. CASE ~ LiveClaim(p, c, clock) /\ Goto(p, "settle") /\ UNCHANGED vars
  BY <1>1, <1>3 DEF Same, vars
<1>4. CASE /\ \/ "failed" \notin Successors(expected[p])
              \/ runtime[claim[c].task].status # expected[p]
           /\ Goto(p, "raised") /\ UNCHANGED vars
  <2>1. ASSUME run[p].status = "running"  PROVE FALSE
    <3>1. claim[c].status = "open" /\ runtime[claim[c].task].status = expected[p]
      BY <1>1, <2>1 DEF IInv, Settling
    <3>2. expected[p] \in ActiveStatus
      BY <1>1, <3>1 DEF IInv, Safety, OpenClaimIsBacked, Backed, OpenClaims, ClaimsOf
    <3> QED
      BY <1>4, <3>1, <3>2, SuccessorsAre
  <2> QED
    BY <1>1, <1>4, <2>1 DEF Same, vars
<1> QED
  BY <1>1, <1>2, <1>3, <1>4 DEF SettleWrite

LEMMA FillClaimOutcome ==
    ASSUME IInv, NEW p \in Process, FillClaim(p)
    PROVE  /\ pc[p] = "fill" /\ Goto(p, "submit")
           /\ \E c \in Claim, t \in Task : Takes(p, c, t) /\ held' = [held EXCEPT ![p] = c]
BY ClaimEffect DEF FillClaim, IInv, SchedulerTypeOK, Process

LEMMA FinishOutcome ==
    ASSUME IInv, NEW p \in Process, Finish(p)
    PROVE  /\ pc[p] \in Finished
           /\ \/ Goto(p, "sweep") /\ \E status \in {"completed", "failed"} : Finishes(p, status)
              \/ Same /\ Goto(p, "lost")
<1>1. CASE Goto(p, "sweep") /\ FinishRun(p, Verdict(p), clock)
  BY <1>1, FinishEffect DEF Finish, Verdict, IInv, SchedulerTypeOK, Process
<1>2. CASE Goto(p, "lost") /\ UNCHANGED vars
  BY <1>2 DEF Finish, Same, vars
<1>3. CASE pc[p] \in Finished /\ LiveRun(p, clock)
           /\ \E t \in TasksOf(run[p].gen) : runtime[t].status \in ActiveStatus
  <2>1. PICK t \in Task : GenerationOf[t] = run[p].gen /\ runtime[t].status \in ActiveStatus
    BY <1>3 DEF TasksOf
  <2>2. PICK c \in OpenClaims : claim[c].task = t
    BY <2>1 DEF IInv, Safety, ActiveTaskIsClaimed
  <2>3. /\ claim[c].run \in Run /\ run[claim[c].run].status = "running"
        /\ run[claim[c].run].gen = run[p].gen
    BY <2>1, <2>2 DEF IInv, Safety, OpenClaimIsBacked, Backed
  <2>4. claim[c].run = p
    BY <1>3, <2>3 DEF IInv, Safety, OneRunPerBorg, LiveRun, Process
  <2>5. ~ Followed(c)
    <3>1. active[p] = {}
      BY <1>3 DEF IInv, Finishing, Final
    <3>2. ~ Overdue(p)
      BY <1>3, Numbers DEF LiveRun, Overdue, IInv, SchedulerTypeOK, Process
    <3> QED
      BY <1>3, <2>4, <3>1, <3>2 DEF Followed, Ending, Draining
  <2> QED
    BY <2>2, <2>5 DEF IInv, Accounted
<1>4. CASE pc[p] \in Finished /\ LiveRun(p, clock)
           /\ (pc[p] = "complete") # AllDone(run[p].gen)
  BY <1>4 DEF IInv, Finishing, Final
<1> QED
  BY <1>1, <1>2, <1>3, <1>4 DEF Finish

LEMMA WorkerTransitionOutcome ==
    ASSUME IInv, NEW c \in Claim, WorkerTransition(c)
    PROVE  /\ worker[c] = "running" /\ UNCHANGED threadVars
           /\ Owner(c) \in Process /\ \E new \in TaskStatus : Moves(Owner(c), c, new)
<1>1. PICK new \in Explored :
        TransitionTask(Owner(c), c, runtime[claim[c].task].status, new, new,
                       runtime[claim[c].task].round, clock)
  BY DEF WorkerTransition
<1>2. worker[c] = "running" /\ UNCHANGED threadVars
  BY DEF WorkerTransition
<1>3. Owner(c) \in Run
  BY <1>2 DEF IInv, Threaded, Safety, RowsAreLinked, LinkedClaim, Owner
<1>4. Moves(Owner(c), c, new) /\ new \in TaskStatus
  BY <1>1, <1>3, MoveEffect, ConstantsAssumption DEF IInv, SchedulerTypeOK
<1> QED
  BY <1>2, <1>3, <1>4 DEF Process
--------------------------------------------------------------------------------
(***************************************************************************)
(* The invariant: one lemma per part.                                      *)
(***************************************************************************)
\* A step of the store's own at the present time.
LEMMA StoreAtClock ==
    ASSUME IInv,
           \/ Tick \/ (\E g \in Generation : Promote(g)) \/ UNCHANGED vars
           \/ RunOperation(clock) \/ SweepExpiredRuns(clock)
           \/ \E p \in Run, c \in Claim : ClaimTask(p, c, clock)
    PROVE  TypeOK' /\ Safety'
<1>1. clock \in Readings
  BY ConstantsAssumption DEF Readings, IInv, SchedulerTypeOK, TypeOK
<1>2. [Next]_vars
  BY <1>1 DEF Next, ClaimOperation
<1> QED
  BY <1>2, NextType, NextSafe DEF IInv, SchedulerTypeOK

LEMMA StoreStep ==
    ASSUME IInv, SchedulerNext
    PROVE  TypeOK' /\ Safety'
<1>0. TypeOK /\ Safety
  BY DEF IInv, SchedulerTypeOK
<1>1. CASE UNCHANGED vars \/ PassTime \/ Publish
  BY <1>1, StoreAtClock DEF PassTime, Publish
<1>2. ASSUME NEW p \in Process, Sweeps(p)  PROVE TypeOK' /\ Safety'
  BY <1>2, StoreAtClock DEF Sweeps, Begin, SetupSweep, LastSweep, SetupInterruptFails,
                            SweepOrNothing
<1>3. ASSUME NEW p \in Process, Acquire(p)  PROVE TypeOK' /\ Safety'
  BY <1>3, StoreAtClock DEF Acquire, RunOperation, Process
<1>4. ASSUME NEW p \in Process, NEW t \in 0..clock, RenewRun(p, t)
      PROVE  TypeOK' /\ Safety'
  BY <1>0, <1>4, RenewRunType, RenewRunSafe DEF Process
<1>5. ASSUME NEW p \in Process, RenewExpired(p, clock) \/ InterruptRun(p)
             \/ \E t \in 0..clock : RenewExpired(p, t)
      PROVE  TypeOK' /\ Safety'
  <2>1. /\ InterruptRuns({p}) /\ UNCHANGED <<clock, generation>>
        /\ run[p].status = "running" /\ {p} \in SUBSET Run
    BY <1>5 DEF RenewExpired, InterruptRun, Process
  <2> QED
    BY <1>0, <2>1, InterruptRunsType, InterruptRunsSafe
<1>6. ASSUME NEW p \in Process, Renewals(p)  PROVE TypeOK' /\ Safety'
  <2>1. /\ beat[p] <= clock => beat[p] \in 0..clock
        /\ now[p] \in 0..clock /\ clock \in 0..clock
    BY Numbers DEF IInv, SchedulerTypeOK, Placed, Process
  <2> QED
    BY <1>1, <1>4, <1>5, <1>6, <2>1 DEF Renewals, SetupRenew, Renew, DrainRenew, vars
<1>7. ASSUME NEW p \in Process, Interrupts(p)  PROVE TypeOK' /\ Safety'
  BY <1>1, <1>5, <1>7 DEF Interrupts, SetupInterrupt, Interrupt, InterruptOrNothing
<1>8. ASSUME NEW p \in Process, NEW c \in Claim, NEW status, NEW new \in TaskStatus,
             claim[c].status # "unused",
             TransitionTask(p, c, status, new, new,
                            runtime[claim[c].task].round, clock)
      PROVE  TypeOK' /\ Safety'
  <2>1. runtime[claim[c].task].round \in 0..MaxReviewRound
    BY <1>0, <1>8 DEF TypeOK, RuntimeRecord, Safety, RowsAreLinked, LinkedClaim
  <2>2. clock \in Readings
    BY <1>0, ConstantsAssumption DEF Readings, TypeOK
  <2> QED
    BY <1>0, <1>8, <2>1, <2>2, TransitionTaskType, TransitionTaskSafe DEF Process
<1>9. ASSUME NEW p \in Process, SettleWrite(p)  PROVE TypeOK' /\ Safety'
  <2>1. held[p] \in Claim /\ claim[held[p]].status # "unused"
    BY <1>9 DEF SettleWrite, IInv, Placed, ClaimsOf
  <2> QED
    BY <1>1, <1>8, <1>9, <2>1 DEF SettleWrite
<1>10. ASSUME NEW p \in Process, FillClaim(p)  PROVE TypeOK' /\ Safety'
  BY <1>10, StoreAtClock DEF FillClaim, Process
<1>11. ASSUME NEW p \in Process, Finish(p)  PROVE TypeOK' /\ Safety'
  BY <1>1, <1>11, StoreAtClock DEF Finish, Verdict, RunOperation, Process
<1>12. ASSUME NEW c \in Claim, WorkerTransition(c)  PROVE TypeOK' /\ Safety'
  <2>1. Owner(c) \in Process /\ claim[c].status # "unused"
    BY <1>12 DEF WorkerTransition, IInv, Threaded, Safety, RowsAreLinked, LinkedClaim,
                 Owner, Process
  <2> QED
    BY <1>8, <1>12, <2>1, ConstantsAssumption DEF WorkerTransition
<1> QED
  BY StepCases, QuietIsSame, FillDoneIsSame,
     <1>1, <1>2, <1>3, <1>6, <1>7, <1>9, <1>10, <1>11, <1>12

\* The variables of the threads.
LEMMA TypesStep ==
    ASSUME IInv, SchedulerNext
    PROVE  SchedulerTypeOK'
<1> USE DEF Process, SettingUp, Loop, Ending, Draining, WorkerEnd, Goto
<1>1. TypeOK'
  BY StoreStep
<1>2. SchedulerTypeOK /\ clock \in Nat /\ MaxTime \in Nat /\ clock <= MaxTime
      /\ HeartbeatInterval \in Nat
  BY Numbers, SchedulerAssumption DEF IInv, SchedulerTypeOK, TypeOK
<1> HIDE DEF IInv
<1>3. CASE PassTime \/ Publish \/ \E c \in Claim : WorkerTransition(c)
  BY <1>1, <1>2, <1>3 DEF PassTime, Publish, WorkerTransition, SchedulerTypeOK, threadVars
<1>4. ASSUME NEW c \in Claim, QuietWorker(c)  PROVE SchedulerTypeOK'
  BY <1>1, <1>2, <1>4
     DEF QuietWorker, WorkerCancels, WorkerReturns, WorkerStops, WorkerRaises, Ends,
         SchedulerTypeOK
<1>5. ASSUME NEW p \in Process,
             \/ SetupDone(p) \/ SetupFails(p) \/ SettleDone(p) \/ FillLost(p)
             \/ LostDrained(p) \/ ExecutorExit(p) \/ Turns(p)
      PROVE  SchedulerTypeOK'
  BY <1>1, <1>2, <1>5
     DEF SetupDone, SetupFails, SettleDone, FillLost, LostDrained, ExecutorExit, Turns,
         FinishRead, DisplayFails, StoreFails,
         SchedulerTypeOK
<1>6. ASSUME NEW p \in Process,
             Drained(p) \/ LostCancel(p) \/ UserCancels(p) \/ KeyboardInterrupt(p)
      PROVE  SchedulerTypeOK'
  BY <1>1, <1>2, <1>6
     DEF Drained, LostCancel, UserCancels, KeyboardInterrupt, SchedulerTypeOK
<1>7. ASSUME NEW p \in Process, Top(p)  PROVE SchedulerTypeOK'
  BY <1>1, <1>2, <1>7 DEF Top, SchedulerTypeOK
<1>8. ASSUME NEW p \in Process, Submit(p) \/ Register(p)  PROVE SchedulerTypeOK'
  <2>1. held[p] \in Claim
    BY <1>8 DEF Submit, Register, IInv, Placed, ClaimsOf
  <2> QED
    BY <1>1, <1>2, <1>8, <2>1 DEF Submit, Register, SchedulerTypeOK
<1>9. ASSUME NEW p \in Process, Crash(p)  PROVE SchedulerTypeOK'
  BY <1>1, <1>2, <1>9 DEF Crash, SchedulerTypeOK
<1>10. ASSUME NEW p \in Process, SettleRead(p)  PROVE SchedulerTypeOK'
  <2>1. PICK c \in unvisited[p] :
          /\ unvisited' = [unvisited EXCEPT ![p] = @ \ {c}]
          /\ active' = active
             \/ active' = [active EXCEPT ![p] = @ \ {c}]
          /\ \/ UNCHANGED <<pc, held, expected>>
             \/ /\ Goto(p, "settleWrite")
                /\ held' = [held EXCEPT ![p] = c]
                /\ expected' = [expected EXCEPT ![p] = runtime[claim[c].task].status]
    BY <1>2, <1>10 DEF SettleRead, SchedulerTypeOK
  <2>2. c \in Claim /\ claim[c].status # "unused"
    BY <2>1 DEF IInv, Placed, ClaimsOf
  <2>3. runtime[claim[c].task].status \in TaskStatus
    BY <1>2, <2>2 DEF IInv, Closed, Safety, RowsAreLinked, LinkedClaim, SchedulerTypeOK,
                      TypeOK, RuntimeRecord
  <2>4. UNCHANGED <<vars, now, beat, token, worker>>
    BY <1>10 DEF SettleRead
  <2> QED
    BY <1>1, <1>2, <2>1, <2>2, <2>3, <2>4 DEF SchedulerTypeOK
<1>11. ASSUME NEW p \in Process,
              \/ Sweeps(p) \/ Acquire(p) \/ Interrupts(p) \/ SettleWrite(p) \/ FillClaim(p)
              \/ FillDone(p) \/ Finish(p)
       PROVE  SchedulerTypeOK'
  BY <1>1, <1>2, <1>11
     DEF Sweeps, Begin, SetupSweep, LastSweep, SetupInterruptFails, Acquire, Interrupts,
         SetupInterrupt,
         Interrupt, SettleWrite, FillClaim, FillDone, Finish, SchedulerTypeOK
<1>12. ASSUME NEW p \in Process, SetupRenew(p)  PROVE SchedulerTypeOK'
  <2>1. beat[p] <= clock => beat[p] + HeartbeatInterval \in 0..(MaxTime + HeartbeatInterval)
    BY <1>2 DEF SchedulerTypeOK
  <2> QED
    BY <1>1, <1>2, <1>12, <2>1 DEF SetupRenew, SchedulerTypeOK
<1>13. ASSUME NEW p \in Process, Renew(p)  PROVE SchedulerTypeOK'
  <2>1. now[p] + HeartbeatInterval \in 0..(MaxTime + HeartbeatInterval)
    BY <1>2 DEF SchedulerTypeOK
  <2> QED
    BY <1>1, <1>2, <1>13, <2>1 DEF Renew, SchedulerTypeOK
<1>14. ASSUME NEW p \in Process, DrainRenew(p)  PROVE SchedulerTypeOK'
  <2>1. clock + HeartbeatInterval \in 0..(MaxTime + HeartbeatInterval)
    BY <1>2
  <2> QED
    BY <1>1, <1>2, <1>14, <2>1 DEF DrainRenew, SchedulerTypeOK
<1> QED
  BY StepCases, <1>3, <1>4, <1>5, <1>6, <1>7, <1>8, <1>9, <1>10, <1>11, <1>12, <1>13,
     <1>14 DEF Quiet, Renewals
\* Times, rows and foreign keys only move forward.
LEMMA Forward ==
    ASSUME IInv, SchedulerNext
    PROVE  /\ clock' = clock \/ (clock' = clock + 1 /\ UNCHANGED threadVars)
           /\ \A c \in Claim :
                claim[c].status # "unused" =>
                  /\ claim'[c].status # "unused"
                  /\ claim'[c].run = claim[c].run /\ claim'[c].task = claim[c].task
           /\ \A r \in Run : /\ run[r].status # "unused" => run'[r].status # "unused"
                             /\ run[r].status = "cancelled" => run'[r].status = "cancelled"
                             /\ run[r].status # "unused" => run'[r].gen = run[r].gen
<1> DEFINE Ahead ==
             /\ \A c \in Claim :
                  claim[c].status # "unused" =>
                    /\ claim'[c].status # "unused"
                    /\ claim'[c].run = claim[c].run /\ claim'[c].task = claim[c].task
             /\ \A r \in Run :
                  /\ run[r].status # "unused" => run'[r].status # "unused"
                  /\ run[r].status = "cancelled" => run'[r].status = "cancelled"
                  /\ run[r].status # "unused" => run'[r].gen = run[r].gen
<1>1. CASE PassTime \/ Publish
  BY <1>1 DEF PassTime, Publish, Tick, Promote
<1>2. ASSUME Same \/ UNCHANGED vars  PROVE clock' = clock /\ Ahead
  BY <1>2 DEF Same, vars
<1>3. ASSUME NEW R \in SUBSET Run, Cancels(R)  PROVE clock' = clock /\ Ahead
  BY <1>3 DEF Cancels, Releases
<1>4. ASSUME NEW p \in Process, NEW g \in Generation, NEW R, Begins(p, g, R)
      PROVE  clock' = clock /\ Ahead
  BY <1>4 DEF Begins, Releases
<1>5. ASSUME NEW p \in Process, NEW t, Renews(p, t)  PROVE clock' = clock /\ Ahead
  BY <1>5 DEF Renews
<1>6. ASSUME NEW p \in Process, NEW c \in Claim, NEW t \in Task, Takes(p, c, t)
      PROVE  clock' = clock /\ Ahead
  BY <1>6 DEF Takes
<1>7. ASSUME NEW p \in Process, NEW c \in Claim, NEW new, Moves(p, c, new)
      PROVE  clock' = clock /\ Ahead
  BY <1>7 DEF Moves, LiveClaim
<1>8. ASSUME NEW p \in Process, NEW status, Finishes(p, status)
      PROVE  clock' = clock /\ Ahead
  BY <1>8 DEF Finishes, LiveRun
<1>9. ASSUME NEW p \in Process, Quiet(p) \/ FillDone(p)  PROVE clock' = clock /\ Ahead
  BY <1>2, <1>9, QuietIsSame, FillDoneIsSame
<1>10. ASSUME NEW c \in Claim, QuietWorker(c)  PROVE clock' = clock /\ Ahead
  BY <1>2, <1>10, QuietIsSame
<1>11. ASSUME NEW p \in Process, Sweeps(p)  PROVE clock' = clock /\ Ahead
  <2>1. ExpiredRuns(clock) \in SUBSET Run
    BY DEF ExpiredRuns
  <2> QED
    BY <1>2, <1>3, <1>11, <2>1, SweepsOutcome
<1>12. ASSUME NEW p \in Process, Acquire(p)  PROVE clock' = clock /\ Ahead
  BY <1>2, <1>4, <1>12, AcquireOutcome
<1>13. ASSUME NEW p \in Process, Renewals(p)  PROVE clock' = clock /\ Ahead
  <2>1. {p} \in SUBSET Run
    BY DEF Process
  <2> QED
    BY <1>2, <1>3, <1>5, <1>13, <2>1, RenewalsOutcome
<1>14. ASSUME NEW p \in Process, Interrupts(p)  PROVE clock' = clock /\ Ahead
  <2>1. {p} \in SUBSET Run
    BY DEF Process
  <2> QED
    BY <1>2, <1>3, <1>14, <2>1, InterruptsOutcome
<1>15. ASSUME NEW p \in Process, SettleWrite(p)  PROVE clock' = clock /\ Ahead
  <2>1. held[p] \in Claim
    BY <1>15, SettleWriteOutcome DEF ClaimsOf
  <2> QED
    BY <1>2, <1>7, <1>15, <2>1, SettleWriteOutcome
<1>16. ASSUME NEW p \in Process, FillClaim(p)  PROVE clock' = clock /\ Ahead
  BY <1>6, <1>16, FillClaimOutcome
<1>17. ASSUME NEW p \in Process, Finish(p)  PROVE clock' = clock /\ Ahead
  BY <1>2, <1>8, <1>17, FinishOutcome
<1>18. ASSUME NEW c \in Claim, WorkerTransition(c)  PROVE clock' = clock /\ Ahead
  BY <1>7, <1>18, WorkerTransitionOutcome
<1> QED
  <2> HIDE DEF Ahead
  <2>1. CASE PassTime \/ Publish
    BY <1>1, <2>1
  <2>2. CASE ~ (PassTime \/ Publish)
    <3>1. clock' = clock /\ Ahead
      BY <2>2, StepCases, <1>9, <1>10, <1>11, <1>12, <1>13, <1>14, <1>15, <1>16, <1>17,
         <1>18
    <3> QED
      BY <3>1 DEF Ahead
  <2> QED
    BY <2>1, <2>2
\* A run's status and a process's set of claims change only as follows.
LEMMA StatusesStep ==
    ASSUME IInv, SchedulerNext, NEW q \in Process
    PROVE  /\ \/ run'[q].status = run[q].status
              \/ run[q].status = "running" /\ run'[q].status = "cancelled"
              \/ run[q].status = "unused" /\ Acquire(q) /\ Goto(q, "setupSweep")
                   /\ run'[q].status = "running"
              \/ Finish(q) /\ Goto(q, "sweep")
           /\ ClaimsOf(q)' = ClaimsOf(q) \/ FillClaim(q)
<1> DEFINE Kept == ClaimsOf(q)' = ClaimsOf(q)
           Still == run'[q].status = run[q].status
           Killed == run[q].status = "running" /\ run'[q].status = "cancelled"
<1> USE DEF Process
<1>1. CASE PassTime \/ Publish
  BY <1>1 DEF PassTime, Publish, Tick, Promote, ClaimsOf
<1>2. ASSUME Same \/ UNCHANGED vars  PROVE Still /\ Kept
  BY <1>2 DEF Same, vars, ClaimsOf
<1>3. ASSUME NEW R \in SUBSET Run, Cancels(R), \A r \in R : run[r].status = "running"
      PROVE  (Still \/ Killed) /\ Kept
  BY <1>3 DEF Cancels, Releases, ClaimsOf
<1>4. ASSUME NEW p \in Process, NEW t, Renews(p, t)  PROVE Still /\ Kept
  BY <1>4 DEF Renews, ClaimsOf
<1>5. ASSUME NEW p \in Process, NEW c \in Claim, NEW new, Moves(p, c, new)
      PROVE  Still /\ Kept
  BY <1>5 DEF Moves, LiveClaim, ClaimsOf
<1>6. \A r \in ExpiredRuns(clock) : r \in Run /\ run[r].status = "running"
  BY DEF ExpiredRuns
<1>7. ASSUME NEW p \in Process, Quiet(p) \/ FillDone(p)  PROVE Still /\ Kept
  BY <1>2, <1>7, QuietIsSame, FillDoneIsSame
<1>8. ASSUME NEW c \in Claim, QuietWorker(c)  PROVE Still /\ Kept
  BY <1>2, <1>8, QuietIsSame
<1>9. ASSUME NEW p \in Process, Sweeps(p)  PROVE (Still \/ Killed) /\ Kept
  BY <1>2, <1>3, <1>6, <1>9, SweepsOutcome
<1>10. ASSUME NEW p \in Process, Acquire(p)
       PROVE  /\ \/ Still \/ Killed
                 \/ /\ run[q].status = "unused" /\ Acquire(q) /\ Goto(q, "setupSweep")
                    /\ run'[q].status = "running"
              /\ Kept
  <2>1. CASE Same
    BY <1>2, <2>1
  <2>2. ASSUME Goto(p, "setupSweep"), NEW g \in Generation,
               NEW R \in SUBSET ExpiredRuns(clock), Begins(p, g, R)
        PROVE  /\ \/ Still \/ Killed
                  \/ /\ run[q].status = "unused" /\ Acquire(q) /\ Goto(q, "setupSweep")
                     /\ run'[q].status = "running"
               /\ Kept
    BY <1>6, <1>10, <2>2 DEF Begins, Releases, ClaimsOf
  <2> QED
    BY <1>10, <2>1, <2>2, AcquireOutcome
<1>11. ASSUME NEW p \in Process, Renewals(p)  PROVE (Still \/ Killed) /\ Kept
  BY <1>2, <1>3, <1>4, <1>11, RenewalsOutcome
<1>12. ASSUME NEW p \in Process, Interrupts(p)  PROVE (Still \/ Killed) /\ Kept
  BY <1>2, <1>3, <1>12, InterruptsOutcome
<1>13. ASSUME NEW p \in Process, SettleWrite(p)  PROVE Still /\ Kept
  <2>1. held[p] \in Claim
    BY <1>13, SettleWriteOutcome DEF ClaimsOf
  <2> QED
    BY <1>2, <1>5, <1>13, <2>1, SettleWriteOutcome
<1>14. ASSUME NEW p \in Process, FillClaim(p)  PROVE Still /\ (Kept \/ FillClaim(q))
  <2>1. PICK c \in Claim, t \in Task : Takes(p, c, t)
    BY <1>14, FillClaimOutcome
  <2> QED
    BY <1>14, <2>1 DEF Takes, ClaimsOf
<1>15. ASSUME NEW p \in Process, Finish(p)
       PROVE  (Still \/ (Finish(q) /\ Goto(q, "sweep"))) /\ Kept
  <2>1. CASE Same
    BY <1>2, <2>1
  <2>2. ASSUME Goto(p, "sweep"), NEW status, Finishes(p, status)
        PROVE  (Still \/ (Finish(q) /\ Goto(q, "sweep"))) /\ Kept
    BY <1>15, <2>2 DEF Finishes, ClaimsOf
  <2> QED
    BY <1>15, <2>1, <2>2, FinishOutcome
<1>16. ASSUME NEW c \in Claim, WorkerTransition(c)  PROVE Still /\ Kept
  BY <1>5, <1>16, WorkerTransitionOutcome
<1> QED
  BY StepCases, <1>1, <1>7, <1>8, <1>9, <1>10, <1>11, <1>12, <1>13, <1>14, <1>15, <1>16
\* A process's own variables are changed by its own main thread only, but for the
\* token, which its workers set too.
Untouched(q) ==
    /\ pc'[q] = pc[q] /\ now'[q] = now[q] /\ active'[q] = active[q]
    /\ unvisited'[q] = unvisited[q] /\ held'[q] = held[q] /\ expected'[q] = expected[q]
Touches(q) ==
    \/ Quiet(q) \/ Sweeps(q) \/ Acquire(q) \/ Renewals(q) \/ Interrupts(q)
    \/ SettleWrite(q) \/ FillClaim(q) \/ FillDone(q) \/ Finish(q)

LEMMA OwnStep ==
    ASSUME IInv, SchedulerNext, NEW q \in Process
    PROVE  /\ Untouched(q) \/ Touches(q)
           /\ token[q] => token'[q]
<1> USE DEF Process, Goto
<1>0. /\ pc \in [Process -> SettingUp \cup Loop \cup Ending \cup Over
                            \cup {"idle", "acquire"}]
      /\ token \in [Process -> BOOLEAN] /\ now \in [Process -> 0..MaxTime]
      /\ active \in [Process -> SUBSET Claim] /\ unvisited \in [Process -> SUBSET Claim]
      /\ held \in [Process -> Claim \cup {NoRow}] /\ expected \in [Process -> TaskStatus]
  BY DEF IInv, SchedulerTypeOK
<1> HIDE DEF IInv
<1>1. CASE PassTime \/ Publish \/ \E c \in Claim : WorkerTransition(c)
  BY <1>1 DEF PassTime, Publish, WorkerTransition, threadVars, Untouched
<1>2. ASSUME NEW c \in Claim, QuietWorker(c)  PROVE Untouched(q) /\ (token[q] => token'[q])
  BY <1>0, <1>2 DEF QuietWorker, WorkerCancels, WorkerReturns, WorkerStops, WorkerRaises,
                    Ends, Untouched
<1>3. ASSUME NEW p \in Process,
             \/ SetupDone(p) \/ SetupFails(p) \/ Top(p) \/ SettleRead(p) \/ SettleDone(p)
             \/ FillLost(p) \/ Submit(p) \/ Register(p)
      PROVE  (p # q => Untouched(q)) /\ (token[q] => token'[q])
  BY <1>0, <1>3 DEF SetupDone, SetupFails, Top, SettleRead, SettleDone, FillLost, Submit,
                    Register, Untouched
<1>4. ASSUME NEW p \in Process,
             \/ Drained(p) \/ LostCancel(p) \/ LostDrained(p) \/ ExecutorExit(p)
             \/ UserCancels(p) \/ KeyboardInterrupt(p) \/ Crash(p) \/ Turns(p)
      PROVE  (p # q => Untouched(q)) /\ (token[q] => token'[q])
  BY <1>0, <1>4 DEF Drained, LostCancel, LostDrained, ExecutorExit, Turns, FinishRead,
                    DisplayFails, StoreFails, UserCancels,
                    KeyboardInterrupt, Crash, Untouched
<1>5. ASSUME NEW p \in Process, Sweeps(p) \/ Acquire(p) \/ Renewals(p)
      PROVE  (p # q => Untouched(q)) /\ (token[q] => token'[q])
  BY <1>0, <1>5 DEF Sweeps, Begin, SetupSweep, LastSweep, SetupInterruptFails, Acquire,
                    Renewals, SetupRenew,
                    Renew, DrainRenew, Untouched
<1>6. ASSUME NEW p \in Process,
             Interrupts(p) \/ SettleWrite(p) \/ FillClaim(p) \/ FillDone(p) \/ Finish(p)
      PROVE  (p # q => Untouched(q)) /\ (token[q] => token'[q])
  BY <1>0, <1>6 DEF Interrupts, SetupInterrupt, Interrupt, SettleWrite, FillClaim,
                    FillDone, Finish, Untouched
<1>7. ASSUME NEW p \in Process, Quiet(p)
      PROVE  (p # q => Untouched(q)) /\ (token[q] => token'[q])
  BY <1>3, <1>4, <1>7 DEF Quiet
<1> QED
  BY StepCases, <1>1, <1>2, <1>5, <1>6, <1>7 DEF Touches

LEMMA PlacedStep ==
    ASSUME IInv, SchedulerNext
    PROVE  Placed'
<1> USE DEF Process, Goto
<1> DEFINE P(q) ==
      /\ now[q] <= clock
      /\ pc[q] \in {"idle", "acquire"} => run[q].status = "unused"
      /\ pc[q] \in SettingUp \cup {"setupFailed"} => ClaimsOf(q) = {}
      /\ pc[q] \in SettingUp \cup Loop \cup Draining
                     \cup {"setupFailed", "interrupt", "lost", "raised"}
           => run[q].status \in {"running", "cancelled"}
      /\ pc[q] \in {"submit", "register", "settleWrite"} => held[q] \in ClaimsOf(q)
      /\ active[q] \subseteq ClaimsOf(q) /\ unvisited[q] \subseteq ClaimsOf(q)
<1> SUFFICES ASSUME NEW q \in Process  PROVE P(q)'
  BY DEF Placed
<1>0. /\ P(q) /\ clock \in Nat /\ now[q] \in Nat
      /\ now \in [Process -> 0..MaxTime]
      /\ pc \in [Process -> SettingUp \cup Loop \cup Ending \cup Over
                            \cup {"idle", "acquire"}]
      /\ active \in [Process -> SUBSET Claim] /\ unvisited \in [Process -> SUBSET Claim]
      /\ held \in [Process -> Claim \cup {NoRow}]
      /\ UNCHANGED threadVars \/ clock' = clock
  BY Numbers, Forward DEF IInv, SchedulerTypeOK, Placed
<1>1. ClaimsOf(q) \subseteq ClaimsOf(q)'
  BY Forward DEF ClaimsOf
<1>2. ClaimsOf(q)' = ClaimsOf(q) \/ FillClaim(q)
  BY StatusesStep
<1>3. \/ run'[q].status = run[q].status
      \/ run[q].status = "running" /\ run'[q].status = "cancelled"
      \/ run[q].status = "unused" /\ Acquire(q) /\ pc'[q] = "setupSweep"
           /\ run'[q].status = "running"
      \/ Finish(q) /\ pc'[q] = "sweep"
  BY <1>0, StatusesStep
<1> HIDE DEF IInv
<1> USE DEF SettingUp, Loop, Draining
<1>4. CASE Untouched(q)
  <2>1. now'[q] <= clock'
    BY <1>0, <1>4, Forward DEF Untouched
  <2>2. ~ (Acquire(q) /\ pc'[q] = "setupSweep") /\ ~ (Finish(q) /\ pc'[q] = "sweep")
        /\ ~ FillClaim(q)
    BY <1>0, <1>4 DEF Untouched, Acquire, Finish, FillClaim
  <2> QED
    BY <1>0, <1>1, <1>2, <1>3, <1>4, <2>1, <2>2 DEF Untouched
<1>5. CASE Touches(q) /\ UNCHANGED threadVars
  BY <1>0, <1>1, <1>4, <1>5 DEF threadVars, Untouched
<1>6. CASE Touches(q) /\ clock' = clock
  <2>1. CASE \/ SetupDone(q) \/ SetupFails(q) \/ SettleDone(q) \/ FillLost(q) \/ Submit(q)
             \/ Drained(q) \/ LostCancel(q) \/ LostDrained(q) \/ ExecutorExit(q)
             \/ UserCancels(q) \/ KeyboardInterrupt(q) \/ Crash(q) \/ Turns(q)
    BY <1>0, <1>1, <1>2, <1>3, <1>6, <2>1
       DEF SetupDone, SetupFails, SettleDone, FillLost, Submit, Drained, LostCancel,
           LostDrained, ExecutorExit, Turns, FinishRead, DisplayFails, StoreFails,
           UserCancels, KeyboardInterrupt, Crash, Ending,
           Acquire, Finish, FillClaim, Sweeps
  <2>2. CASE Top(q) \/ SettleRead(q) \/ Register(q)
    BY <1>0, <1>1, <1>2, <1>3, <1>6, <2>2
       DEF Top, SettleRead, Register, Acquire, Finish, FillClaim
  <2>3. CASE Sweeps(q)
    BY <1>0, <1>1, <1>2, <1>3, <1>6, <2>3
       DEF Sweeps, Begin, SetupSweep, LastSweep, SetupInterruptFails, Acquire, Finish,
           FillClaim
  <2>7. CASE Acquire(q)
    <3>1. run[q].status = "unused"
      BY <1>0, <2>7 DEF Acquire
    <3>2. ClaimsOf(q) = {}
      BY <3>1 DEF ClaimsOf, IInv, Safety, RowsAreLinked, LinkedClaim
    <3>3. pc'[q] = "setupSweep" => run'[q].status = "running"
      <4>1. ASSUME NEW g \in Generation, NEW R, Begins(q, g, R)
            PROVE  run'[q].status = "running"
        BY <4>1 DEF Begins
      <4> QED
        BY <1>0, <2>7, <4>1, AcquireOutcome
    <3> QED
      BY <1>0, <1>1, <1>2, <1>3, <1>6, <2>7, <3>2, <3>3 DEF Acquire, Finish, FillClaim
  <2>4. CASE Renewals(q) \/ Interrupts(q)
    BY <1>0, <1>1, <1>2, <1>3, <1>6, <2>4
       DEF Renewals, SetupRenew, Renew, DrainRenew, Interrupts, SetupInterrupt,
           Interrupt, Acquire, Finish, FillClaim
  <2>5. CASE SettleWrite(q) \/ FillDone(q) \/ Finish(q)
    BY <1>0, <1>1, <1>2, <1>3, <1>6, <2>5
       DEF SettleWrite, FillDone, Acquire, Finish, FillClaim
  <2>6. CASE FillClaim(q)
    <3>1. PICK c \in Claim, t \in Task : Takes(q, c, t) /\ held' = [held EXCEPT ![q] = c]
      BY <2>6, FillClaimOutcome
    <3>2. c \in ClaimsOf(q)'
      BY <3>1 DEF Takes, ClaimsOf
    <3> QED
      BY <1>0, <1>1, <1>3, <1>6, <2>6, <3>1, <3>2 DEF FillClaim, Acquire, Finish
  <2> QED
    BY <1>6, <2>1, <2>2, <2>3, <2>4, <2>5, <2>6, <2>7 DEF Touches, Quiet
<1> QED
  BY <1>0, OwnStep, <1>4, <1>5, <1>6
\* What a step does to the tables, and which step it is.
Later == clock' \in {clock, clock + 1} /\ UNCHANGED <<run, claim, runtime>>

LEMMA Effects ==
    ASSUME IInv, SchedulerNext
    PROVE  \/ Later
           \/ \E R \in SUBSET ExpiredRuns(clock) : Cancels(R)
           \/ \E p \in Process : Interrupts(p) /\ Cancels({p}) /\ run[p].status = "running"
           \/ \E p \in Process, g \in Generation : \E R \in SUBSET ExpiredRuns(clock) :
                Acquire(p) /\ Begins(p, g, R)
           \/ \E p \in Process, t \in 0..clock : Renewals(p) /\ Renews(p, t)
           \/ \E p \in Process, c \in Claim, t \in Task :
                FillClaim(p) /\ Takes(p, c, t) /\ held' = [held EXCEPT ![p] = c]
           \/ \E p \in Process, c \in Claim, new \in TaskStatus :
                /\ Moves(p, c, new)
                /\ \/ SettleWrite(p) /\ c = held[p]
                   \/ WorkerTransition(c) /\ p = Owner(c)
           \/ \E p \in Process, status \in {"completed", "failed"} :
                Finish(p) /\ Finishes(p, status)
<1>1. CASE PassTime \/ Publish
  BY <1>1 DEF PassTime, Publish, Tick, Promote, Later
<1>2. Same \/ UNCHANGED vars => Later
  BY DEF Same, vars, Later
<1>3. ASSUME NEW p \in Process, Quiet(p) \/ FillDone(p)  PROVE Later
  BY <1>2, <1>3, QuietIsSame, FillDoneIsSame
<1>4. ASSUME NEW c \in Claim, QuietWorker(c)  PROVE Later
  BY <1>2, <1>4, QuietIsSame
<1>5. ASSUME NEW p \in Process, Sweeps(p)
      PROVE  Later \/ \E R \in SUBSET ExpiredRuns(clock) : Cancels(R)
  BY <1>2, <1>5, SweepsOutcome
<1>6. ASSUME NEW p \in Process, Acquire(p)
      PROVE  \/ Later
             \/ \E g \in Generation : \E R \in SUBSET ExpiredRuns(clock) : Begins(p, g, R)
  BY <1>2, <1>6, AcquireOutcome
<1>7. ASSUME NEW p \in Process, Renewals(p)
      PROVE  \/ Later \/ \E t \in 0..clock : Renews(p, t)
             \/ \E R \in SUBSET ExpiredRuns(clock) : Cancels(R)
  <2>1. run[p].status = "running" /\ run[p].lease <= clock
          => {p} \in SUBSET ExpiredRuns(clock)
    BY DEF ExpiredRuns, Process
  <2> QED
    BY <1>2, <1>7, <2>1, RenewalsOutcome
<1>8. ASSUME NEW p \in Process, Interrupts(p)
      PROVE  Later \/ (Cancels({p}) /\ run[p].status = "running")
  BY <1>2, <1>8, InterruptsOutcome
<1>9. ASSUME NEW p \in Process, SettleWrite(p)
      PROVE  Later \/ (Moves(p, held[p], "failed") /\ held[p] \in Claim)
  BY <1>2, <1>9, SettleWriteOutcome DEF ClaimsOf
<1>10. ASSUME NEW p \in Process, FillClaim(p)
       PROVE  \E c \in Claim, t \in Task : Takes(p, c, t) /\ held' = [held EXCEPT ![p] = c]
  BY <1>10, FillClaimOutcome
<1>11. ASSUME NEW p \in Process, Finish(p)
       PROVE  Later \/ \E status \in {"completed", "failed"} : Finishes(p, status)
  BY <1>2, <1>11, FinishOutcome
<1>12. ASSUME NEW c \in Claim, WorkerTransition(c)
       PROVE  Owner(c) \in Process /\ \E new \in TaskStatus : Moves(Owner(c), c, new)
  BY <1>12, WorkerTransitionOutcome
<1> HIDE DEF IInv
<1> QED
  BY StepCases, <1>1, <1>3, <1>4, <1>5, <1>6, <1>7, <1>8, <1>9, <1>10, <1>11, <1>12

\* A run and its open claims are given the same lease, from the same reading.
LEMMA LeasedStep ==
    ASSUME IInv, SchedulerNext
    PROVE  Leased'
<1>1. /\ Leased /\ clock \in Nat /\ LeaseDuration \in Nat
      /\ \A r \in Run : run[r].lease \in Nat
      /\ \A c \in Claim : claim[c].lease \in Nat
  BY Numbers DEF IInv, SchedulerTypeOK
<1>2. \A c \in OpenClaims : claim[c].run \in Run /\ run[claim[c].run].status = "running"
  BY DEF IInv, Safety, OpenClaimIsBacked, Backed
<1>3. CASE Later
  BY <1>1, <1>3 DEF Later, Leased, OpenClaims
<1>4. ASSUME NEW R \in SUBSET Run, Cancels(R)  PROVE Leased'
  BY <1>1, <1>2, <1>4 DEF Cancels, Releases, Leased, OpenClaims
<1>5. ASSUME NEW p \in Process, NEW g, NEW R, Begins(p, g, R)  PROVE Leased'
  BY <1>1, <1>2, <1>5 DEF Begins, Releases, Leased, OpenClaims, Process
<1>6. ASSUME NEW p \in Process, NEW t \in 0..clock, Renews(p, t)  PROVE Leased'
  BY <1>1, <1>2, <1>6 DEF Renews, Leased, OpenClaims, Process
<1>7. ASSUME NEW p \in Process, NEW c \in Claim, NEW t, Takes(p, c, t)  PROVE Leased'
  BY <1>1, <1>2, <1>7 DEF Takes, Leased, OpenClaims, Process
<1>8. ASSUME NEW p \in Process, NEW c \in Claim, NEW new, Moves(p, c, new)  PROVE Leased'
  BY <1>1, <1>2, <1>8 DEF Moves, LiveClaim, Leased, OpenClaims, Process
<1>9. ASSUME NEW p \in Process, NEW status \in {"completed", "failed"},
             Finishes(p, status)
      PROVE  Leased'
  BY <1>1, <1>2, <1>9 DEF Finishes, Leased, OpenClaims, Process
<1> QED
  <2>1. \A R \in SUBSET ExpiredRuns(clock) : R \in SUBSET Run
    BY DEF ExpiredRuns
  <2>2. \A p \in Process : {p} \in SUBSET Run
    BY DEF Process
  <2> HIDE DEF IInv
  <2> QED
    BY Effects, <2>1, <2>2, <1>3, <1>4, <1>5, <1>6, <1>7, <1>8, <1>9

\* A claim is released by the end of its task or of its run, and neither is undone.
LEMMA ClosedStep ==
    ASSUME IInv, SchedulerNext
    PROVE  Closed'
<1>1. /\ Closed
      /\ \A c \in OpenClaims : claim[c].run \in Run /\ claim[c].task \in Task
                               /\ run[claim[c].run].status = "running"
                               /\ runtime[claim[c].task].status \in ActiveStatus
                               /\ \A d \in OpenClaims : claim[d].task = claim[c].task => d = c
      /\ \A c \in Claim : claim[c].status # "unused" =>
           /\ claim[c].run \in Run /\ claim[c].task \in Task
           /\ run[claim[c].run].status # "unused"
      /\ \A c \in Claim : claim[c].status \in {"unused", "open", "released"}
  BY DEF IInv, Safety, OpenClaimIsBacked, Backed, RowsAreLinked, LinkedClaim,
         SchedulerTypeOK, TypeOK, ClaimRecord
<1>2. CASE Later
  BY <1>2, <1>1 DEF Later, Closed
<1>3. ASSUME NEW R \in SUBSET Run, Cancels(R)  PROVE Closed'
  BY <1>1, <1>3 DEF Cancels, Releases, Returns, Closed, OpenClaims
<1>4. ASSUME NEW p \in Process, NEW g, NEW R \in SUBSET Run, Begins(p, g, R)  PROVE Closed'
  BY <1>1, <1>4 DEF Begins, Releases, Returns, Closed, OpenClaims, Process
<1>5. ASSUME NEW p \in Process, NEW t \in 0..clock, Renews(p, t)  PROVE Closed'
  BY <1>1, <1>5 DEF Renews, Closed, OpenClaims, Process
<1>6. ASSUME NEW p \in Process, NEW c \in Claim, NEW t, Takes(p, c, t)  PROVE Closed'
  BY <1>1, <1>6 DEF Takes, Closed, OpenClaims, Process
<1>7. ASSUME NEW p \in Process, NEW c \in Claim, NEW new, Moves(p, c, new)  PROVE Closed'
  BY <1>1, <1>7 DEF Moves, LiveClaim, Closed, OpenClaims, Process
<1>8. ASSUME NEW p \in Process, NEW status \in {"completed", "failed"},
             Finishes(p, status)
      PROVE  Closed'
  BY <1>1, <1>8 DEF Finishes, Closed, OpenClaims, Process
<1> QED
  <2>1. \A R \in SUBSET ExpiredRuns(clock) : R \in SUBSET Run
    BY DEF ExpiredRuns
  <2>2. \A p \in Process : {p} \in SUBSET Run
    BY DEF Process
  <2> HIDE DEF IInv
  <2> QED
    BY Effects, <2>1, <2>2, <1>2, <1>3, <1>4, <1>5, <1>6, <1>7, <1>8
\* A thread is started by Submit only, and ends once.
LEMMA WorkersStep ==
    ASSUME IInv, SchedulerNext, NEW c \in Claim
    PROVE  \/ worker'[c] = worker[c]
           \/ worker[c] = "running" /\ worker'[c] \in WorkerEnd
           \/ \E p \in Process : /\ Submit(p) /\ Goto(p, "register") /\ c = held[p]
                                 /\ c \in ClaimsOf(p) /\ worker'[c] = "running"
<1>0. worker \in [Claim -> {"none", "running"} \cup WorkerEnd]
      /\ \A p \in Process : pc[p] = "submit" => held[p] \in ClaimsOf(p)
  BY DEF IInv, SchedulerTypeOK, Placed
<1> HIDE DEF IInv
<1>1. CASE PassTime \/ Publish \/ \E d \in Claim : WorkerTransition(d)
  BY <1>1 DEF PassTime, Publish, WorkerTransition, threadVars
<1>2. ASSUME NEW d \in Claim, QuietWorker(d)
      PROVE  worker'[c] = worker[c] \/ (worker[c] = "running" /\ worker'[c] \in WorkerEnd)
  BY <1>0, <1>2 DEF QuietWorker, WorkerCancels, WorkerReturns, WorkerStops, WorkerRaises,
                    Ends, WorkerEnd
<1>3. ASSUME NEW p \in Process, Crash(p)
      PROVE  worker'[c] = worker[c] \/ (worker[c] = "running" /\ worker'[c] \in WorkerEnd)
  BY <1>0, <1>3 DEF Crash, Working, WorkerEnd
<1>4. ASSUME NEW p \in Process, Submit(p)
      PROVE  \/ worker'[c] = worker[c]
             \/ Goto(p, "register") /\ c = held[p] /\ worker'[c] = "running"
  BY <1>0, <1>4 DEF Submit
<1>5. ASSUME NEW p \in Process, Touches(p), ~ Crash(p), ~ Submit(p)
      PROVE  worker' = worker
  <2>1. CASE Quiet(p)
    BY <1>5, <2>1
       DEF Quiet, SetupDone, SetupFails, Top, SettleRead, SettleDone, FillLost, Register,
           Drained, LostCancel, LostDrained, ExecutorExit, Turns, FinishRead,
           DisplayFails, StoreFails, UserCancels, KeyboardInterrupt
  <2>2. CASE Sweeps(p) \/ Acquire(p) \/ Renewals(p)
    BY <2>2 DEF Sweeps, Begin, SetupSweep, LastSweep, SetupInterruptFails, Acquire,
                Renewals, SetupRenew,
                Renew, DrainRenew
  <2>3. CASE Interrupts(p) \/ SettleWrite(p) \/ FillClaim(p) \/ FillDone(p) \/ Finish(p)
    BY <2>3 DEF Interrupts, SetupInterrupt, Interrupt, SettleWrite, FillClaim, FillDone,
                Finish
  <2> QED
    BY <1>5, <2>1, <2>2, <2>3 DEF Touches
<1>6. ASSUME NEW p \in Process, Submit(p)  PROVE pc[p] = "submit"
  BY <1>6 DEF Submit
<1> QED
  BY StepCases, <1>0, <1>1, <1>2, <1>3, <1>4, <1>5, <1>6 DEF Touches

LEMMA ThreadedStep ==
    ASSUME IInv, SchedulerNext
    PROVE  Threaded'
<1> USE DEF Process
<1>0. /\ Threaded
      /\ \A c \in Claim : claim[c].status # "unused" => claim[c].run \in Run
      /\ \A p \in Process : active[p] \subseteq ClaimsOf(p)
      /\ pc \in [Process -> SettingUp \cup Loop \cup Ending \cup Over
                            \cup {"idle", "acquire"}]
      /\ active \in [Process -> SUBSET Claim] /\ unvisited \in [Process -> SUBSET Claim]
      /\ held \in [Process -> Claim \cup {NoRow}]
      /\ worker \in [Claim -> {"none", "running"} \cup WorkerEnd]
  BY DEF IInv, Placed, Safety, RowsAreLinked, LinkedClaim, SchedulerTypeOK
<1> USE DEF Goto
<1>1. \A c \in Claim : worker'[c] # "none" => claim'[c].status # "unused"
  BY <1>0, WorkersStep, Forward DEF Threaded, ClaimsOf
<1>2. ASSUME NEW c \in Claim, worker[c] = "running", worker'[c] = "running"
      PROVE  /\ pc'[claim'[c].run] \in (Loop \cup Ending) \ {"setupFailed"}
             /\ ~ KeyboardInterrupts => Registered(c)'
  <2> DEFINE q == claim[c].run
  <2>1. /\ claim[c].status # "unused" /\ q \in Process /\ claim'[c].run = q
        /\ pc[q] \in (Loop \cup Ending) \ {"setupFailed"}
        /\ c \in ClaimsOf(q)
        /\ ~ KeyboardInterrupts => c \in active[q] \/ (pc[q] = "register" /\ held[q] = c)
    BY <1>0, <1>2, Forward DEF Threaded, Working, Registered, ClaimsOf
  <2> HIDE DEF q, IInv
  <2>2. CASE Untouched(q)
    BY <2>1, <2>2 DEF Untouched, Registered
  <2>3. CASE Touches(q)
    <3> SUFFICES /\ pc'[q] \in (Loop \cup Ending) \ {"setupFailed"}
                 /\ ~ KeyboardInterrupts =>
                      c \in active'[q] \/ (pc'[q] = "register" /\ held'[q] = c)
      BY <2>1 DEF Registered
    <3> USE DEF SettingUp, Loop, Ending, Draining
    <3>1. CASE \/ SetupDone(q) \/ SetupFails(q) \/ SettleDone(q) \/ FillLost(q) \/ Submit(q)
               \/ Top(q) \/ LostDrained(q) \/ LostCancel(q) \/ Turns(q)
      BY <1>0, <2>1, <3>1
         DEF SetupDone, SetupFails, SettleDone, FillLost, Submit, Top, LostDrained,
             LostCancel, Turns, FinishRead, DisplayFails, StoreFails
    <3>2. CASE Drained(q) \/ UserCancels(q) \/ KeyboardInterrupt(q)
      BY <1>0, <2>1, <3>2 DEF Drained, UserCancels, KeyboardInterrupt
    <3>3. CASE ExecutorExit(q) \/ Crash(q)
      BY <1>0, <1>2, <2>1, <3>3 DEF ExecutorExit, Crash, Working, WorkerEnd
    <3>4. CASE SettleRead(q) \/ Register(q)
      BY <1>0, <1>2, <2>1, <3>4 DEF SettleRead, Register, WorkerEnd
    <3>5. CASE Sweeps(q) \/ Acquire(q) \/ Renewals(q)
      BY <1>0, <2>1, <3>5 DEF Sweeps, Begin, SetupSweep, LastSweep, SetupInterruptFails,
                              Acquire, Renewals,
                              SetupRenew, Renew, DrainRenew
    <3>6. CASE Interrupts(q) \/ SettleWrite(q) \/ FillClaim(q) \/ FillDone(q) \/ Finish(q)
      BY <1>0, <2>1, <3>6 DEF Interrupts, SetupInterrupt, Interrupt, SettleWrite,
                              FillClaim, FillDone, Finish
    <3> QED
      BY <2>3, <3>1, <3>2, <3>3, <3>4, <3>5, <3>6 DEF Touches, Quiet
  <2> QED
    BY <2>1, <2>2, <2>3, OwnStep
<1>3. ASSUME NEW c \in Claim, NEW p \in Process, Submit(p), pc' = [pc EXCEPT ![p] = "register"],
             c = held[p], c \in ClaimsOf(p)
      PROVE  /\ pc'[claim'[c].run] \in (Loop \cup Ending) \ {"setupFailed"}
             /\ ~ KeyboardInterrupts => Registered(c)'
  <2>1. claim'[c].run = p /\ held'[p] = c
    BY <1>0, <1>3 DEF Submit, ClaimsOf, vars
  <2> QED
    BY <1>0, <1>3, <2>1 DEF Registered, Loop
<1>4. \A c \in Working(Claim)' :
         /\ pc'[claim'[c].run] \in (Loop \cup Ending) \ {"setupFailed"}
         /\ ~ KeyboardInterrupts => Registered(c)'
  <2>1. \A c \in Working(Claim)' :
           \/ worker[c] = "running" /\ worker'[c] = "running"
           \/ \E p \in Process : /\ Submit(p) /\ pc' = [pc EXCEPT ![p] = "register"]
                                 /\ c = held[p] /\ c \in ClaimsOf(p)
    BY WorkersStep DEF Working, WorkerEnd
  <2>2. Working(Claim)' \subseteq Claim
    BY DEF Working
  <2> QED
    BY <1>2, <1>3, <2>1, <2>2
<1>5. ASSUME NEW q \in Process, pc'[q] = "interrupt"  PROVE Working(active[q])' = {}
  <2>1. active'[q] = active[q] /\ Working(active[q]) = {}
    <3> HIDE DEF IInv
    <3>1. CASE Untouched(q)
      BY <1>0, <1>5, <3>1 DEF Untouched, Threaded
    <3>2. CASE Touches(q)
      BY <1>0, <1>5, <3>2
         DEF Touches, Quiet, SetupDone, SetupFails, Top, SettleRead, SettleDone,
             FillLost, Submit, Register, Drained, LostCancel, LostDrained, ExecutorExit,
             Turns, FinishRead, DisplayFails, StoreFails,
             UserCancels, KeyboardInterrupt, Crash, Sweeps, Begin, SetupSweep,
             LastSweep, SetupInterruptFails, Acquire, Renewals, SetupRenew, Renew,
             DrainRenew, Interrupts,
             SetupInterrupt, Interrupt, SettleWrite, FillClaim, FillDone, Finish,
             SettingUp, Loop, Draining
    <3> QED
      BY OwnStep, <3>1, <3>2
  <2>2. \A c \in active[q] : worker'[c] # "running"
    <3> TAKE c \in active[q]
    <3>1. c \in Claim /\ worker[c] # "running" /\ c \in ClaimsOf(q)
      BY <1>0, <2>1 DEF Working, ClaimsOf
    <3>2. ASSUME NEW p \in Process, Submit(p), pc' = [pc EXCEPT ![p] = "register"], c \in ClaimsOf(p)
          PROVE  FALSE
      BY <1>0, <1>5, <3>1, <3>2 DEF ClaimsOf
    <3> QED
      BY <3>1, <3>2, WorkersStep DEF WorkerEnd
  <2> QED
    BY <2>1, <2>2 DEF Working
<1> QED
  BY <1>1, <1>4, <1>5 DEF Threaded

LEMMA SettlingStep ==
    ASSUME IInv, SchedulerNext
    PROVE  Settling'
<1> SUFFICES ASSUME NEW q \in Process, pc'[q] = "settleWrite"
             PROVE  /\ worker'[held'[q]] \in WorkerEnd
                    /\ run'[q].status = "running" =>
                         /\ claim'[held'[q]].status = "open"
                         /\ runtime'[claim'[held'[q]].task].status = expected'[q]
  BY DEF Settling
<1>0. /\ Settling /\ Closed
      /\ \A c \in OpenClaims : /\ claim[c].run \in Run /\ claim[c].task \in Task
                               /\ run[claim[c].run].status = "running"
                               /\ runtime[claim[c].task].status \in ActiveStatus
                               /\ \A d \in OpenClaims : claim[d].task = claim[c].task => d = c
      /\ \A c \in Claim : claim[c].status \in {"unused", "open", "released"}
      /\ pc[q] = "settleWrite" => held[q] \in ClaimsOf(q)
      /\ unvisited[q] \subseteq ClaimsOf(q)
      /\ pc \in [Process -> SettingUp \cup Loop \cup Ending \cup Over
                            \cup {"idle", "acquire"}]
      /\ held \in [Process -> Claim \cup {NoRow}] /\ expected \in [Process -> TaskStatus]
  BY
     DEF IInv, Safety, OpenClaimIsBacked, Backed, SchedulerTypeOK, TypeOK, ClaimRecord,
         Placed
<1> USE DEF Process, Goto
<1>1. CASE Untouched(q)
  <2> DEFINE c == held[q]
             t == claim[c].task
  <2>1. /\ pc[q] = "settleWrite" /\ held'[q] = c /\ expected'[q] = expected[q]
        /\ c \in Claim /\ claim[c].status # "unused" /\ claim[c].run = q
        /\ worker[c] \in WorkerEnd
        /\ run[q].status = "running" =>
             claim[c].status = "open" /\ runtime[t].status = expected[q]
    BY <1>0, <1>1 DEF Untouched, Settling, ClaimsOf
  <2>2. worker'[c] \in WorkerEnd
    <3>1. \A p \in Process : Submit(p) => pc[p] = "submit"
      BY DEF Submit
    <3> QED
      BY <2>1, <3>1, WorkersStep DEF ClaimsOf, WorkerEnd
  <2>3. ASSUME run'[q].status = "running"
        PROVE  claim'[c].status = "open" /\ runtime'[claim'[c].task].status = expected[q]
    <3>1. run[q].status = "running"
      BY <2>1, <2>3, StatusesStep DEF Acquire, Finish
    <3>2. /\ claim[c].status = "open" /\ runtime[t].status = expected[q] /\ t \in Task
          /\ runtime[t].status \in ActiveStatus
          /\ \A d \in OpenClaims : claim[d].task = t => d = c
      BY <1>0, <2>1, <3>1 DEF OpenClaims
    <3> HIDE DEF IInv, c, t
    <3>3. CASE Later
      BY <2>1, <3>2, <3>3 DEF Later, t
    <3>4. ASSUME NEW R \in SUBSET Run, Cancels(R)
          PROVE  claim'[c].status = "open" /\ runtime'[claim'[c].task].status = expected[q]
      BY <2>1, <2>3, <3>2, <3>4 DEF Cancels, Releases, Returns, OpenClaims, t
    <3>5. ASSUME NEW p \in Process, NEW g, NEW R \in SUBSET Run, Begins(p, g, R)
          PROVE  claim'[c].status = "open" /\ runtime'[claim'[c].task].status = expected[q]
      BY <2>1, <2>3, <3>1, <3>2, <3>5 DEF Begins, Releases, Returns, OpenClaims, t
    <3>6. ASSUME NEW p \in Process, NEW s, Renews(p, s)
          PROVE  claim'[c].status = "open" /\ runtime'[claim'[c].task].status = expected[q]
      BY <2>1, <3>2, <3>6 DEF Renews, t
    <3>7. ASSUME NEW p \in Process, NEW d \in Claim, NEW u, Takes(p, d, u)
          PROVE  claim'[c].status = "open" /\ runtime'[claim'[c].task].status = expected[q]
      BY <2>1, <3>2, <3>7 DEF Takes, t
    <3>8. ASSUME NEW p \in Process, NEW d \in Claim, NEW new, Moves(p, d, new),
                 \/ SettleWrite(p) /\ d = held[p]
                 \/ WorkerTransition(d) /\ p = Owner(d)
          PROVE  claim'[c].status = "open" /\ runtime'[claim'[c].task].status = expected[q]
      <4>1. d # c
        <5>1. ASSUME d = c  PROVE FALSE
          <6>1. p = q
            BY <2>1, <3>8, <5>1 DEF Moves, LiveClaim
          <6>2. CASE SettleWrite(q)
            BY <1>0, <6>2 DEF SettleWrite
          <6>3. CASE WorkerTransition(c)
            BY <2>1, <6>3 DEF WorkerTransition, WorkerEnd
          <6> QED
            BY <3>8, <5>1, <6>1, <6>2, <6>3
        <5> QED
          BY <5>1
      <4>2. d \in OpenClaims
        BY <3>8 DEF Moves, LiveClaim, OpenClaims
      <4> QED
        BY <2>1, <3>2, <3>8, <4>1, <4>2 DEF Moves, t
    <3>9. ASSUME NEW p \in Process, NEW status, Finishes(p, status)
          PROVE  claim'[c].status = "open" /\ runtime'[claim'[c].task].status = expected[q]
      BY <3>2, <3>9 DEF Finishes, t
    <3>10. /\ \A R \in SUBSET ExpiredRuns(clock) : R \in SUBSET Run
           /\ \A p \in Process : {p} \in SUBSET Run
      BY DEF ExpiredRuns
    <3> QED
      BY Effects, <3>3, <3>4, <3>5, <3>6, <3>7, <3>8, <3>9, <3>10
  <2> QED
    BY <2>1, <2>2, <2>3
<1>2. CASE Touches(q)
  <2>1. CASE SettleRead(q)
    <3>1. PICK c \in unvisited[q] :
            /\ worker[c] \in WorkerEnd /\ runtime[claim[c].task].status \notin TerminalStatus
            /\ held'[q] = c /\ expected'[q] = runtime[claim[c].task].status
      BY <1>0, <2>1 DEF SettleRead
    <3>2. c \in Claim /\ claim[c].status # "unused" /\ claim[c].run = q
      BY <1>0, <3>1 DEF ClaimsOf
    <3>3. run[q].status = "running" => claim[c].status = "open"
      BY <1>0, <3>1, <3>2 DEF Closed
    <3>4. run' = run /\ claim' = claim /\ runtime' = runtime /\ worker' = worker
      BY <2>1 DEF SettleRead, vars
    <3> QED
      BY <3>1, <3>3, <3>4
  <2>2. ASSUME ~ SettleRead(q), ~ Untouched(q)  PROVE FALSE
    <3> HIDE DEF IInv
    <3>1. CASE Quiet(q)
      BY <1>0, <2>2, <3>1
         DEF Quiet, SetupDone, SetupFails, Top, SettleDone, FillLost, Submit, Register,
             Drained, LostCancel, LostDrained, ExecutorExit, Turns, FinishRead,
             DisplayFails, StoreFails, UserCancels,
             KeyboardInterrupt, Crash, Untouched, vars
    <3>2. CASE Sweeps(q) \/ Acquire(q) \/ Renewals(q)
      BY <1>0, <3>2 DEF Sweeps, Begin, SetupSweep, LastSweep, SetupInterruptFails,
                        Acquire, Renewals,
                        SetupRenew, Renew, DrainRenew, SettingUp, Draining
    <3>3. CASE Interrupts(q) \/ SettleWrite(q) \/ FillClaim(q) \/ FillDone(q) \/ Finish(q)
      BY <1>0, <3>3 DEF Interrupts, SetupInterrupt, Interrupt, SettleWrite, FillClaim,
                        FillDone, Finish
    <3> QED
      BY <1>2, <3>1, <3>2, <3>3 DEF Touches
  <2> QED
    BY <1>1, <2>1, <2>2
<1> QED
  BY OwnStep, <1>1, <1>2

\* Only its own process renews a lease.
LEMMA LeaseStep ==
    ASSUME IInv, SchedulerNext, NEW q \in Process, run[q].status # "unused"
    PROVE  /\ clock' \in Nat /\ clock <= clock'
           /\ ~ Renewals(q) => run'[q].lease = run[q].lease
<1>1. clock' \in Nat /\ clock <= clock'
  BY Forward, Numbers DEF IInv, SchedulerTypeOK
<1>2. ASSUME ~ Renewals(q)  PROVE run'[q].lease = run[q].lease
  <2> USE DEF Process
  <2> HIDE DEF IInv
  <2>1. Later => run'[q].lease = run[q].lease
    BY DEF Later
  <2>2. ASSUME NEW R, Cancels(R)  PROVE run'[q].lease = run[q].lease
    BY <2>2 DEF Cancels
  <2>3. ASSUME NEW p, NEW g, NEW R, Begins(p, g, R)  PROVE run'[q].lease = run[q].lease
    BY <2>3 DEF Begins
  <2>4. ASSUME NEW p \in Process, NEW t, Renewals(p), Renews(p, t)
        PROVE  run'[q].lease = run[q].lease
    BY <1>2, <2>4 DEF Renews
  <2>5. ASSUME NEW p, NEW c, NEW t, Takes(p, c, t)  PROVE run'[q].lease = run[q].lease
    BY <2>5 DEF Takes
  <2>6. ASSUME NEW p, NEW c, NEW new, Moves(p, c, new)  PROVE run'[q].lease = run[q].lease
    BY <2>6 DEF Moves
  <2>7. ASSUME NEW p, NEW status, Finishes(p, status)  PROVE run'[q].lease = run[q].lease
    BY <2>7 DEF Finishes
  <2> QED
    BY Effects, <2>1, <2>2, <2>3, <2>4, <2>5, <2>6, <2>7
<1> QED
  BY <1>1, <1>2

\* Every open claim stays followed.
LEMMA AccountedStep ==
    ASSUME IInv, SchedulerNext
    PROVE  Accounted'
<1> USE DEF Process, Goto
<1>0. /\ Accounted
      /\ \A c \in OpenClaims : /\ claim[c].run \in Run
                               /\ run[claim[c].run].status = "running"
                               /\ runtime[claim[c].task].status \in ActiveStatus
                               /\ claim[c].lease = run[claim[c].run].lease
      /\ \A p \in Process : /\ pc[p] \in {"idle", "acquire"} => run[p].status = "unused"
                            /\ pc[p] \in SettingUp \cup {"setupFailed"} => ClaimsOf(p) = {}
      /\ pc \in [Process -> SettingUp \cup Loop \cup Ending \cup Over
                            \cup {"idle", "acquire"}]
      /\ active \in [Process -> SUBSET Claim] /\ held \in [Process -> Claim \cup {NoRow}]
      /\ now \in [Process -> 0..MaxTime] /\ token \in [Process -> BOOLEAN]
      /\ clock \in Nat /\ \A r \in Run : run[r].lease \in Nat
  BY Numbers DEF IInv, Safety, OpenClaimIsBacked, Backed, Leased, SchedulerTypeOK, Placed
\* New claims.
<1>1. ASSUME NEW c \in OpenClaims', c \notin OpenClaims  PROVE Followed(c)'
  <2>1. PICK p \in Process, t \in Task :
          FillClaim(p) /\ Takes(p, c, t) /\ held' = [held EXCEPT ![p] = c]
    <3> HIDE DEF IInv
    <3>1. c \in Claim /\ claim'[c].status = "open" /\ claim[c].status # "open"
      BY <1>1 DEF OpenClaims
    <3>2. ~ Later /\ (\A R : ~ Cancels(R)) /\ (\A p, g, R : ~ Begins(p, g, R))
          /\ (\A p, t : ~ Renews(p, t)) /\ (\A p, status : ~ Finishes(p, status))
      BY <3>1 DEF Later, Cancels, Begins, Releases, Renews, Finishes
    <3>3. ASSUME NEW p, NEW d \in Claim, NEW new, Moves(p, d, new)  PROVE FALSE
      BY <3>1, <3>3 DEF Moves, LiveClaim
    <3>4. ASSUME NEW p, NEW d \in Claim, NEW t, Takes(p, d, t)  PROVE c = d
      BY <3>1, <3>4 DEF Takes
    <3> QED
      BY Effects, <3>2, <3>3, <3>4
  <2>2. claim'[c].run = p /\ pc'[p] = "submit" /\ held'[p] = c
    BY <1>0, <2>1 DEF Takes, FillClaim
  <2> QED
    BY <2>2 DEF Followed
\* Claims that were open before.
<1>2. ASSUME NEW c \in OpenClaims, c \in OpenClaims'  PROVE Followed(c)'
  <2>0. PICK q \in Process : q = claim[c].run
    BY <1>0
  <2>1. /\ c \in Claim /\ claim[c].status = "open" /\ claim'[c].status = "open"
        /\ claim'[c].run = q /\ c \in ClaimsOf(q)
        /\ run[q].status = "running" /\ runtime[claim[c].task].status \in ActiveStatus
        /\ claim[c].lease = run[q].lease
        /\ pc[q] \notin {"idle", "acquire", "setupSweep", "setup", "setupFailed"}
    BY <1>0, <1>2, <2>0, Forward DEF OpenClaims, ClaimsOf, SettingUp
  <2>2. Followed(c)
    BY <1>0, <1>2 DEF Accounted
  <2>3. token[q] => token'[q]
    BY <2>1, OwnStep
  <2>4. run[q].lease <= clock /\ ~ Renewals(q)
          => run'[q].lease <= clock' /\ run'[q].lease = run[q].lease
    BY <1>0, <2>1, LeaseStep
  <2> SUFFICES \/ c \in active'[q]
               \/ pc'[q] \in {"submit", "register", "settleWrite"} /\ held'[q] = c
               \/ pc'[q] \in Ending \cup Over
               \/ token'[q] /\ pc'[q] = "top"
               \/ Overdue(q)'
    BY <2>1 DEF Followed
  <2>5. \/ c \in active[q]
        \/ pc[q] \in {"submit", "register", "settleWrite"} /\ held[q] = c
        \/ pc[q] \in Ending \cup Over
        \/ token[q] /\ pc[q] = "top"
        \/ Overdue(q)
    BY <2>0, <2>2 DEF Followed
  <2>6. ~ Renewals(q) /\ Overdue(q) /\ (pc'[q] # "renew" \/ (pc'[q] = pc[q] /\ now'[q] = now[q]))
          => Overdue(q)'
    BY <2>1, <2>4 DEF Overdue
  <2>7. Renewals(q) => pc[q] \in {"setupSweep", "setup", "renew", "drain", "handlerDrain"}
    BY DEF Renewals, SetupRenew, Renew, DrainRenew, SettingUp, Draining
  <2> HIDE DEF IInv
  <2>8. CASE Untouched(q)
    <3>1. CASE ~ Renewals(q)
      BY <2>3, <2>5, <2>6, <2>8, <3>1 DEF Untouched
    <3>2. CASE Renewals(q)
      BY <1>0, <2>1, <2>5, <2>8, <3>2
         DEF Untouched, Renewals, SetupRenew, Renew, DrainRenew, SettingUp, Ending
    <3> QED
      BY <3>1, <3>2
  <2>9. CASE Touches(q)
    <3> USE DEF SettingUp, Loop, Ending, Draining
    <3>1. CASE \/ SetupDone(q) \/ SetupFails(q) \/ SettleDone(q) \/ FillLost(q)
               \/ Submit(q) \/ Register(q) \/ FinishRead(q)
      <4>1. ~ Renewals(q)
        BY <2>1, <2>7, <3>1 DEF SetupDone, SetupFails, SettleDone, FillLost, Submit,
                                Register, FinishRead
      <4> QED
        BY <1>0, <2>1, <2>5, <2>6, <3>1, <4>1
           DEF SetupDone, SetupFails, SettleDone, FillLost, Submit, Register, FinishRead
    <3>2. CASE Top(q)
      <4>1. /\ ~ Renewals(q) /\ pc[q] = "top" /\ active'[q] = active[q]
            /\ now'[q] = clock /\ clock' = clock
        BY <1>0, <2>1, <2>7, <3>2 DEF Top, vars
      <4>2. Overdue(q) => Overdue(q)'
        BY <2>4, <4>1 DEF Overdue
      <4>3. token[q] => pc'[q] = "drain"
        BY <1>0, <2>1, <3>2 DEF Top
      <4> QED
        BY <2>5, <4>1, <4>2, <4>3
    <3>3. CASE SettleRead(q)
      <4>1. ~ Renewals(q)
        BY <2>7, <3>3 DEF SettleRead
      <4>2. Overdue(q) => Overdue(q)'
        BY <1>0, <2>1, <2>6, <3>3, <4>1 DEF SettleRead
      <4>3. c \in active[q] => c \in active'[q] \/ (pc'[q] = "settleWrite" /\ held'[q] = c)
        BY <1>0, <2>1, <3>3 DEF SettleRead
      <4> QED
        BY <2>5, <3>3, <4>2, <4>3 DEF SettleRead
    <3>4. CASE \/ Drained(q) \/ LostCancel(q) \/ LostDrained(q) \/ ExecutorExit(q)
               \/ KeyboardInterrupt(q) \/ Crash(q) \/ DisplayFails(q) \/ StoreFails(q)
      BY <1>0, <2>1, <3>4
         DEF Drained, LostCancel, LostDrained, ExecutorExit, Turns, FinishRead,
             DisplayFails, StoreFails, KeyboardInterrupt, Crash
    <3>5. CASE UserCancels(q)
      BY <2>8, <3>5 DEF UserCancels, Untouched
    <3>6. CASE Sweeps(q) \/ Acquire(q) \/ Interrupts(q) \/ Finish(q)
      BY <1>0, <2>1, <3>6 DEF Sweeps, Begin, SetupSweep, LastSweep, SetupInterruptFails,
                              Acquire, Interrupts,
                              SetupInterrupt, Interrupt, Finish
    <3>7. CASE Renewals(q)
      <4>1. CASE SetupRenew(q) \/ DrainRenew(q)
        BY <1>0, <2>1, <4>1 DEF SetupRenew, DrainRenew
      <4>2. CASE Renew(q)
        <5>1. RenewRun(q, now[q]) => ~ Overdue(q)
          BY <1>0, <2>1, <4>2 DEF Renew, RenewRun, LiveRun, Overdue
        <5>2. pc'[q] = "lost" \/ RenewRun(q, now[q])
          BY <1>0, <2>1, <4>2 DEF Renew
        <5> QED
          BY <1>0, <2>5, <4>2, <5>1, <5>2 DEF Renew
      <4> QED
        BY <3>7, <4>1, <4>2 DEF Renewals
    <3>8. CASE SettleWrite(q)
      <4>1. ~ Renewals(q) /\ pc'[q] # "renew" /\ pc[q] = "settleWrite"
            /\ active'[q] = active[q]
        BY <1>0, <2>1, <2>7, <3>8 DEF SettleWrite
      <4>2. ASSUME held[q] = c, pc'[q] # "raised"  PROVE Overdue(q)'
        <5>1. ~ Moves(q, c, "failed")
          BY <2>1 DEF Moves
        <5>2. ~ LiveClaim(q, c, clock)
          BY <1>0, <2>1, <3>8, <4>2, <5>1, SettleWriteOutcome
        <5>3. run[q].lease <= clock
          BY <1>0, <2>0, <2>1, <5>2 DEF LiveClaim, LiveRun
        <5> QED
          BY <2>6, <4>1, <5>3 DEF Overdue
      <4> QED
        BY <2>5, <2>6, <4>1, <4>2
    <3>9. CASE FillClaim(q) \/ FillDone(q)
      <4>1. /\ ~ Renewals(q) /\ pc'[q] # "renew" /\ pc[q] = "fill"
            /\ active'[q] = active[q]
        BY <1>0, <2>1, <2>7, <3>9 DEF FillClaim, FillDone
      <4> QED
        BY <2>5, <2>6, <4>1
    <3> QED
      BY <2>9, <3>1, <3>2, <3>3, <3>4, <3>5, <3>6, <3>7, <3>8,
         <3>9 DEF Touches, Quiet, Turns
  <2> QED
    BY <2>1, <2>8, <2>9, OwnStep
<1> QED
  BY <1>1, <1>2 DEF Accounted
\* Nothing is claimed in the generation of a live run that is about to finish.
LEMMA NothingClaimed ==
    ASSUME IInv, NEW q \in Process, pc[q] \in Final, LiveRun(q, clock)
    PROVE  \A c \in OpenClaims : GenerationOf[claim[c].task] # run[q].gen
<1> SUFFICES ASSUME NEW c \in OpenClaims, GenerationOf[claim[c].task] = run[q].gen
             PROVE  FALSE
  OBVIOUS
<1>1. /\ claim[c].run \in Run /\ run[claim[c].run].status = "running"
      /\ run[claim[c].run].gen = run[q].gen
  BY DEF IInv, Safety, OpenClaimIsBacked, Backed
<1>2. claim[c].run = q
  BY <1>1 DEF IInv, Safety, OneRunPerBorg, LiveRun, Process
<1>3. active[q] = {}
  BY DEF IInv, Finishing
<1>4. ~ Overdue(q)
  BY Numbers DEF LiveRun, Overdue, IInv, SchedulerTypeOK, Process
<1>5. ~ Followed(c)
  BY <1>2, <1>3, <1>4 DEF Followed, Ending, Draining, Final
<1> QED
  BY <1>5 DEF IInv, Accounted

LEMMA FinishingStep ==
    ASSUME IInv, SchedulerNext
    PROVE  Finishing'
<1> USE DEF Process, Goto
<1> SUFFICES ASSUME NEW q \in Process, pc'[q] \in Final
             PROVE  /\ active'[q] = {}
                    /\ LiveRun(q, clock)' =>
                         /\ \A t \in TasksOf(run'[q].gen) :
                              runtime'[t].status = "pending" => Stuck(t)'
                         /\ pc'[q] \in Finished =>
                              (pc'[q] = "complete") = AllDone(run[q].gen)'
  BY DEF Finishing
<1>0. /\ Finishing
      /\ pc[q] \in Final => run[q].status \in {"running", "cancelled"}
      /\ \A c \in OpenClaims : /\ claim[c].task \in Task
                               /\ runtime[claim[c].task].status \in ActiveStatus
      /\ pc \in [Process -> SettingUp \cup Loop \cup Ending \cup Over
                            \cup {"idle", "acquire"}]
      /\ active \in [Process -> SUBSET Claim] /\ token \in [Process -> BOOLEAN]
      /\ clock \in Nat /\ \A r \in Run : run[r].lease \in Nat
  BY Numbers DEF IInv, SchedulerTypeOK, Placed, Safety, OpenClaimIsBacked, Backed,
                     Loop, Final
<1>1. CASE Untouched(q)
  <2>1. pc[q] \in Final /\ pc'[q] = pc[q] /\ active'[q] = {}
    BY <1>0, <1>1 DEF Untouched, Finishing
  <2>2. ASSUME LiveRun(q, clock)'
        PROVE  /\ run'[q].gen = run[q].gen /\ LiveRun(q, clock)
               /\ \A u \in Task : GenerationOf[u] = run[q].gen =>
                    /\ runtime'[u].status = "done" <=> runtime[u].status = "done"
                    /\ runtime'[u].status = "pending" => runtime[u].status = "pending"
    <3>1. run[q].status = "running" /\ run'[q].gen = run[q].gen
      BY <1>0, <2>1, <2>2, Forward DEF LiveRun
    <3>2. LiveRun(q, clock)
      <4>1. ~ Renewals(q)
        BY <2>1 DEF Renewals, SetupRenew, Renew, DrainRenew, SettingUp, Draining, Final
      <4> QED
        BY <1>0, <2>2, <3>1, <4>1, LeaseStep DEF LiveRun
    <3>3. \A c \in OpenClaims : GenerationOf[claim[c].task] # run[q].gen
      BY <2>1, <3>2, NothingClaimed
    <3> HIDE DEF IInv
    <3>4. ASSUME NEW u \in Task, GenerationOf[u] = run[q].gen
          PROVE  /\ runtime'[u].status = "done" <=> runtime[u].status = "done"
                 /\ runtime'[u].status = "pending" => runtime[u].status = "pending"
      <4> DEFINE G == /\ runtime'[u].status = "done" <=> runtime[u].status = "done"
                      /\ runtime'[u].status = "pending" => runtime[u].status = "pending"
      <4>0. \A c \in OpenClaims : claim[c].task # u
        BY <3>3, <3>4
      <4>1. CASE Later
        BY <4>1 DEF Later
      <4>2. ASSUME NEW R, Cancels(R)  PROVE G
        BY <4>0, <4>2 DEF Cancels, Returns
      <4>3. ASSUME NEW p \in Process, NEW g \in Generation, NEW R \in SUBSET ExpiredRuns(clock),
                   Begins(p, g, R)
            PROVE  G
        <5>1. q \notin R
          BY <1>0, <3>2, <4>3 DEF ExpiredRuns, LiveRun
        <5>2. g # run[q].gen
          BY <3>1, <4>3, <5>1 DEF Begins, RunningOf
        <5> QED
          BY <3>4, <4>0, <4>3, <5>2 DEF Begins, Returns
      <4>4. ASSUME NEW p, NEW s, Renews(p, s)  PROVE G
        BY <4>4 DEF Renews
      <4>5. ASSUME NEW p, NEW c, NEW s, Takes(p, c, s)  PROVE G
        BY <4>5 DEF Takes
      <4>6. ASSUME NEW p, NEW c \in Claim, NEW new, Moves(p, c, new)  PROVE G
        BY <4>0, <4>6 DEF Moves, LiveClaim, OpenClaims
      <4>7. ASSUME NEW p, NEW status, Finishes(p, status)  PROVE G
        BY <4>7 DEF Finishes
      <4> HIDE DEF G
      <4>8. \A p \in Process : Cancels({p}) => G
        BY <4>2
      <4> QED
        BY Effects, <4>1, <4>2, <4>3, <4>4, <4>5, <4>6, <4>7 DEF G
    <3> QED
      BY <3>1, <3>2, <3>4
  <2>3. ASSUME LiveRun(q, clock)', NEW t \in Task, GenerationOf[t] = run'[q].gen,
               runtime'[t].status = "pending"
        PROVE  Stuck(t)'
    <3>1. runtime[t].status = "pending" /\ Stuck(t)
      BY <1>0, <2>1, <2>2, <2>3 DEF Finishing, TasksOf
    <3>2. \A d \in Dependencies[t] : d \in Task /\ GenerationOf[d] = run[q].gen
      BY <2>2, <2>3, ConstantsAssumption
    <3> QED
      BY <2>2, <2>3, <3>1, <3>2 DEF Stuck
  <2>4. ASSUME LiveRun(q, clock)', pc'[q] \in Finished
        PROVE  (pc'[q] = "complete") = AllDone(run[q].gen)'
    <3>1. (pc[q] = "complete") = AllDone(run[q].gen)
      BY <1>0, <2>1, <2>2, <2>4 DEF Finishing
    <3>2. AllDone(run[q].gen)' <=> AllDone(run[q].gen)
      BY <2>2, <2>4 DEF AllDone, TasksOf
    <3>3. AllDone(run[q].gen) \in BOOLEAN /\ AllDone(run[q].gen)' \in BOOLEAN
      BY DEF AllDone
    <3> QED
      BY <2>1, <3>1, <3>2, <3>3
  <2> QED
    BY <2>1, <2>3, <2>4 DEF TasksOf
<1>2. CASE Touches(q) /\ ~ Untouched(q) /\ ~ FinishRead(q)
  <2>1. FillDone(q)
    <3> HIDE DEF IInv
    <3>1. CASE Quiet(q)
      BY <1>0, <1>2, <3>1
         DEF Quiet, SetupDone, SetupFails, Top, SettleRead, SettleDone, FillLost, Submit,
             Register, Drained, LostCancel, LostDrained, ExecutorExit, Turns, FinishRead,
             DisplayFails, StoreFails, UserCancels,
             KeyboardInterrupt, Crash, Untouched, Final
    <3>2. CASE Sweeps(q) \/ Acquire(q) \/ Renewals(q)
      BY <1>0, <3>2 DEF Sweeps, Begin, SetupSweep, LastSweep, SetupInterruptFails,
                        Acquire, Renewals,
                        SetupRenew, Renew, DrainRenew, SettingUp, Draining, Final
    <3>3. CASE Interrupts(q) \/ SettleWrite(q) \/ FillClaim(q) \/ Finish(q)
      BY <1>0, <3>3
         DEF Interrupts, SetupInterrupt, Interrupt, SettleWrite, FillClaim, Finish, Final
    <3> QED
      BY <1>2, <3>1, <3>2, <3>3 DEF Touches
  <2>2. active[q] = {} /\ active' = active /\ ~ token[q] /\ pc'[q] \notin Finished
    BY <1>0, <2>1 DEF FillDone, Final, Loop, Ending, SettingUp, Draining
  <2>3. LiveRun(q, clock) /\ Ready(q, ExpiredClaims(q, clock)) = {}
    <3>1. Cardinality(active[q]) # Jobs
      BY <2>2, FS_EmptySet, SchedulerAssumption
    <3> QED
      BY <2>1, <2>2, <3>1 DEF FillDone
  <2>4. UNCHANGED vars
    BY <2>1, FillDoneIsSame
  <2>5. Ready(q, {}) = {}
    <3>1. ExpiredClaims(q, clock) = {}
      BY <1>0, <2>3, NothingExpires DEF IInv, SchedulerTypeOK
    <3> QED
      BY <2>3, <3>1
  <2>6. ASSUME NEW t \in TasksOf(run[q].gen), runtime[t].status = "pending"
        PROVE  Stuck(t)
    <3>1. t \in Task /\ Requeued({})[t].status = "pending"
      BY <2>6, ReleaseNothing DEF TasksOf, IInv, SchedulerTypeOK
    <3>2. \A c \in OpenClaims : claim[c].task # t
      BY <1>0, <2>6
    <3> QED
      BY <2>5, <2>6, <3>1, <3>2 DEF Ready, Stuck
  <2> QED
    BY <2>2, <2>4, <2>6 DEF vars, TasksOf, Stuck
<1>3. CASE FinishRead(q)
  <2>1. /\ pc[q] \in Final /\ active' = active /\ UNCHANGED vars
        /\ pc'[q] = IF AllDone(run[q].gen) THEN "complete" ELSE "fail"
    BY <1>0, <1>3 DEF FinishRead, Final, Loop
  <2>2. AllDone(run[q].gen) \in BOOLEAN
    BY DEF AllDone
  <2> QED
    BY <1>0, <2>1, <2>2 DEF Finishing, vars, TasksOf, Stuck, LiveRun, AllDone
<1> QED
  BY OwnStep, <1>1, <1>2, <1>3

\* Who leaves its loop for good has lost its run, or has just ended it.
LEMMA EndedStep ==
    ASSUME IInv, SchedulerNext
    PROVE  Leaving' /\ EndedProcessLeavesNoLiveRun'
<1> USE DEF Process, Goto
<1> SUFFICES ASSUME NEW q \in Process
             PROVE  /\ pc'[q] = "raised" => run'[q].status = "cancelled"
                    /\ pc'[q] \in {"lost", "sweep", "exit", "ended"} => Gone(q)'
  BY DEF EndedProcessLeavesNoLiveRun, Leaving, Gone
<1>0. /\ pc[q] = "raised" => run[q].status = "cancelled"
      /\ pc[q] \in {"lost", "sweep", "exit", "ended"} => Gone(q)
      /\ pc[q] = "settleWrite" => run[q].status \in {"running", "cancelled"}
      /\ pc[q] = "acquire" => run[q].status = "unused"
      /\ pc \in [Process -> SettingUp \cup Loop \cup Ending \cup Over
                            \cup {"idle", "acquire"}]
      /\ clock \in Nat /\ run[q].lease \in Nat
  BY Numbers
     DEF IInv, SchedulerTypeOK, Placed, Loop, Leaving, EndedProcessLeavesNoLiveRun, Gone
\* A run that is over stays so, but for a process that is only starting.
<1>1. ASSUME Gone(q), ~ Renewals(q), run[q].status # "unused", ~ Finish(q)  PROVE Gone(q)'
  <2>1. \/ run'[q].status = run[q].status
        \/ run[q].status = "running" /\ run'[q].status = "cancelled"
    BY <1>1, StatusesStep
  <2>2. clock' \in Nat /\ clock <= clock' /\ run'[q].lease = run[q].lease
    BY <1>1, LeaseStep
  <2> QED
    BY <1>0, <1>1, <2>1, <2>2 DEF Gone
<1>2. ASSUME run[q].status = "unused", pc'[q] # "setupSweep", ~ Finish(q)  PROVE Gone(q)'
  BY <1>0, <1>2, StatusesStep DEF Gone
<1>3. ASSUME Gone(q), ~ Renewals(q), pc'[q] # "setupSweep", ~ Finish(q)  PROVE Gone(q)'
  BY <1>1, <1>2, <1>3
<1>4. CASE Untouched(q) /\ ~ Renewals(q) /\ ~ Finish(q)
  BY <1>0, <1>3, <1>4, Forward DEF Untouched
<1>5. CASE SettleWrite(q)
  BY <1>0, <1>5, SettleWriteOutcome DEF Same
<1>6. CASE Finish(q)
  <2>1. CASE Goto(q, "sweep") /\ \E status \in {"completed", "failed"} : Finishes(q, status)
    BY <1>0, <2>1 DEF Finishes, Gone
  <2>2. CASE Same /\ Goto(q, "lost")
    <3>1. ~ LiveRun(q, clock)
      BY <1>0, <1>6, <2>2
         DEF Finish, FinishRun, Same, vars, Loop, SettingUp, Ending, Draining
    <3> QED
      BY <1>0, <2>2, <3>1 DEF Same, Gone, LiveRun
  <2> QED
    BY <1>6, <2>1, <2>2, FinishOutcome
<1>7. CASE Renewals(q)
  <2>1. CASE \E t \in 0..clock : pc' = pc \/ (pc[q] = "renew" /\ Goto(q, "settle"))
    BY <1>0, <1>7, <2>1
       DEF Renewals, SetupRenew, Renew, DrainRenew, SettingUp, Draining
  <2>2. CASE Same /\ run[q].status # "running"
    BY <1>0, <1>7, <2>2
       DEF Same, Gone, Renewals, SetupRenew, Renew, DrainRenew, SettingUp, Draining
  <2>3. CASE Cancels({q})
    BY <1>0, <1>7, <2>3
       DEF Cancels, Gone, Renewals, SetupRenew, Renew, DrainRenew, SettingUp, Draining
  <2> QED
    BY <1>7, <2>1, <2>2, <2>3, RenewalsOutcome
<1>8. CASE Interrupts(q)
  BY <1>0, <1>8, InterruptsOutcome DEF Same, Cancels, Gone
<1>9. CASE Acquire(q)
  <2>1. pc[q] = "acquire" /\ pc'[q] \in {"sweep", "setupSweep"}
    BY <1>0, <1>9 DEF Acquire
  <2> QED
    BY <1>0, <1>2, <2>1 DEF Finish
<1>10. CASE Quiet(q)
  <2>1. ~ Renewals(q) /\ ~ Finish(q) => (Gone(q) /\ pc'[q] # "setupSweep" => Gone(q)')
    BY <1>3
  <2>2. run' = run /\ clock' = clock
    BY <1>10, QuietIsSame DEF vars
  <2>3. Gone(q)' <=> Gone(q)
    BY <2>2 DEF Gone
  <2>4. CASE FillLost(q)
    BY <1>0, <2>2, <2>4 DEF FillLost, LiveRun, Gone
  <2> HIDE DEF IInv
  <2>5. CASE ~ FillLost(q) /\ ~ Turns(q)
    BY <1>0, <1>10, <2>2, <2>3, <2>5
       DEF Quiet, SetupDone, SetupFails, Top, SettleRead, SettleDone, Submit,
           Register, Drained, LostCancel, LostDrained, ExecutorExit, UserCancels,
           KeyboardInterrupt, Crash, Loop, SettingUp, Gone
  <2>6. CASE Turns(q)
    BY <1>0, <2>2, <2>3, <2>6
       DEF Turns, FinishRead, DisplayFails, StoreFails, Loop, SettingUp
  <2> QED
    BY <2>4, <2>5, <2>6
<1>11. CASE Sweeps(q)
  <2>1. ~ Renewals(q) /\ ~ Finish(q) /\ pc'[q] # "setupSweep"
    BY <1>0, <1>11
       DEF Sweeps, Begin, SetupSweep, LastSweep, SetupInterruptFails, Renewals,
           SetupRenew, Renew, DrainRenew, Finish, SettingUp, Draining
  <2> QED
    BY <1>0, <1>3, <1>11, <2>1
       DEF Sweeps, Begin, SetupSweep, LastSweep, SetupInterruptFails
<1>12. CASE FillClaim(q) \/ FillDone(q)
  BY <1>0, <1>12 DEF FillClaim, FillDone
<1> QED
  BY OwnStep, <1>4, <1>5, <1>6, <1>7, <1>8, <1>9, <1>10, <1>11, <1>12 DEF Touches

LEMMA InvariantInit == SchedulerInit => IInv
<1> SUFFICES ASSUME SchedulerInit  PROVE IInv
  OBVIOUS
<1>1. TypeOK /\ Safety
  BY InitType, InitSafe DEF SchedulerInit
<1>2. SchedulerTypeOK
  BY <1>1, ConstantsAssumption, SchedulerAssumption
     DEF SchedulerInit, SchedulerTypeOK, TypeOK
<1>3. /\ \A c \in Claim : claim[c].status = "unused"
      /\ \A r \in Run : run[r].status = "unused"
      /\ OpenClaims = {} /\ clock = 0
  BY DEF SchedulerInit, Init, UnusedClaim, UnusedRun, OpenClaims
<1>4. Placed
  BY <1>3 DEF SchedulerInit, Placed, Process, ClaimsOf, SettingUp, Loop, Draining
<1>5. Leased /\ Closed /\ Accounted
  BY <1>3 DEF Leased, Closed, Accounted
<1>6. Threaded /\ Settling /\ Finishing /\ Leaving /\ EndedProcessLeavesNoLiveRun
  BY <1>3 DEF SchedulerInit, Threaded, Working, Settling, Finishing, Final, Leaving,
              EndedProcessLeavesNoLiveRun
<1> QED
  BY <1>1, <1>2, <1>4, <1>5, <1>6 DEF IInv

LEMMA InvariantNext == IInv /\ [SchedulerNext]_allVars => IInv'
<1> SUFFICES ASSUME IInv, [SchedulerNext]_allVars  PROVE IInv'
  OBVIOUS
<1>1. CASE SchedulerNext
  BY <1>1, StoreStep, TypesStep, PlacedStep, LeasedStep, ClosedStep, ThreadedStep,
     SettlingStep, AccountedStep, FinishingStep, EndedStep DEF IInv
<1>2. CASE UNCHANGED allVars
  <2>1. SchedulerTypeOK' /\ Safety'
    BY <1>2
       DEF allVars, vars, threadVars, IInv, SchedulerTypeOK, TypeOK, Safety, RowsAreLinked,
           LinkedClaim, LinkedAttempt, OneRunPerBorg, OpenClaimIsBacked, Backed,
           OpenClaims, ActiveTaskIsClaimed, DependenciesDone, CompletedRunIsComplete,
           OpenAttemptIsBacked, TasksOf
  <2>2. Placed' /\ Leased' /\ Closed' /\ Threaded' /\ Settling' /\ Accounted'
    BY <1>2
       DEF allVars, vars, threadVars, IInv, Placed, ClaimsOf, Leased, Closed, Threaded,
           Working, Registered, Settling, Accounted, Followed, Overdue, OpenClaims
  <2>3. Finishing' /\ Leaving' /\ EndedProcessLeavesNoLiveRun'
    BY <1>2
       DEF allVars, vars, threadVars, IInv, Finishing, LiveRun, Stuck, TasksOf, AllDone,
           Leaving, Gone, EndedProcessLeavesNoLiveRun
  <2> QED
    BY <2>1, <2>2, <2>3 DEF IInv
<1> QED
  BY <1>1, <1>2

\* A task that has ended stays so, and a claim that owns its task does so until
\* its own process interrupts its run.
LEMMA OwnsStep ==
    ASSUME IInv, SchedulerNext, NEW c \in Claim, claim[c].status # "unused", Owns(c),
           ~ Interrupts(claim[c].run)
    PROVE  Owns(c)'
<1> DEFINE t == claim[c].task
<1>0. /\ t \in Task /\ claim[c].run \in Process
      /\ claim[c].status \in {"open", "released"}
      /\ clock \in Nat /\ claim[c].lease \in Nat
      /\ claim[c].status = "open" => claim[c].lease = run[claim[c].run].lease
      /\ \A d \in OpenClaims : runtime[claim[d].task].status \in ActiveStatus
  BY Numbers
     DEF IInv, Safety, RowsAreLinked, LinkedClaim, SchedulerTypeOK, TypeOK, Process,
         ClaimRecord, Leased, OpenClaims, OpenClaimIsBacked, Backed
<1>1. claim'[c].task = t
  BY Forward
<1> HIDE DEF IInv, t
<1> SUFFICES \/ claim'[c].status = "open"
             \/ runtime'[t].status \in TerminalStatus
             \/ claim'[c].lease <= clock'
  BY <1>1 DEF Owns
<1> DEFINE G == \/ claim'[c].status = "open"
                \/ runtime'[t].status \in TerminalStatus
                \/ claim'[c].lease <= clock'
<1>2. \/ claim[c].status = "open"
      \/ runtime[t].status \in TerminalStatus
      \/ claim[c].status = "released" /\ claim[c].lease <= clock
  BY <1>0 DEF Owns, t
<1>3. runtime[t].status \in TerminalStatus => \A d \in OpenClaims : claim[d].task # t
  BY <1>0
<1>4. ASSUME Later  PROVE G
  BY <1>0, <1>2, <1>4 DEF Later
<1>5. ASSUME NEW R, Cancels(R), claim[c].run \notin R \/ R \subseteq ExpiredRuns(clock)
      PROVE  G
  BY <1>0, <1>2, <1>3, <1>5 DEF Cancels, Releases, Returns, ExpiredRuns, OpenClaims
<1>6. ASSUME NEW p, NEW g, NEW R \in SUBSET ExpiredRuns(clock), Begins(p, g, R)  PROVE G
  BY <1>0, <1>2, <1>3, <1>6 DEF Begins, Releases, Returns, ExpiredRuns, OpenClaims
<1>7. ASSUME NEW p, NEW s, Renews(p, s)  PROVE G
  BY <1>2, <1>7 DEF Renews
<1>8. ASSUME NEW p, NEW d \in Claim, NEW s, Takes(p, d, s)  PROVE G
  BY <1>0, <1>2, <1>8 DEF Takes
<1>9. ASSUME NEW p, NEW d \in Claim, NEW new, Moves(p, d, new)  PROVE G
  BY <1>0, <1>2, <1>3, <1>9 DEF Moves, LiveClaim, OpenClaims, t
<1>10. ASSUME NEW p, NEW status, Finishes(p, status)  PROVE G
  BY <1>2, <1>10 DEF Finishes
<1>11. ASSUME NEW p \in Process, Interrupts(p), Cancels({p})  PROVE G
  <2>1. claim[c].run \notin {p}
    BY <1>11
  <2> QED
    BY <1>5, <1>11, <2>1
<1> HIDE DEF G
<1>12. G
  BY Effects, <1>4, <1>5, <1>6, <1>7, <1>8, <1>9, <1>10, <1>11
<1> QED
  BY <1>12 DEF G

\* Without keyboard interrupts a process ends its run only after its threads.
LEMMA OwningStep ==
    ASSUME ~ KeyboardInterrupts, IInv, Owning, [SchedulerNext]_allVars
    PROVE  Owning'
<1> USE DEF Process, Goto
<1>0. /\ Threaded /\ Owning
      /\ \A p \in Process : /\ pc[p] = "submit" => held[p] \in ClaimsOf(p)
                            /\ pc[p] \in SettingUp \cup {"setupFailed"} => ClaimsOf(p) = {}
      /\ \A c \in Claim : claim[c].status # "unused" => claim[c].run \in Run
      /\ pc \in [Process -> SettingUp \cup Loop \cup Ending \cup Over
                            \cup {"idle", "acquire"}]
      /\ held \in [Process -> Claim \cup {NoRow}]
  BY DEF IInv, Placed, SchedulerTypeOK, Safety, RowsAreLinked, LinkedClaim
<1>1. CASE UNCHANGED allVars
  BY <1>0, <1>1 DEF allVars, vars, threadVars, Owning, RunningWorkerOwnsItsTask, Owns
<1>2. CASE SchedulerNext
  <2>1. \A p \in Process : Interrupts(p) => pc[p] \in {"setupFailed", "interrupt"}
    BY DEF Interrupts, SetupInterrupt, Interrupt
  <2>2. ASSUME NEW c \in Claim, worker[c] = "running"
        PROVE  /\ claim[c].status # "unused" /\ Owns(c)
               /\ ~ Interrupts(claim[c].run)
    <3>1. claim[c].status # "unused" /\ Owns(c) /\ c \in Working(Claim)
      BY <1>0, <2>2 DEF Threaded, Owning, RunningWorkerOwnsItsTask, Owns, Working
    <3>2. claim[c].run \in Process /\ c \in ClaimsOf(claim[c].run)
      BY <1>0, <3>1 DEF ClaimsOf
    <3>3. pc[claim[c].run] # "setupFailed"
      BY <1>0, <3>1, <3>2
    <3>4. pc[claim[c].run] # "interrupt"
      BY <1>0, <2>2, <3>1, <3>2 DEF Threaded, Registered, Working
    <3> QED
      BY <2>1, <3>1, <3>2, <3>3, <3>4
  <2>3. ASSUME NEW p \in Process, pc[p] = "submit"
        PROVE  /\ held[p] \in Claim /\ claim[held[p]].status # "unused" /\ Owns(held[p])
               /\ held[p] \in ClaimsOf(p) /\ ~ Interrupts(claim[held[p]].run)
    BY <1>0, <2>1, <2>3 DEF Owning, ClaimsOf
  <2> HIDE DEF IInv
  <2>4. RunningWorkerOwnsItsTask'
    <3> SUFFICES ASSUME NEW c \in Claim, worker'[c] = "running"  PROVE Owns(c)'
      BY DEF RunningWorkerOwnsItsTask, Owns
    <3>1. CASE worker[c] = "running"
      BY <1>2, <2>2, <3>1, OwnsStep
    <3>2. CASE worker[c] # "running"
      <4>1. PICK p \in Process : Submit(p) /\ c = held[p]
        BY <1>2, <3>2, WorkersStep DEF WorkerEnd
      <4>2. pc[p] = "submit"
        BY <4>1 DEF Submit
      <4> QED
        BY <1>2, <2>3, <4>1, <4>2, OwnsStep
    <3> QED
      BY <3>1, <3>2
  <2>5. ASSUME NEW p \in Process, pc'[p] = "submit"  PROVE Owns(held[p])'
    <3>1. CASE FillClaim(p)
      <4>1. PICK c \in Claim, t \in Task : Takes(p, c, t) /\ held' = [held EXCEPT ![p] = c]
        BY <1>2, <3>1, FillClaimOutcome
      <4> QED
        BY <1>0, <4>1 DEF Takes, Owns
    <3>2. CASE ~ FillClaim(p)
      <4>1. Untouched(p)
        <5>1. CASE Quiet(p)
          BY <1>0, <2>5, <5>1
             DEF Quiet, SetupDone, SetupFails, Top, SettleRead, SettleDone, FillLost,
                 Submit, Register, Drained, LostCancel, LostDrained, ExecutorExit, Turns,
                 FinishRead, DisplayFails, StoreFails,
                 UserCancels, KeyboardInterrupt, Crash, Untouched, Loop, SettingUp
        <5>2. CASE Sweeps(p) \/ Acquire(p) \/ Renewals(p)
          BY <1>0, <2>5, <5>2
             DEF Sweeps, Begin, SetupSweep, LastSweep, SetupInterruptFails, Acquire,
                 Renewals, SetupRenew,
                 Renew, DrainRenew, SettingUp, Draining
        <5>3. CASE Interrupts(p) \/ SettleWrite(p) \/ FillDone(p) \/ Finish(p)
          BY <1>0, <2>5, <5>3
             DEF Interrupts, SetupInterrupt, Interrupt, SettleWrite, FillDone, Finish
        <5> QED
          BY <1>2, <3>2, <5>1, <5>2, <5>3, OwnStep DEF Touches
      <4>2. pc[p] = "submit" /\ held'[p] = held[p]
        BY <2>5, <4>1 DEF Untouched
      <4>3. PICK c \in Claim : c = held[p]
        BY <2>3, <4>2
      <4>4. Owns(c)'
        BY <1>2, <2>3, <4>2, <4>3, OwnsStep
      <4> QED
        BY <4>2, <4>3, <4>4 DEF Owns
    <3> QED
      BY <3>1, <3>2
  <2> QED
    BY <2>4, <2>5 DEF Owning
<1> QED
  BY <1>1, <1>2

--------------------------------------------------------------------------------
(***************************************************************************)
(* Theorems.                                                               *)
(***************************************************************************)
\* What the processes know of their runs and claims always holds.
THEOREM SchedulerInvariant == SchedulerSpec => []IInv
<1>1. SchedulerInit => IInv
  BY InvariantInit
<1>2. IInv /\ [SchedulerNext]_allVars => IInv'
  BY InvariantNext
<1> QED
  BY <1>1, <1>2, PTL DEF SchedulerSpec

\* Every variable of the tables, the main threads and the workers keeps its type.
THEOREM SchedulerTypes == SchedulerSpec => []SchedulerTypeOK
<1>1. IInv => SchedulerTypeOK
  BY DEF IInv
<1> QED
  BY <1>1, SchedulerInvariant, PTL

\* The tables stay consistent under the scheduler, although it renews leases with
\* readings of any age (_SetupLeaseHeartbeats, _run_acquired).
THEOREM TablesStaySafe == SchedulerSpec => []Safety
<1>1. IInv => Safety
  BY DEF IInv
<1> QED
  BY <1>1, SchedulerInvariant, PTL

\* Whatever process ends other than by a crash or by an error of its display or
\* store leaves no run that lives, and one whose own write is rejected for another
\* reason than lost ownership has lost its run to somebody else: what it had
\* claimed is back on the board, or is put there by the next sweep
\* (HostTaskScheduler._run_acquired, HostExecutionService.run).
THEOREM EndedProcesses == SchedulerSpec => []EndedProcessLeavesNoLiveRun
<1>1. IInv => EndedProcessLeavesNoLiveRun
  BY DEF IInv
<1> QED
  BY <1>1, SchedulerInvariant, PTL

\* A run ends as failed only when each of its pending tasks waits for one that is
\* not done: no task that could have been started is given up (_finish).
THEOREM FailedRunsAreStuck == SchedulerSpec => FailedRunLeavesNothingReady
<1> DEFINE A == \A p \in Process :
                   run[p].status = "running" /\ run'[p].status = "failed" =>
                     \A t \in TasksOf(run[p].gen) :
                        runtime[t].status = "pending" =>
                          \E d \in Dependencies[t] : runtime[d].status # "done"
<1>1. IInv /\ SchedulerNext => A
  <2> SUFFICES ASSUME IInv, SchedulerNext, NEW p \in Process,
                      run[p].status = "running", run'[p].status = "failed"
               PROVE  \A t \in TasksOf(run[p].gen) :
                        runtime[t].status = "pending" => Stuck(t)
    BY DEF Stuck
  <2>1. Finish(p)
    BY StatusesStep
  <2>2. LiveRun(p, clock) /\ pc[p] \in Finished
    <3>1. ~ Same
      BY DEF Same
    <3>2. \A status : Finishes(p, status) => LiveRun(p, clock)
      BY DEF Finishes
    <3> QED
      BY <2>1, <3>1, <3>2, FinishOutcome
  <2> QED
    BY <2>2 DEF IInv, Finishing, Final
<1>2. UNCHANGED allVars => A
  BY DEF allVars, vars
<1>3. IInv /\ [SchedulerNext]_allVars => A
  BY <1>1, <1>2
<1> QED
  <2> HIDE DEF A
  <2>1. SchedulerSpec => [][A]_allVars
    BY <1>3, SchedulerInvariant, PTL DEF SchedulerSpec
  <2> QED
    BY <2>1 DEF FailedRunLeavesNothingReady, A

\* Where no SIGINT reaches the main thread, live work keeps its task until the
\* lease it was given has really run out: no renewal, no settlement, no sweep by
\* another process and no end of the run takes it away before.  With a SIGINT it
\* may be lost, between the submission of a task and its entry in the table.
THEOREM LiveWorkKeepsItsTask ==
    ASSUME ~ KeyboardInterrupts
    PROVE  SchedulerSpec => []RunningWorkerOwnsItsTask
<1>1. SchedulerInit => Owning
  BY DEF SchedulerInit, Owning, RunningWorkerOwnsItsTask
<1>2. IInv /\ Owning /\ [SchedulerNext]_allVars => Owning'
  BY OwningStep
<1>3. Owning => RunningWorkerOwnsItsTask
  BY DEF Owning
<1> QED
  BY <1>1, <1>2, <1>3, SchedulerInvariant, PTL DEF SchedulerSpec
================================================================================
