---------------------------- MODULE ExecutionStore ----------------------------
(***************************************************************************)
(* The durable execution tables of store/sqlite.py: task generations,      *)
(* execution runs with their leases, task claims, task runtimes, and       *)
(* environment and agent attempts.                                         *)
(*                                                                         *)
(* Every public operation is one BEGIN IMMEDIATE transaction, so it is one *)
(* action here.  An operation that raises rolls back and is a stutter; the *)
(* two that commit before they raise (a renewal or an acquisition that     *)
(* finds the lease expired) are actions.  Callers are any number of        *)
(* processes, live or long dead: a caller is known by the run whose owner  *)
(* token it holds, and any run may be used by its caller at any moment.    *)
(*                                                                         *)
(* A caller reads its wall clock before it waits for SQLite's write lock,  *)
(* so the reading it brings may be older than the moment it commits.       *)
(***************************************************************************)
EXTENDS Integers, FiniteSets

CONSTANTS
    Borg,           \* Borgs sharing the store
    Generation,     \* task generations, each of one Borg
    Task,           \* task records, each of one generation
    Run, Claim, Attempt,      \* row identities, allocated at most once
    Identity,       \* (branch, worktree path) pairs a task may be given
    NoIdentity,     \* both columns NULL
    NoRow,          \* NULL in a foreign key
    BorgOf,         \* task_generations.borg_id
    GenerationOf,   \* task_records.generation_id
    Dependencies,   \* task_dependencies
    Position,       \* task_records.position
    ResumePhase,    \* phases callers pass as resume_phase
    LeaseDuration,  \* HostSchedulerConfig.lease_duration, in ticks
    Explored,       \* bound: the statuses tasks are moved to
    MaxReviewRound, \* bound on review_round
    MaxTime,        \* bound on the clock
    MaxSkew         \* how old a caller's clock reading may be at commit

ActiveStatus == {"claimed", "environment", "coding", "review", "fix", "merging"}
TerminalStatus == {"done", "blocked", "failed"}
TaskStatus == {"pending"} \cup ActiveStatus \cup TerminalStatus

ASSUME ConstantsAssumption ==
    /\ BorgOf \in [Generation -> Borg]
    /\ GenerationOf \in [Task -> Generation]
    /\ Dependencies \in [Task -> SUBSET Task]
    /\ \A t \in Task : \A d \in Dependencies[t] :
         GenerationOf[d] = GenerationOf[t]
    /\ Position \in [Task -> Nat]
    /\ ResumePhase \subseteq TaskStatus
    /\ Explored \subseteq TaskStatus
    /\ LeaseDuration \in Nat \ {0}
    /\ MaxReviewRound \in Nat
    /\ MaxTime \in Nat
    /\ MaxSkew \in Nat
    /\ NoRow \notin Run \cup Claim
    /\ NoIdentity \notin Identity

VARIABLES
    clock,       \* real time
    generation,  \* task_generations.status
    run,         \* execution_runs
    claim,       \* task_claims
    runtime,     \* task_runtimes
    attempt      \* environment_attempts and agent_attempts with their events

vars == <<clock, generation, run, claim, runtime, attempt>>

(***************************************************************************)
(* Legal phase moves: _TASK_TRANSITIONS.  "pending" has no entry.          *)
(***************************************************************************)
Successors(status) ==
    CASE status = "claimed"     -> (ActiveStatus \cup TerminalStatus) \ {"claimed"}
      [] status = "environment" -> {"coding"} \cup TerminalStatus
      [] status = "coding"      -> {"review"} \cup TerminalStatus
      [] status = "review"      -> {"fix", "merging"} \cup TerminalStatus
      [] status = "fix"         -> {"review"} \cup TerminalStatus
      [] status = "merging"     -> TerminalStatus
      [] OTHER                  -> {}

\* Rows not yet inserted have status "unused" (or "absent" for a runtime).
UnusedRun == [status |-> "unused", gen |-> NoRow, lease |-> 0]
UnusedClaim ==
    [status |-> "unused", run |-> NoRow, task |-> NoRow, lease |-> 0,
     resume |-> "pending"]
UnusedAttempt ==
    [status |-> "unused", run |-> NoRow, claim |-> NoRow, task |-> NoRow]
AbsentRuntime ==
    [status |-> "absent", resume |-> "environment", round |-> 0,
     identity |-> NoIdentity, lastRun |-> NoRow]
NewRuntime == [AbsentRuntime EXCEPT !.status = "pending"]

(***************************************************************************)
(* Reading the tables.                                                     *)
(***************************************************************************)
Readings == {now \in 0..clock : clock <= now + MaxSkew}

TasksOf(g) == {t \in Task : GenerationOf[t] = g}
RunningOf(b) ==
    {r \in Run : run[r].status = "running" /\ BorgOf[run[r].gen] = b}
ExpiredRuns(now) ==
    {r \in Run : run[r].status = "running" /\ run[r].lease <= now}

OpenClaims == {c \in Claim : claim[c].status = "open"}
ClaimsOfRuns(R) == {c \in OpenClaims : claim[c].run \in R}
ExpiredClaims(r, now) == {c \in ClaimsOfRuns({r}) : claim[c].lease <= now}

\* _require_live_run and _require_live_claim, for a caller holding the tokens.
\* Mutant: the status of the run is not looked at.
LiveRunByLeaseAlone(r, now) == run[r].status # "unused" /\ now < run[r].lease
LiveRun(r, now) == run[r].status = "running" /\ now < run[r].lease
\* Mutant: the lease of the claim is not looked at.
LiveClaimByRunAlone(r, c, now) ==
    LiveRun(r, now) /\ claim[c].status = "open" /\ claim[c].run = r
LiveClaim(r, c, now) ==
    /\ LiveRun(r, now)
    /\ claim[c].status = "open"
    /\ claim[c].run = r
    /\ now < claim[c].lease

(***************************************************************************)
(* Reconciliation: the successor tables after the claims C are released,   *)
(* their active tasks returned to pending, and open attempts interrupted.  *)
(***************************************************************************)
Released(C) ==
    [c \in Claim |-> IF c \in C THEN [claim[c] EXCEPT !.status = "released"]
                     ELSE claim[c]]

\* Mutant: only tasks still in their first phase go back to pending.
RequeuedIfClaimed(C) ==
    [t \in Task |-> IF runtime[t].status = "claimed" /\ \E c \in C : claim[c].task = t
                    THEN [runtime[t] EXCEPT !.status = "pending"] ELSE runtime[t]]

\* Mutant: a requeued task starts over.
RequeuedFromScratch(C) ==
    [t \in Task |->
        IF runtime[t].status \in ActiveStatus /\ \E c \in C : claim[c].task = t
        THEN [runtime[t] EXCEPT !.status = "pending", !.resume = "environment"]
        ELSE runtime[t]]

Requeued(C) ==
    [t \in Task |->
        IF /\ runtime[t].status \in ActiveStatus
           /\ \E c \in C : claim[c].task = t
        THEN [runtime[t] EXCEPT !.status = "pending"]
        ELSE runtime[t]]

Interrupted(A) ==
    [a \in Attempt |-> IF a \in A THEN [attempt[a] EXCEPT !.status = "interrupted"]
                       ELSE attempt[a]]

\* Mutant: an interrupted run closes only the attempts it owns by itself.
PreflightAttemptsOfRuns(R) ==
    {a \in Attempt : /\ attempt[a].status = "running"
                     /\ attempt[a].run \in R
                     /\ attempt[a].claim = NoRow}

AttemptsOfRuns(R) ==
    {a \in Attempt : attempt[a].status = "running" /\ attempt[a].run \in R}
AttemptsOfClaims(C) ==
    {a \in Attempt : attempt[a].status = "running" /\ attempt[a].claim \in C}

\* _interrupt_run applied to every run of R.
Cancelled(R) ==
    [r \in Run |-> IF r \in R THEN [run[r] EXCEPT !.status = "cancelled"]
                   ELSE run[r]]

InterruptRuns(R) ==
    /\ run' = Cancelled(R)
    /\ claim' = Released(ClaimsOfRuns(R))
    /\ runtime' = Requeued(ClaimsOfRuns(R))
    /\ attempt' = Interrupted(AttemptsOfRuns(R))

(***************************************************************************)
(* Task generations.                                                       *)
(***************************************************************************)
\* Mutant: the generation being replaced stays current.
PromoteWithoutSuperseding(g) ==
    /\ generation[g] = "preparing"
    /\ generation' = [generation EXCEPT ![g] = "current"]
    /\ UNCHANGED <<clock, run, claim, runtime, attempt>>

\* _promote_published_task_generation: runs of the old generation go on.
Promote(g) ==
    /\ generation[g] = "preparing"
    /\ generation' =
         [h \in Generation |->
            IF h = g THEN "current"
            ELSE IF BorgOf[h] = BorgOf[g] /\ generation[h] = "current"
                 THEN "superseded" ELSE generation[h]]
    /\ UNCHANGED <<clock, run, claim, runtime, attempt>>

(***************************************************************************)
(* Execution runs.                                                         *)
(***************************************************************************)
\* Mutant: a live run is looked for on the generation, not on the Borg.
AcquireRunPerGeneration(g, r, now) ==
    LET live == {s \in RunningOf(BorgOf[g]) : run[s].gen = g}
    IN  /\ generation[g] = "current"
        /\ live \subseteq ExpiredRuns(now)
        /\ run[r].status = "unused"
        /\ run' = [Cancelled(live) EXCEPT
                     ![r] = [status |-> "running", gen |-> g,
                             lease |-> now + LeaseDuration]]
        /\ claim' = Released(ClaimsOfRuns(live))
        /\ runtime' = [t \in Task |->
                         IF t \in TasksOf(g) /\ runtime[t].status = "absent"
                         THEN NewRuntime ELSE Requeued(ClaimsOfRuns(live))[t]]
        /\ attempt' = Interrupted(AttemptsOfRuns(live))
        /\ UNCHANGED <<clock, generation>>

\* acquire_execution_run by a caller that gets the new run r.  A live run of
\* the Borg makes it an observer instead, which writes nothing.
AcquireRun(g, r, now) ==
    LET live == RunningOf(BorgOf[g])
        expired == live \cap ExpiredRuns(now)
        cleared == Requeued(ClaimsOfRuns(expired))
    IN  /\ generation[g] = "current"
        /\ live = expired
        /\ run[r].status = "unused"
        /\ run' = [Cancelled(expired) EXCEPT
                     ![r] = [status |-> "running", gen |-> g,
                             lease |-> now + LeaseDuration]]
        /\ claim' = Released(ClaimsOfRuns(expired))
        /\ runtime' = [t \in Task |->
                         IF t \in TasksOf(g) /\ runtime[t].status = "absent"
                         THEN NewRuntime ELSE cleared[t]]
        /\ attempt' = Interrupted(AttemptsOfRuns(expired))
        /\ UNCHANGED <<clock, generation>>

\* Mutant: a lease is extended from its end, not from the caller's clock.
RenewRunFromItsEnd(r, now) ==
    LET lost == ExpiredClaims(r, now)
        until == run[r].lease + LeaseDuration
    IN  /\ LiveRun(r, now)
        /\ run' = [run EXCEPT ![r].lease = until]
        /\ claim' = [c \in Claim |->
                       IF c \in ClaimsOfRuns({r}) \ lost
                       THEN [claim[c] EXCEPT !.lease = until]
                       ELSE Released(lost)[c]]
        /\ runtime' = Requeued(lost)
        /\ attempt' = Interrupted(AttemptsOfClaims(lost))
        /\ UNCHANGED <<clock, generation>>

\* renew_execution_run on a lease still live: expired claims are reconciled,
\* and the run and its remaining claims get the new lease.
RenewRun(r, now) ==
    LET lost == ExpiredClaims(r, now)
        kept == ClaimsOfRuns({r}) \ lost
    IN  /\ LiveRun(r, now)
        /\ run' = [run EXCEPT ![r].lease = now + LeaseDuration]
        /\ claim' = [c \in Claim |->
                       IF c \in kept
                       THEN [claim[c] EXCEPT !.lease = now + LeaseDuration]
                       ELSE Released(lost)[c]]
        /\ runtime' = Requeued(lost)
        /\ attempt' = Interrupted(AttemptsOfClaims(lost))
        /\ UNCHANGED <<clock, generation>>

\* renew_execution_run on an expired lease commits the interruption, then
\* raises ExecutionOwnershipError.
RenewExpired(r, now) ==
    /\ run[r].status = "running"
    /\ run[r].lease <= now
    /\ InterruptRuns({r})
    /\ UNCHANGED <<clock, generation>>

\* Mutant: a run is complete once nothing is left to do.
FinishRunWhenSettled(r, status, now) ==
    /\ LiveRun(r, now)
    /\ LET statuses == {runtime[t].status : t \in TasksOf(run[r].gen)}
       IN  /\ statuses \cap ActiveStatus = {}
           /\ status = IF statuses \subseteq TerminalStatus THEN "completed"
                       ELSE "failed"
    /\ run' = [run EXCEPT ![r].status = status]
    /\ UNCHANGED <<clock, generation, claim, runtime, attempt>>

\* finish_execution_run
FinishRun(r, status, now) ==
    LET statuses == {runtime[t].status : t \in TasksOf(run[r].gen)}
    IN  /\ LiveRun(r, now)
        /\ statuses \cap ActiveStatus = {}
        /\ status = IF statuses \subseteq {"done"} THEN "completed" ELSE "failed"
        /\ run' = [run EXCEPT ![r].status = status]
        /\ UNCHANGED <<clock, generation, claim, runtime, attempt>>

\* interrupt_execution_run; on a run that has already ended it writes nothing.
InterruptRun(r) ==
    /\ run[r].status = "running"
    /\ InterruptRuns({r})
    /\ UNCHANGED <<clock, generation>>

\* reconcile_expired_execution_runs, on every Borg
SweepExpiredRuns(now) ==
    /\ ExpiredRuns(now) # {}
    /\ InterruptRuns(ExpiredRuns(now))
    /\ UNCHANGED <<clock, generation>>

(***************************************************************************)
(* Task claims and task runtimes.                                          *)
(***************************************************************************)
\* Mutants: a dependency that has ended will do; and only the first pending task
\* is considered.
ReadyOnceSettled(r, lost) ==
    {t \in TasksOf(run[r].gen) :
        /\ Requeued(lost)[t].status = "pending"
        /\ \A c \in OpenClaims \ lost : claim[c].task # t
        /\ \A d \in Dependencies[t] : runtime[d].status \in TerminalStatus}
ReadyAtTheHead(r, lost) ==
    LET waiting == {t \in TasksOf(run[r].gen) : Requeued(lost)[t].status = "pending"}
    IN  {t \in waiting :
            /\ \A u \in waiting : Position[t] <= Position[u]
            /\ \A d \in Dependencies[t] : runtime[d].status = "done"}

\* The tasks of run r that could be claimed once the claims in lost are gone.
Ready(r, lost) ==
    {t \in TasksOf(run[r].gen) :
        /\ Requeued(lost)[t].status = "pending"
        /\ \A c \in OpenClaims \ lost : claim[c].task # t
        /\ \A d \in Dependencies[t] : runtime[d].status = "done"}

First(S) == {t \in S : \A u \in S : Position[t] <= Position[u]}

\* Mutant: the claim's lease is not capped by the run's.
Uncapped(m, n) == m
Smaller(m, n) == IF m <= n THEN m ELSE n

\* claim_dependency_ready_task that returns a claim
ClaimTask(r, c, now) ==
    LET lost == ExpiredClaims(r, now)
    IN  /\ LiveRun(r, now)
        /\ claim[c].status = "unused"
        /\ \E t \in First(Ready(r, lost)) :
             /\ claim' = [Released(lost) EXCEPT
                            ![c] = [status |-> "open", run |-> r, task |-> t,
                                    lease |-> Smaller(now + LeaseDuration,
                                                      run[r].lease),
                                    resume |-> runtime[t].resume]]
             /\ runtime' = [Requeued(lost) EXCEPT
                              ![t] = [@ EXCEPT !.status = "claimed",
                                               !.lastRun = r]]
        /\ attempt' = Interrupted(AttemptsOfClaims(lost))
        /\ UNCHANGED <<clock, generation, run>>

\* claim_dependency_ready_task that returns None still commits the
\* reconciliation of expired claims.
ClaimNothing(r, now) ==
    LET lost == ExpiredClaims(r, now)
    IN  /\ LiveRun(r, now)
        /\ Ready(r, lost) = {}
        /\ lost # {}
        /\ claim' = Released(lost)
        /\ runtime' = Requeued(lost)
        /\ attempt' = Interrupted(AttemptsOfClaims(lost))
        /\ UNCHANGED <<clock, generation, run>>

\* transition_task_runtime: compare-and-set of one phase under both leases.
\* A terminal status releases the claim; open attempts are left as they are.
TransitionTask(r, c, expected, new, resume, round, now) ==
    LET t == claim[c].task
    IN  /\ new \in Successors(expected)
        /\ LiveClaim(r, c, now)
        /\ runtime[t].status = expected
        /\ runtime' = [runtime EXCEPT
                         ![t] = [@ EXCEPT !.status = new, !.resume = resume,
                                          !.round = round]]
        /\ claim' = IF new \in TerminalStatus THEN Released({c}) ELSE claim
        /\ UNCHANGED <<clock, generation, run, attempt>>

\* assign_task_worktree, and the branch arguments of transition_task_runtime
AssignWorktree(r, t, identity, now) ==
    /\ LiveRun(r, now)
    /\ t \in TasksOf(run[r].gen)
    /\ runtime[t].identity = NoIdentity
    /\ runtime' = [runtime EXCEPT ![t].identity = identity]
    /\ UNCHANGED <<clock, generation, run, claim, attempt>>

(***************************************************************************)
(* Attempts.  A preflight environment attempt is owned by the run alone.   *)
(***************************************************************************)
\* append_environment_attempt with claim_id None
AppendRunAttempt(r, t, a, now) ==
    /\ LiveRun(r, now)
    /\ t \in TasksOf(run[r].gen)
    /\ attempt[a].status = "unused"
    /\ attempt' = [attempt EXCEPT ![a] =
                     [status |-> "running", run |-> r, claim |-> NoRow,
                      task |-> t]]
    /\ UNCHANGED <<clock, generation, run, claim, runtime>>

\* append_environment_attempt or append_agent_attempt under a claim
AppendClaimAttempt(r, c, a, now) ==
    /\ LiveClaim(r, c, now)
    /\ attempt[a].status = "unused"
    /\ attempt' = [attempt EXCEPT ![a] =
                     [status |-> "running", run |-> r, claim |-> c,
                      task |-> claim[c].task]]
    /\ UNCHANGED <<clock, generation, run, claim, runtime>>

\* complete_environment_attempt and complete_agent_attempt
CompleteAttempt(a, now) ==
    /\ attempt[a].status = "running"
    /\ IF attempt[a].claim = NoRow
       THEN LiveRun(attempt[a].run, now)
       ELSE LiveClaim(attempt[a].run, attempt[a].claim, now)
    /\ attempt' = [attempt EXCEPT ![a].status = "finished"]
    /\ UNCHANGED <<clock, generation, run, claim, runtime>>

Tick ==
    /\ clock < MaxTime
    /\ clock' = clock + 1
    /\ UNCHANGED <<generation, run, claim, runtime, attempt>>

Init ==
    /\ clock = 0
    /\ generation = [g \in Generation |-> "preparing"]
    /\ run = [r \in Run |-> UnusedRun]
    /\ claim = [c \in Claim |-> UnusedClaim]
    /\ runtime = [t \in Task |-> AbsentRuntime]
    /\ attempt = [a \in Attempt |-> UnusedAttempt]

(***************************************************************************)
(* The operations grouped by what they touch; now ranges over Readings.    *)
(***************************************************************************)
RunOperation(now) ==
    \E r \in Run :
        \/ \E g \in Generation : AcquireRun(g, r, now)
        \/ RenewRun(r, now)
        \/ RenewExpired(r, now)
        \/ \E status \in {"completed", "failed"} : FinishRun(r, status, now)
        \/ InterruptRun(r)

\* A transition that expects another phase, or uses a closed claim, is refused.
ClaimOperation(now) ==
    \E r \in Run :
        \/ ClaimNothing(r, now)
        \/ \E c \in Claim : ClaimTask(r, c, now)
        \/ \E c \in OpenClaims, new \in Explored, round \in 0..MaxReviewRound :
           \E resume \in ResumePhase \cup {new} :
             TransitionTask(r, c, runtime[claim[c].task].status, new, resume,
                            round, now)

TaskOperation(now) ==
    \E r \in Run, t \in Task :
        \/ \E identity \in Identity : AssignWorktree(r, t, identity, now)
        \/ \E a \in Attempt : AppendRunAttempt(r, t, a, now)

AttemptOperation(now) ==
    \E a \in Attempt :
        \/ CompleteAttempt(a, now)
        \/ \E r \in Run, c \in Claim : AppendClaimAttempt(r, c, a, now)

Next ==
    \/ Tick
    \/ \E g \in Generation : Promote(g)
    \/ \E now \in Readings :
         \/ RunOperation(now)
         \/ ClaimOperation(now)
         \/ TaskOperation(now)
         \/ AttemptOperation(now)
         \/ SweepExpiredRuns(now)

Spec == Init /\ [][Next]_vars

(***************************************************************************)
(* Properties.                                                             *)
(***************************************************************************)
RunRecord ==
    [status : {"unused", "running", "completed", "failed", "cancelled"},
     gen : Generation \cup {NoRow}, lease : 0..(MaxTime + LeaseDuration)]
ClaimRecord ==
    [status : {"unused", "open", "released"}, run : Run \cup {NoRow},
     task : Task \cup {NoRow}, lease : 0..(MaxTime + LeaseDuration),
     resume : TaskStatus]
RuntimeRecord ==
    [status : TaskStatus \cup {"absent"}, resume : TaskStatus,
     round : 0..MaxReviewRound, identity : Identity \cup {NoIdentity},
     lastRun : Run \cup {NoRow}]
AttemptRecord ==
    [status : {"unused", "running", "finished", "interrupted"},
     run : Run \cup {NoRow}, claim : Claim \cup {NoRow},
     task : Task \cup {NoRow}]

\* Every table holds rows of its own shape.
TypeOK ==
    /\ clock \in 0..MaxTime
    /\ generation \in [Generation -> {"preparing", "current", "superseded"}]
    /\ run \in [Run -> RunRecord]
    /\ claim \in [Claim -> ClaimRecord]
    /\ runtime \in [Task -> RuntimeRecord]
    /\ attempt \in [Attempt -> AttemptRecord]

\* Two processes never hold running runs of one Borg, whatever clocks they
\* read and however often leases expire under them (acquire_execution_run).
OneRunPerBorg ==
    \A r, s \in Run :
        /\ run[r].status = "running" /\ run[s].status = "running"
        /\ BorgOf[run[r].gen] = BorgOf[run[s].gen]
        => r = s

\* An open claim is the only one on its task, belongs to a running run of the
\* task's generation, does not outlast that run's lease, and stands for a task
\* that is in an active phase started by that run.
Backed(c) ==
    LET r == claim[c].run
        t == claim[c].task
    IN  /\ r \in Run /\ t \in Task
        /\ run[r].status = "running"
        /\ run[r].gen = GenerationOf[t]
        /\ claim[c].lease <= run[r].lease
        /\ runtime[t].status \in ActiveStatus
        /\ runtime[t].lastRun = r
OpenClaimIsBacked ==
    \A c \in OpenClaims :
        /\ Backed(c)
        /\ \A d \in OpenClaims : claim[d].task = claim[c].task => d = c

\* No task is stranded in an active phase: whoever dies, every active task has
\* an open claim, so the expiry of its run returns it to pending.
ActiveTaskIsClaimed ==
    \A t \in Task :
        runtime[t].status \in ActiveStatus =>
            \E c \in OpenClaims : claim[c].task = t

\* A task that any run ever started has all of its dependencies done, also
\* after it was requeued by an interruption (claim_dependency_ready_task).
DependenciesDone ==
    \A t \in Task :
        runtime[t].lastRun # NoRow =>
            \A d \in Dependencies[t] : runtime[d].status = "done"

\* A completed run is one whose generation is entirely done, for good.
CompletedRunIsComplete ==
    \A r \in Run :
        run[r].status = "completed" =>
            \A t \in TasksOf(run[r].gen) : runtime[t].status = "done"

\* An attempt is left open only by a task that has ended: an interruption of
\* the run or of the claim closes every attempt made under it.
OpenAttemptIsBacked ==
    \A a \in Attempt :
        attempt[a].status = "running" =>
            /\ run[attempt[a].run].status # "cancelled"
            /\ \/ attempt[a].claim = NoRow
               \/ claim[attempt[a].claim].status = "open"
               \/ runtime[attempt[a].task].status \in TerminalStatus

\* Foreign keys of inserted rows point at inserted rows, and an attempt made
\* under a claim is of that claim's run and task.
LinkedClaim(c) ==
    /\ claim[c].run \in Run /\ claim[c].task \in Task
    /\ run[claim[c].run].status # "unused"
LinkedAttempt(a) ==
    /\ attempt[a].run \in Run /\ attempt[a].task \in Task
    /\ run[attempt[a].run].status # "unused"
    /\ attempt[a].claim # NoRow =>
         /\ attempt[a].claim \in Claim
         /\ claim[attempt[a].claim].status # "unused"
         /\ claim[attempt[a].claim].run = attempt[a].run
         /\ claim[attempt[a].claim].task = attempt[a].task
RowsAreLinked ==
    /\ \A r \in Run : run[r].status # "unused" => run[r].gen \in Generation
    /\ \A c \in Claim : claim[c].status # "unused" => LinkedClaim(c)
    /\ \A a \in Attempt : attempt[a].status # "unused" => LinkedAttempt(a)

\* What the tables guarantee together; it is inductive with TypeOK.
Safety ==
    /\ RowsAreLinked
    /\ OneRunPerBorg
    /\ OpenClaimIsBacked
    /\ ActiveTaskIsClaimed
    /\ DependenciesDone
    /\ CompletedRunIsComplete
    /\ OpenAttemptIsBacked

\* At most one generation of a Borg is current.
OneCurrentGeneration ==
    \A g, h \in Generation :
        /\ generation[g] = "current" /\ generation[h] = "current"
        /\ BorgOf[g] = BorgOf[h]
        => g = h

\* Fencing: a task's phase advances only for the owner of an open claim, and
\* never later than the skew of clock readings after either lease ran out.
Advances(t) ==
    runtime'[t].status \notin {runtime[t].status, "pending", "claimed"}
Fenced ==
    \A t \in Task : Advances(t) =>
        \E c \in OpenClaims :
            /\ claim[c].task = t
            /\ run[claim[c].run].status = "running"
            /\ clock < claim[c].lease + MaxSkew
            /\ clock < run[claim[c].run].lease + MaxSkew
StaleOwnerIsFenced == [][Fenced]_vars

\* Requeueing keeps what a resumed claim needs: resume phase, review round and
\* worktree stay, whoever interrupts and whenever (_release_reconciled_claim).
ProgressKept ==
    \A t \in Task :
        /\ runtime'[t].status \in {"pending", "claimed"}
        /\ runtime[t].status # "absent"
        => /\ runtime'[t].resume = runtime[t].resume
           /\ runtime'[t].round = runtime[t].round
           /\ runtime[t].identity # NoIdentity =>
                runtime'[t].identity = runtime[t].identity
RequeueKeepsProgress == [][ProgressKept]_vars

\* Ended rows are history: an ended run, a released claim, an ended attempt
\* and a terminal task are never written again.
HistoryKept ==
    /\ \A r \in Run : run[r].status \in {"completed", "failed", "cancelled"}
         => run'[r] = run[r]
    /\ \A c \in Claim : claim[c].status = "released" => claim'[c] = claim[c]
    /\ \A a \in Attempt : attempt[a].status \in {"finished", "interrupted"}
         => attempt'[a] = attempt[a]
    /\ \A t \in Task : runtime[t].status \in TerminalStatus
         => runtime'[t].status = runtime[t].status
HistoryIsImmutable == [][HistoryKept]_vars

(***************************************************************************)
(* The abstract specification these tables implement.                      *)
(***************************************************************************)
HolderOf(t) ==
    IF \E c \in OpenClaims : claim[c].task = t
    THEN claim[CHOOSE c \in OpenClaims : claim[c].task = t].run
    ELSE NoRow

Board == INSTANCE TaskBoard WITH
    NoHolder <- NoRow,
    TeamOf <- [t \in Task |-> BorgOf[GenerationOf[t]]],
    holder <- [t \in Task |-> HolderOf(t)],
    outcome <- [t \in Task |-> IF runtime[t].status \in TerminalStatus
                                THEN runtime[t].status ELSE "open"]

\* The tables implement the board: whatever the leases and clocks do, tasks are
\* held by one run of the Borg, taken in dependency order and settled once.
ImplementsBoard == Board!BoardSpec
=============================================================================
