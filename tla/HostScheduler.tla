----------------------------- MODULE HostScheduler -----------------------------
(***************************************************************************)
(* Processes running `betterborg execute` on one store: the setup of       *)
(* host_execution/service.py, the main loop of host_execution/scheduler.py *)
(* and its task workers.  Each process makes one invocation, whose run has *)
(* the process's name.  The main loop is cut into steps wherever another   *)
(* thread or process can come between two of its reads and writes: a clock *)
(* reading and the renewal that uses it, a read of the durable status and  *)
(* the transition that expects it, a claim and the thread that works on    *)
(* it, the start of that thread and its entry in the table of futures.     *)
(*                                                                         *)
(* A process may be suspended at any step: it takes none while time passes *)
(* and others go on.  A worker is the behaviour of one claimed task, here  *)
(* only its durable transitions, its reaction to cancellation and how it   *)
(* ends.                                                                   *)
(***************************************************************************)
EXTENDS ExecutionStore

CONSTANTS
    Jobs,               \* HostSchedulerConfig.jobs
    HeartbeatInterval,  \* HostSchedulerConfig.heartbeat_interval, in ticks
    KeyboardInterrupts  \* whether a first SIGINT reaches the main thread

ASSUME SchedulerAssumption ==
    /\ Jobs \in Nat \ {0}
    /\ HeartbeatInterval \in Nat \ {0}
    /\ HeartbeatInterval < LeaseDuration
    /\ KeyboardInterrupts \in BOOLEAN

VARIABLES
    pc,        \* where each process's main thread is
    now,       \* its last clock reading
    beat,      \* its next heartbeat
    token,     \* its CancellationToken is set
    active,    \* claims in its table of futures
    unvisited, \* futures the settlement in progress has yet to look at
    held,      \* the claim it is settling or starting
    expected,  \* the durable status it read for that claim's task
    worker     \* the worker thread of each claim

threadVars == <<pc, now, beat, token, active, unvisited, held, expected, worker>>
allVars == <<vars, threadVars>>

Process == Run

SettingUp == {"setupSweep", "setup"}
Finished == {"complete", "fail"}
Loop == {"top", "renew", "settle", "settleWrite", "fill", "submit", "register",
         "finish"} \cup Finished
Draining == {"drain", "handlerDrain"}
Ending == Draining \cup {"setupFailed", "interrupt", "lost", "raised", "broken",
                        "sweep", "exit"}
Over == {"ended", "abandoned", "crashed"}

\* "stopped" returned a nonterminal status because the token was set, "raised"
\* ended with an exception, "returned" left a terminal status behind.
WorkerEnd == {"returned", "stopped", "raised"}

ClaimsOf(p) == {c \in Claim : claim[c].status # "unused" /\ claim[c].run = p}
Working(S) == {c \in S : worker[c] = "running"}

Goto(p, label) == pc' = [pc EXCEPT ![p] = label]

(***************************************************************************)
(* HostExecutionService.run before the scheduler.                          *)
(***************************************************************************)
SweepOrNothing(t) ==
    \/ SweepExpiredRuns(t)
    \/ /\ ExpiredRuns(t) = {}
       /\ UNCHANGED vars

\* _sweep_expired_runs, on any Borg
Begin(p) ==
    /\ pc[p] = "idle"
    /\ Goto(p, "acquire")
    /\ SweepOrNothing(clock)
    /\ UNCHANGED <<now, beat, token, active, unvisited, held, expected, worker>>

\* acquire_execution_run: with a live run on the Borg the process only
\* observes it, sweeps once more and ends.
Acquire(p) ==
    /\ pc[p] = "acquire"
    /\ \E g \in Generation :
         /\ generation[g] = "current"
         /\ \/ /\ AcquireRun(g, p, clock)
               /\ Goto(p, "setupSweep")
               /\ beat' = [beat EXCEPT ![p] = clock + HeartbeatInterval]
            \/ /\ RunningOf(BorgOf[g]) \ ExpiredRuns(clock) # {}
               /\ Goto(p, "sweep")
               /\ UNCHANGED <<vars, beat>>
    /\ UNCHANGED <<now, token, active, unvisited, held, expected, worker>>

\* The sweep is repeated under the new lease, which may itself be expired.
SetupSweep(p) ==
    /\ pc[p] = "setupSweep"
    /\ SweepOrNothing(clock)
    /\ Goto(p, "setup")
    /\ UNCHANGED <<now, beat, token, active, unvisited, held, expected, worker>>

\* _SetupLeaseHeartbeats._renew_through: overdue heartbeats are caught up with
\* the reading each of them was due at, however late it is now.
SetupRenew(p) ==
    /\ pc[p] \in SettingUp
    /\ beat[p] <= clock
    /\ \/ /\ RenewRun(p, beat[p])
          /\ beat' = [beat EXCEPT ![p] = @ + HeartbeatInterval]
          /\ UNCHANGED pc
       \/ /\ RenewExpired(p, beat[p])
          /\ Goto(p, "setupFailed")
          /\ UNCHANGED beat
       \/ /\ run[p].status # "running"
          /\ Goto(p, "setupFailed")
          /\ UNCHANGED <<vars, beat>>
    /\ UNCHANGED <<now, token, active, unvisited, held, expected, worker>>

\* Worktrees are ready, the heartbeat thread is joined and nothing is overdue.
SetupDone(p) ==
    /\ pc[p] = "setup"
    /\ clock < beat[p]
    /\ Goto(p, "top")
    /\ beat' = [beat EXCEPT ![p] = clock + HeartbeatInterval]
    /\ UNCHANGED <<vars, now, token, active, unvisited, held, expected, worker>>

\* Worktree preparation raised.
SetupFails(p) ==
    /\ pc[p] \in SettingUp
    /\ Goto(p, "setupFailed")
    /\ UNCHANGED <<vars, now, beat, token, active, unvisited, held, expected, worker>>

\* interrupt_execution_run writes only while the run is still running.
InterruptOrNothing(p) ==
    \/ InterruptRun(p)
    \/ /\ run[p].status # "running"
       /\ UNCHANGED vars

\* _interrupt_failed_setup
SetupInterrupt(p) ==
    /\ pc[p] = "setupFailed"
    /\ InterruptOrNothing(p)
    /\ Goto(p, "sweep")
    /\ UNCHANGED <<now, beat, token, active, unvisited, held, expected, worker>>

(***************************************************************************)
(* The main loop of HostTaskScheduler._run_acquired.                       *)
(***************************************************************************)
\* Mutant: cancellation is left to the loop that starts tasks.
TopUncancelled(p) ==
    /\ pc[p] = "top"
    /\ now' = [now EXCEPT ![p] = clock]
    /\ unvisited' = [unvisited EXCEPT ![p] = active[p]]
    /\ Goto(p, IF beat[p] <= clock THEN "renew" ELSE "settle")
    /\ UNCHANGED <<vars, beat, token, active, held, expected, worker>>

\* The clock is read first, cancellation is looked at once.
Top(p) ==
    /\ pc[p] = "top"
    /\ now' = [now EXCEPT ![p] = clock]
    /\ unvisited' = [unvisited EXCEPT ![p] = active[p]]
    /\ Goto(p, IF token[p] THEN "drain"
               ELSE IF beat[p] <= clock THEN "renew" ELSE "settle")
    /\ UNCHANGED <<vars, beat, token, active, held, expected, worker>>

\* Mutant: the next heartbeat is due when the lease ends.
RenewAtLeaseEnd(p) ==
    /\ pc[p] = "renew"
    /\ RenewRun(p, now[p])
    /\ beat' = [beat EXCEPT ![p] = now[p] + LeaseDuration]
    /\ Goto(p, "settle")
    /\ UNCHANGED <<now, token, active, unvisited, held, expected, worker>>

Renew(p) ==
    /\ pc[p] = "renew"
    /\ \/ /\ RenewRun(p, now[p])
          /\ beat' = [beat EXCEPT ![p] = now[p] + HeartbeatInterval]
          /\ Goto(p, "settle")
       \/ /\ RenewExpired(p, now[p])
          /\ Goto(p, "lost")
          /\ UNCHANGED beat
       \/ /\ run[p].status # "running"
          /\ Goto(p, "lost")
          /\ UNCHANGED <<vars, beat>>
    /\ UNCHANGED <<now, token, active, unvisited, held, expected, worker>>

\* _settle_completed looks at each future once.  A finished one leaves the
\* table; unless its task has ended durably, the status just read is what the
\* next step expects to find.
SettleRead(p) ==
    /\ pc[p] = "settle"
    /\ \E c \in unvisited[p] :
         LET status == runtime[claim[c].task].status
             done == worker[c] \in WorkerEnd
         IN  /\ unvisited' = [unvisited EXCEPT ![p] = @ \ {c}]
             /\ active' = [active EXCEPT ![p] = IF done THEN @ \ {c} ELSE @]
             /\ IF done /\ status \notin TerminalStatus
                THEN /\ Goto(p, "settleWrite")
                     /\ held' = [held EXCEPT ![p] = c]
                     /\ expected' = [expected EXCEPT ![p] = status]
                ELSE UNCHANGED <<pc, held, expected>>
    /\ UNCHANGED <<vars, now, beat, token, worker>>

\* The task failed: compare-and-set to FAILED.  Lost ownership is swallowed;
\* an illegal or stale expectation is an error that leaves the loop.
SettleWrite(p) ==
    LET c == held[p]
    IN  /\ pc[p] = "settleWrite"
        /\ \/ /\ TransitionTask(p, c, expected[p], "failed", "failed",
                                runtime[claim[c].task].round, clock)
              /\ Goto(p, "settle")
           \/ /\ "failed" \in Successors(expected[p])
              /\ ~ LiveClaim(p, c, clock)
              /\ Goto(p, "settle")
              /\ UNCHANGED vars
           \/ /\ \/ "failed" \notin Successors(expected[p])
                 \/ /\ LiveClaim(p, c, clock)
                    /\ runtime[claim[c].task].status # expected[p]
              /\ Goto(p, "raised")
              /\ UNCHANGED vars
        /\ UNCHANGED <<now, beat, token, active, unvisited, held, expected, worker>>

SettleDone(p) ==
    /\ pc[p] = "settle"
    /\ unvisited[p] = {}
    /\ Goto(p, "fill")
    /\ UNCHANGED <<vars, now, beat, token, active, unvisited, held, expected, worker>>

\* A free slot: claim the next ready task.
FillClaim(p) ==
    /\ pc[p] = "fill"
    /\ Cardinality(active[p]) < Jobs
    /\ ~ token[p]
    /\ \E c \in Claim :
         /\ ClaimTask(p, c, clock)
         /\ held' = [held EXCEPT ![p] = c]
    /\ Goto(p, "submit")
    /\ UNCHANGED <<now, beat, token, active, unvisited, expected, worker>>

FillLost(p) ==
    /\ pc[p] = "fill"
    /\ Cardinality(active[p]) < Jobs
    /\ ~ token[p]
    /\ ~ LiveRun(p, clock)
    /\ Goto(p, "lost")
    /\ UNCHANGED <<vars, now, beat, token, active, unvisited, held, expected, worker>>

\* Mutant: the run is finished although claimed tasks are still running.
FillDoneEarly(p) ==
    /\ pc[p] = "fill"
    /\ LiveRun(p, clock)
    /\ Ready(p, ExpiredClaims(p, clock)) = {}
    /\ Goto(p, "finish")
    /\ UNCHANGED <<vars, now, beat, token, active, unvisited, held, expected, worker>>

\* Nothing more to start: go round after a wait, or finish if nothing runs.
FillDone(p) ==
    /\ pc[p] = "fill"
    /\ \/ /\ Cardinality(active[p]) = Jobs \/ token[p]
          /\ UNCHANGED vars
       \/ /\ Cardinality(active[p]) < Jobs /\ ~ token[p]
          /\ LiveRun(p, clock)
          /\ Ready(p, ExpiredClaims(p, clock)) = {}
          /\ \/ ClaimNothing(p, clock)
             \/ /\ ExpiredClaims(p, clock) = {}
                /\ UNCHANGED vars
    /\ Goto(p, IF token[p] \/ active[p] # {} THEN "top" ELSE "finish")
    /\ UNCHANGED <<now, beat, token, active, unvisited, held, expected, worker>>

\* Cancellation seen after the claim leaves the claim open and unstarted.
Submit(p) ==
    /\ pc[p] = "submit"
    /\ IF token[p]
       THEN Goto(p, "top") /\ UNCHANGED worker
       ELSE Goto(p, "register") /\ worker' = [worker EXCEPT ![held[p]] = "running"]
    /\ UNCHANGED <<vars, now, beat, token, active, unvisited, held, expected>>

\* active[executor.submit(...)] = claim
Register(p) ==
    /\ pc[p] = "register"
    /\ active' = [active EXCEPT ![p] = @ \cup {held[p]}]
    /\ Goto(p, "fill")
    /\ UNCHANGED <<vars, now, beat, token, unvisited, held, expected, worker>>

\* _finish reads the tasks to decide how the run ended.
AllDone(g) == \A t \in TasksOf(g) : runtime[t].status = "done"
FinishRead(p) ==
    /\ pc[p] = "finish"
    /\ Goto(p, IF AllDone(run[p].gen) THEN "complete" ELSE "fail")
    /\ UNCHANGED <<vars, now, beat, token, active, unvisited, held, expected, worker>>

\* finish_execution_run raises if the lease is gone, if work is active, or if the
\* tasks do not bear the verdict out.
Verdict(p) == IF pc[p] = "complete" THEN "completed" ELSE "failed"
Finish(p) ==
    /\ pc[p] \in Finished
    /\ \/ /\ FinishRun(p, Verdict(p), clock)
          /\ Goto(p, "sweep")
       \/ /\ ~ LiveRun(p, clock)
          /\ Goto(p, "lost")
          /\ UNCHANGED vars
       \/ /\ LiveRun(p, clock)
          /\ \/ \E t \in TasksOf(run[p].gen) : runtime[t].status \in ActiveStatus
             \/ (pc[p] = "complete") # AllDone(run[p].gen)
          /\ Goto(p, "raised")
          /\ UNCHANGED vars
    /\ UNCHANGED <<now, beat, token, active, unvisited, held, expected, worker>>

(***************************************************************************)
(* Leaving the loop.                                                       *)
(***************************************************************************)
\* _interrupt and _drain_cancelled: cancel, then wait for the futures in the
\* table while keeping the lease.  In an except clause ("handlerDrain") a lease
\* lost meanwhile ends the process as it stands: no sibling clause sees it.
DrainRenew(p) ==
    /\ pc[p] \in Draining
    /\ Working(active[p]) # {}
    /\ beat[p] <= clock
    /\ token' = [token EXCEPT ![p] = TRUE]
    /\ \/ /\ RenewRun(p, clock)
          /\ beat' = [beat EXCEPT ![p] = clock + HeartbeatInterval]
          /\ UNCHANGED pc
       \/ /\ \/ RenewExpired(p, clock)
             \/ /\ run[p].status # "running"
                /\ UNCHANGED vars
          /\ Goto(p, IF pc[p] = "drain" THEN "lost" ELSE "exit")
          /\ UNCHANGED beat
    /\ UNCHANGED <<now, active, unvisited, held, expected, worker>>

\* Mutant: the run is interrupted without waiting for its workers.
DrainedAtOnce(p) ==
    /\ pc[p] \in Draining
    /\ token' = [token EXCEPT ![p] = TRUE]
    /\ Goto(p, "interrupt")
    /\ UNCHANGED <<vars, now, beat, active, unvisited, held, expected, worker>>

Drained(p) ==
    /\ pc[p] \in Draining
    /\ Working(active[p]) = {}
    /\ token' = [token EXCEPT ![p] = TRUE]
    /\ Goto(p, "interrupt")
    /\ UNCHANGED <<vars, now, beat, active, unvisited, held, expected, worker>>

Interrupt(p) ==
    /\ pc[p] = "interrupt"
    /\ InterruptOrNothing(p)
    /\ Goto(p, "sweep")
    /\ UNCHANGED <<now, beat, token, active, unvisited, held, expected, worker>>

\* except ExecutionOwnershipError: cancel, then drain without renewing.
LostCancel(p) ==
    /\ pc[p] = "lost"
    /\ ~ token[p]
    /\ token' = [token EXCEPT ![p] = TRUE]
    /\ UNCHANGED <<vars, pc, now, beat, active, unvisited, held, expected, worker>>

LostDrained(p) ==
    /\ pc[p] = "lost"
    /\ token[p]
    /\ Working(active[p]) = {}
    /\ Goto(p, "sweep")
    /\ UNCHANGED <<vars, now, beat, token, active, unvisited, held, expected, worker>>

LastSweep(p) ==
    /\ pc[p] = "sweep"
    /\ SweepOrNothing(clock)
    /\ Goto(p, "exit")
    /\ UNCHANGED <<now, beat, token, active, unvisited, held, expected, worker>>

\* The executor's own wait for every thread it started, which is all that
\* another exception ("raised", "broken") gets.
ExecutorExit(p) ==
    /\ pc[p] \in {"exit", "raised", "broken"}
    /\ Working(ClaimsOf(p)) = {}
    /\ Goto(p, IF pc[p] = "broken" THEN "abandoned" ELSE "ended")
    /\ UNCHANGED <<vars, now, beat, token, active, unvisited, held, expected, worker>>

(***************************************************************************)
(* What the surroundings do to the main thread.                            *)
(***************************************************************************)
\* Any call to the display can raise ProgressError.  Once the token is set that
\* cancels the run after all, from the except clause; before, the error leaves
\* the run RUNNING and its claims open, and the workers are only waited for.
DisplayFails(p) ==
    /\ pc[p] \in (Loop \ {"register"}) \cup {"drain"}
    /\ Goto(p, IF token[p] THEN "handlerDrain" ELSE "broken")
    /\ UNCHANGED <<vars, now, beat, token, active, unvisited, held, expected, worker>>

\* The store raises something else than a refusal (a locked or full database):
\* whatever was to be done next is not done, the run is left as it is.
StoreFails(p) ==
    /\ pc[p] \in (Loop \ {"register"}) \cup Draining \cup {"interrupt", "sweep"}
    /\ Goto(p, "broken")
    /\ UNCHANGED <<vars, now, beat, token, active, unvisited, held, expected, worker>>

\* _interrupt_failed_setup notes that it could not interrupt, and sweeps.
SetupInterruptFails(p) ==
    /\ pc[p] = "setupFailed"
    /\ SweepOrNothing(clock)
    /\ Goto(p, "broken")
    /\ UNCHANGED <<now, beat, token, active, unvisited, held, expected, worker>>

Breaks(p) == DisplayFails(p) \/ StoreFails(p) \/ SetupInterruptFails(p)

(***************************************************************************)
(* Workers.                                                                *)
(***************************************************************************)
Owner(c) == claim[c].run

\* ScheduledTaskContext.transition
WorkerTransition(c) ==
    /\ worker[c] = "running"
    /\ LET task == claim[c].task
           status == runtime[task].status
       IN \E new \in Explored :
            TransitionTask(Owner(c), c, status, new, new, runtime[task].round, clock)
    /\ UNCHANGED threadVars

\* An adapter that gives up with CANCELLED stops the whole run
\* (cancelled_agent_reason).
WorkerCancels(c) ==
    /\ worker[c] = "running"
    /\ ~ token[Owner(c)]
    /\ LiveClaim(Owner(c), c, clock)
    /\ token' = [token EXCEPT ![Owner(c)] = TRUE]
    /\ UNCHANGED <<vars, pc, now, beat, active, unvisited, held, expected, worker>>

Ends(c, how) ==
    /\ worker' = [worker EXCEPT ![c] = how]
    /\ UNCHANGED <<vars, pc, now, beat, token, active, unvisited, held, expected>>

WorkerReturns(c) ==
    /\ worker[c] = "running"
    /\ runtime[claim[c].task].status \in TerminalStatus
    /\ Ends(c, "returned")

\* HostTaskRuntime looks at the token between phases and adapters watch it.
WorkerStops(c) ==
    /\ worker[c] = "running"
    /\ token[Owner(c)]
    /\ runtime[claim[c].task].status \notin TerminalStatus
    /\ Ends(c, "stopped")

\* A store call that finds the ownership gone, or any other failure.
WorkerRaises(c) ==
    /\ worker[c] = "running"
    /\ runtime[claim[c].task].status \notin TerminalStatus
    /\ Ends(c, "raised")

(***************************************************************************)
(* The environment.                                                        *)
(***************************************************************************)
\* The progress screen's cancel, or the dispatcher of run_control.py.
UserCancels(p) ==
    /\ pc[p] \in Loop \cup SettingUp
    /\ ~ token[p]
    /\ token' = [token EXCEPT ![p] = TRUE]
    /\ UNCHANGED <<vars, pc, now, beat, active, unvisited, held, expected, worker>>

\* The first SIGINT raises KeyboardInterrupt between any two steps.
KeyboardInterrupt(p) ==
    /\ KeyboardInterrupts
    /\ pc[p] \in Loop
    /\ token' = [token EXCEPT ![p] = TRUE]
    /\ Goto(p, "handlerDrain")
    /\ UNCHANGED <<vars, now, beat, active, unvisited, held, expected, worker>>

\* SIGKILL, a power cut: the threads are gone, the store is as it was.
Crash(p) ==
    /\ pc[p] \in SettingUp \cup Loop \cup Ending
    /\ Goto(p, "crashed")
    /\ worker' = [c \in Claim |-> IF c \in Working(ClaimsOf(p)) THEN "raised"
                                  ELSE worker[c]]
    /\ UNCHANGED <<vars, now, beat, token, active, unvisited, held, expected>>

PassTime == Tick /\ UNCHANGED threadVars
Publish == (\E g \in Generation : Promote(g)) /\ UNCHANGED threadVars

Main(p) ==
    \/ Begin(p) \/ Acquire(p)
    \/ SetupSweep(p) \/ SetupRenew(p) \/ SetupDone(p) \/ SetupFails(p) \/ SetupInterrupt(p)
    \/ Top(p) \/ Renew(p)
    \/ SettleRead(p) \/ SettleWrite(p) \/ SettleDone(p)
    \/ FillClaim(p) \/ FillLost(p) \/ FillDone(p)
    \/ Submit(p) \/ Register(p) \/ FinishRead(p) \/ Finish(p)
    \/ DrainRenew(p) \/ Drained(p) \/ Interrupt(p)
    \/ LostCancel(p) \/ LostDrained(p) \/ LastSweep(p) \/ ExecutorExit(p)

SchedulerInit ==
    /\ Init
    /\ pc = [p \in Process |-> "idle"]
    /\ now = [p \in Process |-> 0]
    /\ beat = [p \in Process |-> 0]
    /\ token = [p \in Process |-> FALSE]
    /\ active = [p \in Process |-> {}]
    /\ unvisited = [p \in Process |-> {}]
    /\ held = [p \in Process |-> NoRow]
    /\ expected = [p \in Process |-> "pending"]
    /\ worker = [c \in Claim |-> "none"]

WorkerStep(c) ==
    WorkerTransition(c) \/ WorkerCancels(c) \/ WorkerReturns(c) \/ WorkerStops(c)
    \/ WorkerRaises(c)

SchedulerNext ==
    \/ PassTime \/ Publish
    \/ \E p \in Process : Main(p) \/ Breaks(p) \/ UserCancels(p) \/ KeyboardInterrupt(p)
                           \/ Crash(p)
    \/ \E c \in Claim : WorkerStep(c)

(***************************************************************************)
(* Fairness: a process that is not stopped goes on, and a worker ends once *)
(* its task has ended or its run is cancelled.  Nothing makes an agent     *)
(* finish its work, time pass, or a user press anything.                   *)
(***************************************************************************)
Fairness ==
    /\ \A p \in Process : WF_allVars(Main(p))
    /\ \A c \in Claim : WF_allVars(WorkerReturns(c) \/ WorkerStops(c))

SchedulerSpec == SchedulerInit /\ [][SchedulerNext]_allVars
FairSchedulerSpec == SchedulerSpec /\ Fairness

(***************************************************************************)
(* Properties.                                                             *)
(***************************************************************************)
SchedulerTypeOK ==
    /\ TypeOK
    /\ pc \in [Process -> SettingUp \cup Loop \cup Ending \cup Over
                          \cup {"idle", "acquire"}]
    /\ now \in [Process -> 0..MaxTime]
    /\ beat \in [Process -> 0..(MaxTime + HeartbeatInterval)]
    /\ token \in [Process -> BOOLEAN]
    /\ active \in [Process -> SUBSET Claim]
    /\ unvisited \in [Process -> SUBSET Claim]
    /\ held \in [Process -> Claim \cup {NoRow}]
    /\ expected \in [Process -> TaskStatus]
    /\ worker \in [Claim -> {"none", "running"} \cup WorkerEnd]

\* A running worker still owns its task, unless the task has ended or the lease
\* it was given has really run out: nothing a process does to its own run, and
\* no sweep by another, takes a task from under live work before that.
RunningWorkerOwnsItsTask ==
    \A c \in Claim :
        worker[c] = "running" =>
            \/ claim[c].status = "open"
            \/ runtime[claim[c].task].status \in TerminalStatus
            \/ claim[c].lease <= clock

\* A run is finished as failed only when every task left pending waits for one
\* that is not done: no task that could have been run is given up.
FailedRunLeavesNothingReady ==
    [][\A p \in Process :
          run[p].status = "running" /\ run'[p].status = "failed" =>
            \A t \in TasksOf(run[p].gen) :
              runtime[t].status = "pending" =>
                \E d \in Dependencies[t] : runtime[d].status # "done"]_allVars

\* Only a failure of the display or of the store, or a crash, leaves a run behind
\* that lives: a process that ends in any other way (by the rejection of its own
\* write, by lost ownership, by cancellation, at the end of its work) has ended
\* its run, or the lease has run out and any sweep puts its tasks back.
EndedProcessLeavesNoLiveRun ==
    \A p \in Process :
        /\ pc[p] = "raised" => run[p].status = "cancelled"
        /\ pc[p] \in {"sweep", "exit", "ended"} =>
             run[p].status # "running" \/ run[p].lease <= clock

\* A cancelled process ends its run, whatever its workers and others do, unless
\* it is stopped or its display or store fails it.
CancellationEndsTheRun ==
    \A p \in Process :
        token[p] ~> \/ run[p].status # "running"
                    \/ pc[p] \in {"crashed", "broken", "abandoned"}

\* A worker that stopped for a cancellation leaves a task that can be resumed:
\* its task is not then recorded as failed (_agent_phase.py: "so it releases the
\* claim instead of treating the unchanged phase as a task failure").
CancelledTaskStaysResumable ==
    [][\A c \in Claim :
          worker[c] = "stopped" /\ claim[c].status = "open" =>
            runtime'[claim[c].task].status # "failed"]_allVars
=============================================================================
