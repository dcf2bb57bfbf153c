# Betterborg in TLA+

Formal models of Betterborg (`betterborg-cli`), the command line tool that plans
a change with AI agents and then executes the plan as a graph of Git tasks on
one machine. The modules are translated from the Python source under
`src/betterborg_cli/`; line numbers in comments and in `PROJECT.json` refer to
that tree. TLC model-checks small instances, and TLAPS proves the central
theorems for every value of the constants.

## 1. The system

`betterborg init` analyses a repository; `create` runs a PRD session; `plan`
drives a *Planning Borg* through architect, tech lead, user approval and PM
roles until a *task generation* (a directory of tasks with dependencies) is
promoted; `execute` runs the tasks of the current generation: each in its own
Git worktree, through environment, coding, review, fix and merging, until its
branch is published onto `project/<borg>`. All durable state is in SQLite and
in Git; several processes may run at once.

| Component | Code | State it keeps | Operations |
|---|---|---|---|
| Execution store | `store/sqlite.py`, `store/models.py` | generations, runs with leases, claims, task runtimes, environment and agent attempts | promote, acquire, renew, finish and interrupt a run, claim a task, transition it, assign a worktree, open and complete an attempt, sweep expired runs |
| Planning store | same files | Borgs, PRDs, planning attempts, turns, findings, evaluations, events | inserts and compare-and-sets of a Borg's status |
| Host scheduler | `host_execution/scheduler.py` | clock reading, next heartbeat, token, table of futures | renew, settle, fill, submit, finish, drain, interrupt |
| Host execution service | `host_execution/service.py` | setup heartbeats, publication lock | sweep, acquire, set up, run the phases of a task |
| Coding, review and fix | `host_execution/coding.py`, `review.py`, `_agent_phase.py` | attempts, review rounds, artifacts | run an agent, classify its result, resume a completed attempt |
| Merge and sanity | `host_execution/merge.py`, `sanity.py` | attestation events, merge attempts | merge the base, attest, call the agent, verify, run the catalog, fast-forward, clean up |
| Git and worktrees | `host_execution/git.py`, `worktrees.py` | branches, worktrees | ancestor tests, compare-and-set, preparation and removal |
| Environment, preflight, guard | `host_execution/environment.py`, `preflight.py`, `guard.py` | environment attempts, snapshot of the primary checkout | materialise, check |
| Planning Borg | `planning/architect.py`, `tech_lead.py`, `pm.py`, `supervisor.py`, `turns.py`, `steering.py`, `cycles.py` | Borg status, durable turns | start, advance, ask, approve, change, recover |
| Grants, convergence, ledger | `planning/grants.py`, `convergence.py`, `findings_ledger.py` | rounds granted, findings | grant, charge, merge, decide whether a loop goes on |
| Task publication | `planning/task_publication.py` | task directories, generation rows | stage, rename, promote, clean up, reconcile |
| Run control | `run_control.py`, `agent_runtime/base.py`, `process.py` | cancellation token, registered resources, process groups | first and second SIGINT, forced cancellation |
| Agent adapters | `agent_runtime/*` | one turn | invoke, retry, validate structured output |
| Front ends | `cli.py`, `mcp_server.py`, `progress.py`, plugins, `prd_session.py`, `workflow_service.py` | none durable of their own | call the services above |
| Repository analysis and setup | `repo_analysis/*`, `repository_*.py`, `workspace_trust.py`, `onboarding.py` | configuration files | analyse, initialise, trust |

### How the parts interact

- The **scheduler's main thread** calls the store, one `BEGIN IMMEDIATE`
  transaction per call, and submits claims to a pool of `jobs` threads. The
  threads share with it the cancellation token and a table of futures, nothing else.
- A **task thread** (`HostTaskRuntime.__call__`) runs the phases in order. Every
  durable write it makes carries an owner token and a claim token, which the
  store checks against live leases; its Git commands carry nothing and take
  effect whoever owns the task by then.
- **Processes** meet in the store (leases, claims, generations) and in Git (the
  project branch and the worktrees), and nowhere else: the publication lock and
  the repository lock are local to a process.
- A **user** presses a cancel key, sends SIGINT, commits to the source branch.
- **Planning** hands over to execution by promoting a generation.

### What is hard here

Leases that expire under live work; clock readings taken before a write lock is
waited for; threads between being started and being registered; a token looked
at once per round; a crash between any two of a Git command, an event and a
transition; two processes fast-forwarding one branch; resumed phases and planning
turns that must recognise what a dead process already did; a plan that changes
while its approval is bound; files renamed and not yet durable; a signal handler
that takes no lock. `PROJECT.json` lists each of these hazards at its line, with
the properties that would catch it going wrong or the reason none does.

### What makes each component correct

- *Store*: one running run per Borg; every open claim is backed by a live run;
  no active task without a claim; dependencies first; a completed run is
  complete; a stale owner writes nothing; history is never rewritten; requeueing
  loses no progress.
- *Scheduler*: live work keeps its task; a run is given up only when nothing can
  be started; a cancelled run ends; only a failing display or store leaves a run
  behind that lives; a cancelled task can be resumed.
- *Publication*: the project branch only moves forward, from a base the tip was
  checked against; only reviewed, announced or recorded commits get there; done
  means published; a crash or a cancellation by itself never costs a clean task.
- *Pipeline*: rounds bounded, no unreviewed commit merged, a completed turn never
  repeated, an agent only in a checkout its plan prepared or accepted, a claim that
  ends unless it waits for one child for ever.
- *Planning*: a Borg moves only along its state machine, an approval is of the
  plan the user saw, an agent result is used at most once, a loop ends.
- *Task publication*: the tree of the current generation always exists and is the
  promoted one; reconciliation converges.
- *Run control*: nobody exits over a living child, force reaches every child, and an
  interrupt ends the run.
- *Validators, adapters, analysis*: what is accepted can be carried out (a plan can be
  decomposed, a graph executed, a run gets its secrets, an answer can be given), what
  is refused changes nothing, and every retry loop ends and is paid for.

## 2. Modules

| Module | Role |
|---|---|
| `TaskBoard` | abstract: tasks are held, handed back, settled once |
| `ExecutionStore` | the durable tables, one action per transaction; implements `TaskBoard` |
| `ExecutionStoreProofs`, `ExecutionStoreActions` | theorems about `ExecutionStore`: types, invariants, steps and refinement |
| `HostScheduler` | processes with main threads and workers on top of `ExecutionStore` |
| `HostSchedulerProofs` | theorems about `HostScheduler` |
| `TaskPipeline` | one task from claim to merge: coding, review, fix and steering turns |
| `ReviewLedger` | findings, convergence and grants, used by `TaskPipeline` and the planning modules |
| `TaskEnvironment` | the preparation of a worktree, used by `TaskPipeline` |
| `TaskPipelineProofs` | theorems about `TaskPipeline` and the two it uses |
| `Publication` | merge and sanity phases of all workers over one Git repository |
| `PublicationProofs` | theorems about `Publication` |
| `PlanningTurns` | durable planning turns |
| `PlanDrafting` | Architect and Tech Lead loops, and the binding of an approval, over `PlanningTurns` |
| `Decomposition` | PM and Supervisor loops, over `PlanDrafting` |
| `TaskPublication` | the publisher of task files, over `Decomposition` |
| `PlanningBorg` | the whole of planning: commands, crashes, properties |
| `PlanningProofs`, `PlanningBudgetProofs` | theorems about `PlanningBorg`: its record; its budgets and its recovered turns |
| `CancellationToken`, `ChildProcess`, `RunControl` | the token and its registry, the threads that start children, SIGINT |
| `RunControlProofs` | theorems about `RunControl` and the two it extends |
| `PlanContracts`, `TaskValidation` | what a plan and a task graph must satisfy, as operators |
| `HostPreflight`, `CheckoutGuard` | what a run is given before it claims a task, and the guard of the checkout, as operators |
| `AgentTurn`, `ApiTurn`, `StructuredResult`, `StrictSchema` | one turn of an agent, and the contract of its result, as operators |
| `ContainedTools`, `AgentSelection` | what an agent may touch, and which agent runs, as operators |
| `ExecutionEstimate` | what an execution is expected to take, as operators |
| `RepositorySetup`, `RepositoryAnalysis` | setting up and scoring a repository: steps of processes as an operator, and rules |
| `MCExecutionStore`, `MCHostScheduler`, `MCPublication`, `MCTaskPipeline`, `MCPlanningBorg`, `MCTaskStore` | instances for TLC |
| `MCPlanValidation`, `MCTaskPipeline`, `MCAgentRuntime`, `MCAgentPolicy`, `MCRepositorySetup` | the promises of the operator modules, as assumptions that TLC evaluates over all small inputs |
### ExecutionStore

State: `generation`, `run`, `claim`, `runtime`, `attempt` are the tables, as
functions from row identities (allocated at most once, `"unused"` before) to
records with the columns the guards look at; `clock` is real time. An owner
token is the identity of its run, a claim token that of its claim. Environment
and agent attempts are one table, told apart by whether they carry a claim.

Each action is one public transaction with its whole effect: `AcquireRun` also
interrupts the expired runs of its Borg, `RenewRun` also renews claims and
releases expired ones, `ClaimTask` first reconciles the expired claims of its
run, `InterruptRun` and `SweepExpiredRuns` cancel, release, requeue and close
attempts together. A call that raises rolls back and is a stutter, but for the
two that commit before they raise, `RenewExpired` and the refused acquisition.
Every action is offered to *any* run at any moment, because a caller may be a
process that was suspended; and it brings a clock reading up to `MaxSkew` old,
because the code calls its clock before it waits for SQLite's write lock. The
unique indexes of the migrations are not assumed: the model could violate them,
and the invariants show that the transactions never do.

`TaskBoard` is what callers may rely on. The refinement maps the holder of a
task to the run of its open claim and its outcome to its terminal status.

### HostScheduler

Extends `ExecutionStore` and restricts who calls what, when. `pc` cuts the main
thread at the places another thread or process can come between: clock reading
and renewal (`Top`, `Renew`), status read and transition (`SettleRead`,
`SettleWrite`), claim and thread start (`FillClaim`, `Submit`), thread start and
registration (`Register`), the statuses read at the end and the finish that relies on
them (`FinishRead`, `Finish`). Setup heartbeats (`SetupRenew`) are caught up with the
readings they were due at, as `_SetupLeaseHeartbeats._renew_through` does. Workers
make durable transitions, see the token, return, stop or raise. A process may be
suspended forever or crash anywhere. A process makes one invocation.

A main thread leaves its loop in more ways than by a rejected write. Any call to the
display may raise `ProgressError` (`DisplayFails`): with the token set the except clause
still drains and interrupts, without it the error goes up with the run RUNNING and its
claims open, as `tests/test_host_scheduler.py:570-603` expects. Any call to the store may
raise something else than a refusal (`StoreFails`), and an interruption of a failed setup
may fail (`SetupInterruptFails`). Such a process is at `broken`, and ends `abandoned`
once its workers have; its tasks come back when the lease runs out.

### Publication

Extends neither: the store appears as what publication reads and writes of it
(`status`, `holder` of the live claim, the attestation events, the results of
merge attempts), and Git as a graph of commits with the refs and the worktree
state the phases look at. A commit is a number handed out in order, `history[c]`
its ancestors, so the commit that a clean merge *will* create, which the code
builds with `commit-tree` before it merges, exists before any branch names it.
A worker walks from `Claim` through `Enter` (the publication lock), the merge
phase (`Merge*`, `GitMerge*`), the agent (`Agent*`) and the sanity phase
(`SanityStarts` to `Finish`), one Git command or transaction per step. When its
process has lost the run (`Acquire` by another process) its store writes are
refused (`Holds`) while its Git commands still take effect.

The project branch also moves outside of the lock. `Refresh` is the worker of a task that
has no work yet, which is not among the tasks followed here: it brings its worktree up to
date and fast-forwards the project branch on the way (`service.py:501`,
`worktrees.py:180`), beside whatever is in the lock. `dirty` says that a worktree holds
uncommitted changes other than a merge's: preparation and check commands write and clear
them at any moment while they run (`CommandsWrite`), so that a crash or a cancellation
leaves them, an agent may leave them, and `MergeReads` and the sanity phase refuse them.
`Disturbances` chooses what else goes wrong in an instance.

Simplified there: materialisation and the catalog pass or fail in one step, between
whose start and end their files come and go; identities, prompts and artifacts are left out; a task is followed from its
approval, so its worktree and branch exist at the start.

### TaskPipeline, ReviewLedger, TaskEnvironment

An agent turn is three durable steps: the attempt is appended, the attempt is
completed with the outcome it means, and the phase of the task moves to that
outcome. Each is an action (`StartCoding`, `FinishCoding`, ...), with `ResumeCoding`
and `ResumeLoop` for what a later process finds. `attempts`, `ledger`, `assessments`,
`notes` and the phase are what the store keeps, `head` and `base` what Git keeps;
`AgentActs` is what an agent does to the worktree, and `OrphanActs` the agent of a
process that died and writes for a while yet. Commits are numbered in order; a
finding is a row with a severity and a status.

`ReviewLedger` translates `findings_ledger.py`, `convergence.py` and `grants.py` once,
as operators on a ledger and a history of assessments; the three loops that use them
(a task's review, the Tech Lead, the Supervisor) share it.

`TaskEnvironment` keeps the two records of a preparation, the marker in the worktree and
the attempt in the store, which are written one after the other. Three history
variables that no code can read say what became of the checkout since its last
preparation began: whose commands ran to the end (`installed`), whose relaxed run took it
as it stood (`accepted`), and whether a process without a lease had a hand in it
(`foreign`). A process may take any mode of `Modes`: a `required` one is refused by a
failed command, an `optional` one accepts a checkout that the failure left clean, a
`skipped` one runs nothing. A process that loses its lease within the preparation is not
gone (`Lose`): `StaleInvalidates`, `StaleInstalls` and `StaleMarks` are what it still does
to the checkout beside its successor, while the store refuses its records.

### Planning

`running` holds the open attempt of each phase, with the request it answers and, for
the properties only, the record its prompt was rendered from; `doing` is the process
at work. A turn is begun by discarding, recovering or invoking (`BeginTurn`), and
completed in the transaction that stores what its result means, one action per
result (`StoreQuestions`, `AcceptPlan`, `StoreReview`, `StoreBatch`, ...). A command
runs one loop after the other as `cli.py` and `workflow_service.py` do; one planning
command runs at a time, while an approval (`BindRead`, `BindPublish`, `BindCommit`)
may be under way in a process of its own. `Die` may come at every step; `PowerLoss`
also undoes what was not synced.

Abstracted there: rows that nobody reads again are forgotten at the gates
(`CloseLoop`); a state version is compared only with the one a binding has seen, so
two values suffice; a plan gets a name once the operator can see it; a rejection
leaves fewer findings than the round before, or not; an abandoned attempt is taken
to hold a result, since it is discarded whatever it holds; verification by the store
and its commit are one step; trees drift before promotion only.

### Run control

Handler, dispatcher, delivery threads and workers are separate processes; a locked
section is one step except where the handler, which takes no lock, may look into it
(`lock`). A worker opens a window, creates a child, registers it, runs it and cleans
up (`ChildProcess`); the handler and the dispatcher each take their snapshot in
steps, and either may ask for force. Force callbacks do not fail; children of the API
adapters have no process group of their own (`plain`); clean-up children are not
terminated and have a deadline; identities of processes are not reused.

### Operator modules

Pure code (validators, schema normalisation, selection, estimates, scores) is
modelled as operators whose inputs are records of what the code looks at. Loops
whose environment can be written down in advance (retries of a turn, a conversation)
take a script of what happens. `RepositorySetup` gives the successors of a home and a
process as a set, so that the reachable homes can be computed as a fixpoint
(`Closure`) inside an assumption.

## 3. What TLC checks

| Run | Instance | Properties | What it shows |
|---|---|---|---|
| `store_chain` | one Borg; two tasks in a chain in `g1`, an empty replacement `g2`; two runs, three claims, lease 2, time to 3, skew 1 | `TypeOK`, `OneRunPerBorg`, `OneCurrentGeneration`, `OpenClaimIsBacked`, `ActiveTaskIsClaimed`, `DependenciesDone`, `CompletedRunIsComplete`, `ImplementsBoard`, `StaleOwnerIsFenced` | the tables stay consistent and implement the board |
| `store_task` | one task, two runs, two claims, one attempt, one worktree, one review round | `OpenAttemptIsBacked`, `RequeueKeepsProgress`, `HistoryIsImmutable` | interruption closes attempts and keeps progress |
| `scheduler_takeover` | two processes, one task, lease 2, heartbeat 1, time to 3 | `SchedulerTypeOK`, `RunningWorkerOwnsItsTask`, `EndedProcessLeavesNoLiveRun` | suspension, crash and takeover, and every way out of the loop |
| `scheduler_drain` | one process, two threads, two tasks in reverse order, fair | `FailedRunLeavesNothingReady`, `CancellationEndsTheRun` | the loop neither gives up early nor hangs |
| `publication_crash` | three processes, two tasks, six commits; crashes, cancellation, files left in worktrees, a moving source branch | `CleanMergeSurvivesCrashes`, `OnlyTrustedCommitsArePublished` | every point a clean merge can stop at is recognised |
| `publication_takeover` | two processes at once, two tasks, six commits; failing agents and catalogs, a moving source branch | `TypeOK`, `DoneIsPublished`, `OnlyTrustedCommitsArePublished`, `BaseAdvancesAsAttested` | two publishers cannot lose or forge work |
| `pipeline_review` | one task, two preparation plans in three modes, one round with one grant, two severities, two findings, one crash, stop or lost lease, every effect of an agent; fair | `PipelineTypeOK`, `ApprovedCommitWasReviewed`, `CompletedTurnsAreNotRepeated`, `BudgetBoundsGrinding`, `LedgerFollowsTheRounds`, `FixIsPrepared`, `PreparedForThisPlan`, `ClaimEnds` | nothing is merged unreviewed, no turn is repeated, and the loop ends, whatever dies, unless one wait does not |
| `planning` | one Borg, one change, one question round, one plan that raises more (two while unattended), rounds of one with one grant, crashes and power losses without bound; fair | `StateFollowsTheRecord`, `TurnsFitTheirPrompt`, `ApprovalBindsTheReviewedPlan`, `RoundsStayInBudget`, `PublishedTasksAreWhole`, `CommandsEnd` | the Borg never runs ahead of its record, results and approvals are of what was shown, and commands end |
| `run_control` | one worker with one child after the other, an optional follow-up, two presses (a third changes nothing); fair | `NoChildOutlivesTheRun`, `ForceReachesEveryChild`, `InterruptEndsTheRun` | no child is left behind and nobody waits for ever |

Three further runs are expected to find a violation, and are the findings below:
`scheduler_cancelled_task`, `scheduler_keyboard` and `publication_resume`.

### Promises of the operator modules

An `ASSUME` of an `MC` module quantifies over every small input, and TLC refuses to
start a run whose assumptions do not hold. Each has been seen to fail for a changed
operator.

| Module | Evaluated by | Assumptions |
|---|---|---|
| `MCPlanValidation` | `planning` | the search for cycles finds them (`SearchFindsTheKnots`), a valid plan can be decomposed (`ValidPlansCanBeDecomposed`), the order of stages respects what it rests on (`AncestorsComeFirst`), a graph without issues can be executed (`CleanGraphsCanBeExecuted`, `OrderExcludesCycles`), a repair leaves fewer issues (`RepairsShrink`), a body fits its budget (`BodiesFit`) |
| `MCTaskPipeline` | `pipeline_review` | an accepted run gets its secrets (`AcceptedRunsGetTheirSecrets`), a dropped check asks for nothing, leniency never refuses, evidence has no order, the guard blames what the phase changed |
| `MCAgentRuntime` | `planning` | a completed turn returns its last answer, turns and conversations end, each attempt is paid for once, every call is answered, a cancelled turn stops, Codex can give every answer the contract has and its placeholders leave no trace (`EveryAnswerCanBeGiven`, `PlaceholdersLeaveNoTrace`), unknown keywords reject, estimates grow with the work and unknown prices are never free |
| `MCAgentPolicy` | `store_task` | subscriptions come first, host access is granted and never assumed, listed files can be read and nothing outside can, a refused patch changes nothing and an applied one is whole, grants bind tools |
| `MCRepositorySetup` | `store_task` | a recorded initialisation is complete, an interrupted one resumes, a home serves one repository, two initialisers agree, an analysis refreshes everything, ranking is total, claims rest on discovered files |

### Bounds, and why they suffice

- *Two runs or processes*: every property is about an owner and whoever takes
  over from it; a third adds a second takeover of the same kind. Publication after
  crashes uses three, so that a resumed publication can crash and resume. The exception is
  `OnlyTrustedCommitsArePublished`, which depends on at most one of the processes being
  stale: see *Publication* under the observations.
- *Two tasks*: the least with a dependency, or with one task moving the base
  under another. Where the order in which tasks are tried matters
  (`scheduler_drain`), the first depends on the second.
- *Lease 2, heartbeat 1, time 3*: a lease can be renewed once before it expires,
  once late, and expire for good; skew 1 makes a reading stale at the boundary.
- *One task in the pipeline*: its properties are about one task and whoever takes it
  over; the store and `Publication` are about several. Two plan keys suffice to confuse a
  marker; two findings are the least with one resolved and one regressed, and those of one
  round are declared in one order only; one crash or
  stop at any point, with the process that follows, reaches every resumption, and an
  agent or a process that outlives its lease works beside the next one. Crashes within
  the preparation are not bounded; one process at a time goes on without its lease.
  One round with one grant has both kinds of round: a budget of zero is only in the
  theorem.
- *One Borg*: planning commands of different Borgs share nothing. Deaths are not bounded.
  One round with one grant has the boundary of minimum and budget next to each other.
  `MaxOpenPlans` bounds the plans that raise questions while somebody answers them, which
  the code does not. Where nobody does, the code's own cap ends them, so `MayOpen` adds
  that cap to the bound: the instance reaches it.
- *One worker for run control*: each property is about one child; an instance with two
  workers (nine million states) has been checked as well and is too long for a
  regular run. Handler and dispatcher do not overlap in their snapshots
  (`Overlap = FALSE`), see the observations.
- *Six commits*: root, two approved ones, and three for merges and the user's own
  commits, enough for both tasks to merge and the base to move in between.
- `MaxAttempts`, `MaxReviewRound`, `Explored` and `ResumePhase` bound what is only
  counted or copied.
- Deadlock is not checked: time, rows and commits run out, and the program stops.
- Symmetry is declared on interchangeable identities in safety runs only.

### Fairness

Every other run is about safety. In `scheduler_drain` each main thread is weakly fair, since nothing in the loop
blocks but bounded waits and store calls that end; each worker is
weakly fair only for *ending* once its task has ended or its token is set
(`WorkerReturns` or `WorkerStops`), which is what the adapters do on
cancellation. No agent is assumed to finish, no clock to advance, no user to act.

Nothing in the code bounds the time of an agent turn (`AgentRunSpec`,
`agent_runtime/base.py:732-748`, has no timeout; `run_streamed` polls until the child
ends; `turns.py:227-244` calls the agent without one) or of a preparation or check command
(`environment.py:534`). So no run assumes that one ends. In `pipeline_review` weak fairness
is of `OwnStep`, the steps the program takes by itself, and not of `Awaited`, the ends of
turns, commands and merges; in `planning` it is of a running command while no agent is at
work and no operator is asked. `ClaimEnds` and `CommandsEnd` therefore say that nothing
*else* goes on for ever: no retry, no rejected review, no refused result, no resumption.
What they exempt is one wait that never ends, not an endless number of them, but for an
operator who answers one plan's questions after the other, which the code lets go on.
Nobody is assumed to run the next command or to approve. In `run_control` the handler, the
dispatcher, the delivery threads, the grace timer and the instrumented steps of a worker
are weakly fair, the main thread and the work of a child are not.

### Findings

1. **A cancelled task may be recorded as failed** (`scheduler_cancelled_task`). The
   loop looks at the token once, before it settles futures; an agent that stops
   resumably in between leaves a nonterminal status, which
   `_settle_completed` turns into FAILED, contrary to the comment in
   `_agent_phase.py`.
2. **A worker that is not registered yet is not waited for**
   (`scheduler_keyboard`). A `KeyboardInterrupt` between `executor.submit` and the
   store into the table interrupts the run under a live worker.
3. **A published task is blocked when it is resumed** (`publication_resume`). After
   a crash between fast-forward and DONE, the merge phase returns a tip whose base
   is the published commit, and the attested advance is never recognised.

The runs also settled a question that turned out well: `_settle_completed` re-reads
a status that another process may have reset to `pending` and then raises; the
run has ended by then in every case (`EndedProcessLeavesNoLiveRun`).

### Observations

Met while modelling; each is in the models as the code has it. None contradicts a
checked property.

- *Pipeline.* When an optional preparation failed, a resumed claim reuses its marker
  without a note, so that coding agent is not told, as `docs/commands.md` says it is. If
  plans A, B and A again are prepared and the process dies between the marker and the
  completion of the attempt, the task is later blocked by "marker has drifted". Commits
  of an interrupted coding attempt lie below the base of the next. A fix that committed
  and was interrupted makes `_declared_commits` block the task when it resumes.
  A `required` run reuses a checkout that an `optional` run accepted after a failed
  command, or a `skipped` one without a command, since the key of a preparation names no
  mode (`environment.py:92-106`, `299-307`, `396-420`), where `docs/commands.md:418-438`
  has a required command succeed or end the task. A process that lost its lease is
  refused by the store, but its commands and its marker are not (`environment.py:387-393`):
  its marker may vouch for a checkout that its successor is preparing for another plan.
- *Preflight.* The directory of a check must exist in the primary checkout but need not be
  tracked, so it may be missing in a worktree. The stages of both preparation lists count
  for required secrets though one list runs.
- *Publication.* With three processes of which two are stale,
  `OnlyTrustedCommitsArePublished` does not hold as stated. Both passed the checks before
  `git merge` and were suspended there; the third takes over and its merge agent resolves
  and commits the merge that one late `git merge` began, then the one the other began. In the
  trace TLC found, the attested tip has the agent's first commit below it, which no event
  names, though the attempt made it; the runs and the theorem keep to two overlapping
  processes. The refresh of a task that never started moves the project branch outside
  of the lock, so that a clean task verified against the former base is blocked
  (`sanity.py:224-228`), and so is an active merge (`merge.py:716-719`). Files that an
  interrupted check left in a worktree block the task when its merge is resumed
  (`merge.py:302-311`). `CleanMergeSurvivesCrashes` names both as the only exceptions.
- *Planning.* Two planning commands on one Borg are not prevented, and `_run_plan`
  transitions from a Borg it has just read again. The Supervisor's approval is stored
  without a compare-and-set. Two publishers share one staging path. A PM cycle that has
  spent its budget leaves `pm_working` for good, though its message offers to resume;
  cancelled attempts count against it. A second approver may overwrite the Markdown of the
  first, which is then refused as drifted.
- *Run control.* `_request_force` tests `_force_snapshot_captured` and then assigns
  `_forced_windows`: if handler and dispatcher overlap there, one overwrites what the
  other found, and `NoChildOutlivesTheRun` is violated in some eighteen steps
  (`Overlap = TRUE`). It takes a press within a few bytecodes of the other snapshot.
- *Agents.* A child that SIGHUP killed returns -1, which is taken for a cancellation. When
  a later attempt cannot be started the usage of earlier ones is not reported. An
  unresolved `$ref` below `not` is swallowed, so that `not` accepts everything; cycles of
  references recurse without bound (left out). The trust file is read, changed and
  written without a lock, so that one of two grants may be lost and is asked for again. A
  stage that names only its adapter inherits a default model meant for another. A patch
  may fail half written when one target lies below another, or two names reach one
  file.
- *Repository setup.* An analysis whose theme ids resolve to one file name, or to none,
  is reused by every later `init`, which then fails at its improvement PRDs, until the
  state is deleted. A branch without `config.toml` gets a new identity, and the unique
  root then raises. Two analyses at once may each prune the PRDs of the other.
- *Repository analysis.* A citation whose first part is known and whose later part is not
  may be accepted whole (`OnlyLaterPartsEscape`), though `_unknown_citation_parts` says
  that every part is held to the same check.
- *Pull request bodies.* The section of checks that did not run comes first, but is cut
  when it alone is longer than the budget, though its docstring says never.

## 4. What is proved

For all values of the constants allowed by `ConstantsAssumption`: any numbers of
Borgs, generations, tasks, runs, claims, attempts, any dependency relation within
generations, any lease duration, any clock skew.

`TypeCorrect` (`ExecutionStoreProofs`) is `Spec => []TypeOK`, by one lemma per
operation that changes more than a field.

`StoreIsSafe` is `Spec => []Safety`. None of the
invariants is inductive alone, and `Safety` is the conjunction that is, together
with `TypeOK`:

- `OpenClaimIsBacked` needs `OneRunPerBorg`: releasing the claims of one run must
  not requeue a task held by another. `OneRunPerBorg` is preserved by `AcquireRun`
  because it interrupts exactly the running runs of its Borg that are expired, and
  refuses when another is left.
- `ActiveTaskIsClaimed` needs `OpenClaimIsBacked`: a released claim was the only
  one of its task, so requeueing reaches every task that loses its claim.
- `DependenciesDone` and `CompletedRunIsComplete` need that only active tasks change
  status, so done stays done, and that the tasks of a finished run are terminal.
- `OpenAttemptIsBacked` needs `RowsAreLinked`: an attempt made under a claim is of
  that claim's run and task, so interrupting the run reaches it.

The step `TypeOK /\ Safety /\ [Next]_vars => Safety'` has a lemma per operation, over
two shared ones: `InterruptRunsSafe` for any set of runs interrupted together,
and `ReconcileSafe` for any set of claims released inside a live run. The
theorems `RunsAreExclusive`, `ClaimsAreBacked`, `NoTaskIsStranded`,
`DependenciesComeFirst`, `CompletionIsTrue` and `AttemptsAreClosed` follow from it.

`ExecutionStoreActions` looks at single steps from states that satisfy `TypeOK`
and `Safety`. `HistoryStands`, `ProgressSurvives` and `StaleOwnersAreFenced` are the
three action properties, with one lemma per operation: reconciliation touches only
open claims, running attempts and the status column of active tasks
(`ReleaseKeeps`), and `TransitionTask` is the only operation that moves a task on.
`StoreImplementsBoard` is the refinement: every operation that releases claims maps to
`Return` (`ReleaseReturns`), `ClaimTask` to `Take` - that all tasks of a Borg are held by
the taker is `OneRunPerBorg` (`OneRunHolds`) - a terminal transition to `Settle`, and all
else to a stutter. `GenerationsAreExclusive` is inductive by itself.

About `HostScheduler`, from the assumptions of the store and `SchedulerAssumption`: any number
of processes and jobs, any lease and heartbeat. `SchedulerInvariant` (`HostSchedulerProofs`)
is `SchedulerSpec => []IInv`, where `IInv` adds to the types and to `Safety`:

- `Placed`: what each place of a main thread says of its run and its claims, and that its
  clock reading is of the past.
- `Leased`: an open claim has exactly the lease of its run. Callers of the store in
  general may break this with old readings; one process reads its clock in order, so a
  renewal, a claim or a round that claims nothing never finds an expired claim under a
  live run, and the reconciliation inside them has nothing to do (`NothingExpires`).
- `Closed`: a claim is released by the end of its task or of its run, nothing else.
- `Threaded`: a running worker is of a claim of a process past its setup; no process at
  `interrupt` has one in its table; without SIGINT it is in the table or about to be.
- `Settling`: while its run lives, the status a settlement expects is still the durable
  one, since nobody else can move that task. Hence its error path is never taken.
- `Accounted`: an open claim is in the table, on its way there, held by a process that
  is ending, or its run is too late to be renewed (`Overdue`). A claim dropped by a
  submission that sees the token is of a process about to drain, and one whose
  settlement lost its ownership is of a run whose lease has ended.
- `Finishing`: a process about to finish has nothing in its table and, while its lease
  lasts, no pending task that could start; the verdict it read still holds.

The proof separates the two halves of a step. What it does to the tables is one of eight
effects (`Effects`, over one lemma per operation: `Cancels`, `Begins`, `Renews`, `Takes`,
`Moves`, `Finishes`), what it does to a process's own variables is done by that process
(`OwnStep`); each part of `IInv` then has one lemma. `TablesStaySafe` needs the lemmas of
the store for readings of any age, because overdue heartbeats are caught up with theirs.
`SchedulerTypes` and `EndedProcesses` are parts of `IInv`: a process on a way out that has
given up its run has seen it end or its lease run out (`Leaving`), and only `broken` has not; `FailedRunsAreStuck` is the
action property, from `Finishing`. `LiveWorkKeepsItsTask` adds that a claim about to be
worked on owns its task (`Owning`), and assumes `~ KeyboardInterrupts`: with them, the run
`scheduler_keyboard` shows that it fails.

About `Publication`, from `PublicationAssumption` alone: any tasks, processes and
commits, and any set of disturbances. `PublicationInvariant` (`PublicationProofs`) is
`Spec => []IInv`, where `IInv` adds to `TypeOK` and `DoneIsPublished`:

- `LocalsOK`: a worker that has read the project branch has a base, one past its
  merge a tip, an ended agent a verdict; without it the types of what a step writes
  are unknown.
- `HistoryOK`: ancestry is transitive and ancestors exist. Merging keeps it because a
  new commit is in no history yet (`ExtendsKeeps`), and it is what lets a fast-forward
  keep everything already published (`ProjectGrows`).
- `Contained`: a tip that was verified or attested contains the approved commit of its
  task, and so does the project branch after the advance.
- `Removed`: the owner of a task finds its worktree gone at the final transition. Only
  the owner can be there, and only a setup brings worktrees back, which releases
  every claim first.

`DoneMeansPublished` and `PublicationTypes` follow. `AdvancesAreAttested` is the action
property. `fast_forward_branch` is given only the new tip and takes any proper ancestor of
it for the old one, so that a late worker could move the branch from a commit its tip was
never checked against. It cannot, which `BasesAreTight`, `Spec => []BaseInv`, shows:

- `Tight(b, h)`: of the commits that contain `b`, `h` has none but itself and `b`. A merge
  of `b` into a head without `b` is tight on `b` (`MergeIsTight`): what it takes from the
  head does not contain `b`, and of what it takes from `b` only `b` does.
- `HeadIsTight`: every task branch is tight on the project branch. It stays so when the
  project moves on, because bases are past values of the project (`PastBases`) and
  history has no cycle (`Acyclic`).
- `TipIsTight`: a tip about to be published is tight on its base. A worker that finds the
  project branch strictly below its tip finds a descendant of its base there, so it finds
  the base itself, which is what its attestation names.

The other two properties are about who works beside whom. `ProcessesFollowOneAnother`
assumes that no process outlives its lease (`"lapse" \notin Disturbances`), and is
`Spec => []SoloInv`:

- `Alone`: one process is active, its workers hold their tasks, and one is in the lock.
- `Undisturbed`: every task branch contains its approved commit, and a worktree is missing
  only in the hands of a worker about to finish. Nothing is said of the project branch:
  a refresh may move it under any worker.
- `CleanTasks`: as long as no merge of a task was announced as conflicting, HEAD of its
  worktree is the approved commit or an announced one whose base is published, and a worker
  about to merge makes the one from the other. Each point of interruption is then one the
  next claim recognises.

`CleanMergesSurvive` follows, by going through every step that blocks a task
(`CleanSurvives`): the worktree is dirty at that step, or the base the worker read is no
longer the project branch. It also assumes that catalogs pass, for one that fails does
block the task.

`OwnersAreKnown` and `PublishedIsTrusted` assume that, or that there are no more than two
processes, which may overlap at any point (`TwoProcesses`). Agents and catalogs may do
what they like.

- `Claims`: of the workers at work, those of the active process hold their tasks and the
  others do not, and while both kinds are at work nobody can come to take over again.
- `TrustInv`: the project branch and every verified tip have only trusted commits, a
  worktree has none but its HEAD that is not, and HEAD is trusted while it is merged into.
- `MergeOK`: the last part is what a late `git merge` could break, since its process tested
  HEAD and MERGE\_HEAD before it was suspended. Let the suspended worker be the first of the
  two. Whatever the owner merges meanwhile has a later base, so contains that of the first:
  `git merge` then finds its base merged already and changes nothing. Until that happens,
  HEAD is the commit the merge was announced from, and making it makes the announced tip.
  What the first leaves to the owner is a HEAD the owner finds trusted. With a third
  process there are two such workers, and the later can merge on top of what the earlier
  began: the observation above. TLC checked `Claims` and `TrustInv` on the states of two instances.

About `PlanningBorg`, from the assumptions on its constants alone: any rounds, budgets,
caps, retries and bounds, with or without drifting files. `InvariantHolds`
(`PlanningProofs`) is `Spec => []IInv`, where `IInv` adds to `TypesOK` and the three
properties:

- `Working`: a phase has its agent or its result only while the Borg is in the state that
  phase belongs to; without it a stored result could move the Borg from anywhere. It is
  kept because the approval, which runs beside, moves the Borg only out of
  `plan_approval_pending`, where no phase has a turn.
- `Supervising`: a batch is reviewed until one review approved it, nothing after an
  approval moves the Borg back, and before the plan is approved no batch is owed.
- `Bound`: while an approval is under way, the version it has seen comes with the state
  and the plan it has seen or not at all (`TransitionMoves`), and what it published stands;
  once bound, nobody binds again. This makes the compare-and-set of `BindCommit` enough.
- `Publishing`: at each place of the publisher, the staged or the published tree is of the
  approved batch, which is not current before its promotion.

Most steps go through three lemmas: `QuietKeeps` (the process moves, the Borg and its
publication do not), `BeginKeeps` (a turn begun where its phase has one) and
`DraftingKeeps` (a transaction before the approval). `StateAlwaysFollows`, `ApprovalsBind`
and `PublishedStaysWhole` are the three properties.

`BudgetsHold` (`PlanningBudgetProofs`) adds four parts to `IInv`, and `RoundsAreBounded`
follows from it:

- `Graded`: assessments are numbered in order, and a Borg that is not blocked has a round
  left. The decision that reads the grants (`Goes`) is taken on the same history that the
  round is appended to, so refunds cancel out (`RefundsAreCounted`).
- `Counted`: a failure of the Project Manager is one of an attempt that was counted when it
  began, so as much as may fail has failed only after an attempt that FAILED, which is
  when the budget is read. The bound on the counter needs its own case: no cycle
  continues past `MaxAttempts`.
- `Asked`: an answer at work was begun below the cap.
- `Held`: a turn at work has its row, which ties the other three to the turns.

`PromptsAreCurrent` (in the same module) is about the attempts that stay RUNNING when a
process dies. A request does not say all that its prompt shows, so `TurnsAlwaysFitTheirPrompt`
needs to know why the two cannot differ when an attempt is taken up:

- A row of the Architect's questions or plan, of a review, or of a batch belongs to the one
  place where its phase is asked again (`Stands`), and the Borg leaves that place only in
  the transaction that completes the row (`EndingLeavesNone`).
- A row of an answer stays behind when the operator answers instead. Its request names its
  question, which is asked only while it is pending, and questions are only added within
  a cycle (`AnswersRow`, `AnswersAge`).
- So does a row of a note when the note is assembled instead. Its request names its round,
  whose note is due once (`SteeringRow`, `NotesAge`); approvals and changes of the plan
  start another scope.

Each move of the Borg is one lemma that ends in `MovesLeaveRowsBehind`, each other step one
that ends in `StageStays`.

About `TaskPipeline`, from `PipelineAssumption` alone: any minimum of rounds and any
budget, any preparation plans, severities and effects of an agent, any number of
crashes and stops, each followed by a new process. `PipelineInvariant`
(`TaskPipelineProofs`) is `PipelineSpec => []IInv`, where `IInv` is `Shapes` (the types)
and six parts, each with one lemma over all the actions:

- `Placed`: where the process is, and what the row of the task says there. The row is
  all that survives a crash, so every way back in is a case of it.
- `Recorded`: each completed attempt has the phase and the round that the one before it
  led to (`Follows`). `CompletedTurnsAreNotRepeated` is in it, since rounds never go back
  and only a review can raise them.
- `Positioned`: the row waits for the next attempt (`Due`), or for the outcome of the last
  one to be applied (`Completed`): a crash between the two transactions of a turn leaves
  exactly the second, and `ResumeLoop` tells them apart.
- `Reviewed`: a review is of the commit declared when it began, which is the one of the
  last declaring attempt (`LastDeclares`), and an approval leaves nothing open.
- `Assessed`: rounds are assessed once, and past the minimum each is charged or refunded
  (`Accounted`), which bounds them by the budget.
- `Prepared`: a marker says what became of the checkout (`Vouched`): its plan's commands ran
  to the end, a run of its plan accepted it, or a process without a lease meddled. It is
  removed before the commands run and written after them, so no process that finds it is
  misled by an interrupted one; what a stale process may do is the last part. Its steps
  leave all else alone, so they are one lemma for each part (`StaleShapes`,
  `StalePrepared`).

The seven theorems after it are the safety properties of the run.

About `RunControl`, for any number of worker threads: `RunControlInvariant`
(`RunControlProofs`) is `Spec => [](ForceInv /\ ControlTypes)`, whatever `Overlap` is.
Beside the types, `ForceInv` says where a worker is in the life of its child, with which
window, registration and lock (`WorkerStages`); that the signal comes before the state and
the state before the delivery (`ForceIsOrdered`); and that every registration has its
force claimed, a late claim keeping the window open (`ForceIsClaimed`).
`ForceReachesAll` follows from the three: what is registered and still lives after the
delivery has a claim that is late. `NobodyIsLeftBehind` assumes `~Overlap`, without which
it is false, and adds `ExitInv`, in three parts:

- `OneSnapshot`: who is between the request and the snapshot. The handler asks first or
  not at all, and while it is at it the dispatcher waits in `select`; here alone
  the assumption is used.
- `SnapshotIsFinal`: nobody is admitted after the signal, so a snapshot taken when nobody
  was opening a window covers every window there will be (`Sealed`). It is why the handler
  reads who is opening before it reads the windows.
- `OutsidersAreKilled`: what lives outside of the windows is registered, so it was aimed
  at, and killed when its group made that possible.

`StepsAreContained` is what both need of all the other threads: once the signal is set, a
step admits nobody, opens no window, and leaves no child alive whose window it closes.
TLC checked `ForceInv` and `ExitInv` on every state of the run's instance before the proof.

### Only model-checked

The promises of the operator modules, some of which are recursive, and liveness
(`CancellationEndsTheRun`, `ClaimEnds`, `CommandsEnd`, `InterruptEndsTheRun`), which is out
of the prover's reach, as is anything about ENABLED. Every other property of a passing run
is stated by a theorem, under the assumptions named with it.

## 5. Plan

Done, in this order: `ExecutionStore` with `TaskBoard`, `HostScheduler`, `Publication`,
`TaskPipeline` with `ReviewLedger` and `TaskEnvironment`, `PlanningBorg` with its parts and
`TaskPublication`, `RunControl`, and the operator modules. What is worth doing next:

1. Restate `OnlyTrustedCommitsArePublished` with the commits of the agent's turn, so that
   it covers two stale processes, and prove that.
2. Compose `TaskPublication` with `Promote` of the store, and a second planning process.

## 6. Not modelled

The reason per component is in `PROJECT.json`. The progress display, the MCP server and
the plugins render or forward what other components decide and keep no state that
properties could be about; they are most of the code that no module covers. SQL schema
migrations and the npm launcher are static. Of modelled components these parts are left
out: rendering of prompts and of tasks, command lines, wire formats and the HTTP child of
the API adapters, the mock adapter, worktree adoption and quarantine, repository
discovery, parsing of configuration, the PRD conversation and onboarding, and read-only
queries of the store.
