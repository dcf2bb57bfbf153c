----------------------------- MODULE TaskPipeline -----------------------------
(***************************************************************************)
(* One task on its way from a claim to its merge: HostTaskRuntime          *)
(* (host_execution/service.py), the coding phase (coding.py), and the      *)
(* review and fix loop with its steering turns (review.py).                *)
(*                                                                         *)
(* An agent turn spans three durable steps (its attempt is appended; the   *)
(* attempt is completed with the outcome it means; the task's phase moves  *)
(* to that outcome), and the process may die, lose its lease or be stopped *)
(* between any two.  The agent of a process that died lives on for a while *)
(* and may still write to the worktree of a task another process resumed.  *)
(***************************************************************************)
EXTENDS ReviewLedger, TaskEnvironment

CONSTANTS
    MinRounds,     \* HostReviewFixConfig.review_passes
    GrantBudget,   \* HostReviewFixConfig.grant_budget
    Modes,         \* the PreparationMode of the runs
    Severity,      \* severities reviewers use
    Effects,       \* what an agent may do to the worktree in one turn
    MaxFinding,    \* bound on the rows of the ledger
    MaxFresh,      \* bound on the findings one review raises
    MaxStops       \* bound on crashes, stops and provider give-ups

ASSUME PipelineAssumption ==
    /\ MinRounds \in Nat \ {0}
    /\ GrantBudget \in Nat
    /\ Modes \subseteq {"required", "optional", "skipped"}
    /\ Severity \subseteq {"blocker", "major", "minor"}
    /\ Effects \subseteq {"commit", "rewrite", "dirty", "branch"}
    /\ MaxFinding \in Nat
    /\ MaxFresh \in Nat
    /\ MaxStops \in Nat
    /\ NoKey \notin PlanKey

VARIABLES
    task,         \* the task_runtimes row: status, resume, round
    at,           \* where the process that holds the claim is; "idle": none
    resumed,      \* claim.resume_phase, as the claim was made
    turn,         \* the agent turn under way
    outcome,      \* the outcome in hand, between its record and the task's move
    tree,         \* the worktree: HEAD, the commits under it, cleanliness, branch
    attempts,     \* COMPLETED agent attempts, in order
    ledger,       \* execution_finding_ledger
    assessments,  \* review_assessments of the task's loop
    notes,        \* rounds with a steering note
    cancel,       \* the process's cancellation token
    orphan,       \* an agent outlives its process
    commits,      \* commits made so far
    stops         \* crashes, stops and give-ups so far

pipelineVars ==
    <<task, at, resumed, turn, outcome, tree, attempts, ledger, assessments,
      notes, cancel, orphan, commits, stops>>
allVars == <<pipelineVars, envVars>>

Terminal == {"done", "blocked", "failed"}
NoTurn == [phase |-> "none", acted |-> FALSE, base |-> 0]
NoOutcome == [status |-> "none", resume |-> "none", round |-> 0]

Nothing == UNCHANGED <<attempts, ledger, assessments, notes>>
SameWorld == UNCHANGED <<tree, orphan, commits, stops>>

(***************************************************************************)
(* Moving the task: context.transition, without the claim it is fenced by. *)
(***************************************************************************)
Move(status, resume, round) ==
    task' = [status |-> status, resume |-> resume, round |-> round]

\* Every refusal that blocks the task where it stands.
Block ==
    /\ Move("blocked", task.status, task.round)
    /\ at' = "returned"
    /\ UNCHANGED <<resumed, turn, outcome, cancel, envVars>>
    /\ Nothing /\ SameWorld

Control(label) ==
    /\ at' = label
    /\ UNCHANGED <<task, resumed, turn, outcome, cancel>>
    /\ Nothing /\ SameWorld

\* An environment error; in a stopped run it is a KeyboardInterrupt instead,
\* which leaves the task as it is.
StopOrBlock ==
    IF cancel THEN Control("returned") /\ UNCHANGED envVars ELSE Block

(***************************************************************************)
(* Claim and environment.                                                  *)
(***************************************************************************)
\* A new process, with its own plan and token, claims the pending task.
Claim ==
    /\ at = "idle"
    /\ task.status = "pending"
    /\ task' = [task EXCEPT !.status = "claimed"]
    /\ resumed' = task.resume
    /\ key' \in PlanKey
    /\ at' = IF attempted THEN "claimed" ELSE "unstarted"
    /\ cancel' = FALSE
    /\ UNCHANGED <<turn, outcome, attempted, marker, recorded, prepared, stale, ghostVars>>
    /\ Nothing /\ SameWorld

\* _run_claimed_task: the worktree of a claim that never started is moved to the
\* project's base as it is now.  Commit 0 stands for that base: no turn was
\* shown an earlier one.
RefreshUnstarted == at = "unstarted" /\ Control("claimed") /\ UNCHANGED envVars

\* The primary checkout is contaminated or the worktree is not as it was left.
RefreshRefused ==
    /\ at = "unstarted"
    /\ Move("blocked", "blocked", task.round)
    /\ at' = "returned"
    /\ UNCHANGED <<resumed, turn, outcome, cancel, envVars>>
    /\ Nothing /\ SameWorld

\* The guards "if context.cancel.is_set(): return self._durable_status(...)"
ReturnCancelled ==
    /\ at \in {"claimed", "prepared", "merge"}
    /\ cancel
    /\ at' = "returned"
    /\ UNCHANGED <<task, resumed, turn, outcome, cancel, envVars>>
    /\ Nothing /\ SameWorld

EnterEnvironment ==
    /\ at = "claimed"
    /\ ~cancel
    /\ Move("environment", resumed, task.round)
    /\ at' = "environment"
    /\ UNCHANGED <<resumed, turn, outcome, cancel, envVars>>
    /\ Nothing /\ SameWorld

\* materialize_claimed_task refuses: the primary checkout is dirty, a build
\* secret is missing, or a worktree nobody worked in yet has tracked changes.
EnvironmentRefused ==
    /\ at = "environment"
    /\ StopOrBlock

ReuseEnvironment ==
    /\ at = "environment" /\ Reusable
    /\ Control("ready") /\ UNCHANGED envVars
StartPreparing ==
    /\ at = "environment"
    /\ Invalidate
    /\ Control("preparing")
CommandsSucceed ==
    /\ at = "preparing" /\ Install /\ Control("installed")
CommandsFail ==
    /\ at = "preparing" /\ Control("unprepared") /\ UNCHANGED envVars
\* A process whose preparation is skipped has no command to run.
SkipCommands ==
    /\ at = "preparing" /\ "skipped" \in Modes
    /\ AcceptUnprepared /\ Control("marked")
\* _record_attempt on a failure: survived when optional, unless the run stops.
AcceptFailure ==
    /\ at = "unprepared" /\ "optional" \in Modes /\ ~cancel
    /\ AcceptUnprepared /\ Control("marked")
PreparationFails ==
    /\ at = "unprepared"
    /\ StopOrBlock
MarkPrepared == at = "installed" /\ WriteMarker /\ Control("marked")
RecordPreparation == at = "marked" /\ RecordPrepared /\ Control("ready")

\* ENVIRONMENT -> CODING; reclaimed agent work keeps its resume phase.
LeaveEnvironment ==
    /\ at = "ready"
    /\ Move("coding", IF resumed = "environment" THEN "coding" ELSE resumed,
            task.round)
    /\ at' = "prepared"
    /\ UNCHANGED <<resumed, turn, outcome, cancel, envVars>>
    /\ Nothing /\ SameWorld

(***************************************************************************)
(* _restore_resume_phase.  A resume phase it does not know would block the *)
(* task; no transition of this code records one.                           *)
(***************************************************************************)
RouteToCoding ==
    /\ at = "prepared" /\ ~cancel
    /\ resumed \in {"environment", "coding"}
    /\ Control("coding") /\ UNCHANGED envVars

RouteToReview ==
    /\ at = "prepared" /\ ~cancel
    /\ resumed \in {"review", "fix", "merging"}
    /\ Move("review", resumed, task.round)
    /\ at' = IF resumed = "review" THEN "loop" ELSE "restoring"
    /\ UNCHANGED <<resumed, turn, outcome, cancel, envVars>>
    /\ Nothing /\ SameWorld

RestoreLaterPhase ==
    /\ at = "restoring"
    /\ Move(resumed, resumed, task.round)
    /\ at' = IF resumed = "fix" THEN "loop" ELSE "merge"
    /\ UNCHANGED <<resumed, turn, outcome, cancel, envVars>>
    /\ Nothing /\ SameWorld

(***************************************************************************)
(* Agent turns.                                                            *)
(***************************************************************************)
\* append_agent_attempt, and the adapter is started.
StartTurn(phase) ==
    /\ turn' = [phase |-> phase, acted |-> FALSE, base |-> tree.head]
    /\ at' = "turn"
    /\ UNCHANGED <<task, resumed, outcome, cancel, envVars>>

Changed(effect) ==
    CASE effect = "commit"  -> [tree EXCEPT !.head = commits + 1,
                                            !.under = @ \cup {commits + 1}]
      [] effect = "rewrite" -> [tree EXCEPT !.head = commits + 1,
                                            !.under = (@ \ {tree.head})
                                                      \cup {commits + 1}]
      [] effect = "dirty"   -> [tree EXCEPT !.clean = FALSE]
      [] effect = "branch"  -> [tree EXCEPT !.branch = FALSE]
Made(effect) == IF effect \in {"commit", "rewrite"} THEN commits + 1 ELSE commits

\* The agent writes to the worktree, whatever its turn allows it to do.
AgentActs ==
    /\ at = "turn"
    /\ ~turn.acted
    /\ \E effect \in Effects : tree' = Changed(effect) /\ commits' = Made(effect)
    /\ turn' = [turn EXCEPT !.acted = TRUE]
    /\ UNCHANGED <<task, at, resumed, outcome, cancel, orphan, stops, envVars>>
    /\ Nothing

\* The agent of a dead process writes, or dies too.
OrphanActs ==
    /\ orphan
    /\ orphan' = FALSE
    /\ \/ \E effect \in Effects : tree' = Changed(effect) /\ commits' = Made(effect)
       \/ UNCHANGED <<tree, commits>>
    /\ UNCHANGED <<task, at, resumed, turn, outcome, cancel, stops, envVars>>
    /\ Nothing

\* Turns an adapter ends without its agent's result: the agent failed, the
\* run was stopped, the provider gave up (which stops the run for a turn the
\* task needs), or the guard or Git raised.
Ended == {"failed", "cancelled", "error"}

\* Turns whose agent returned a result: one worth reviewing, one that is not,
\* its own report of failure, or any of them before Git could not be read.
Returned == {"reviewable", "unreviewable", "gave up", "error"}

\* cancelled_agent_reason
StopsRun(how) == how = "cancelled" /\ turn.phase # "steering"
MayEnd(how) == how = "cancelled" => cancel \/ stops < MaxStops
GaveUp(how) == how = "cancelled" /\ ~cancel

\* complete_agent_attempt and what goes with it, in one transaction.
FinishTurn(how, result, label) ==
    /\ MayEnd(how)
    /\ outcome' = result
    /\ turn' = NoTurn
    /\ at' = label
    /\ cancel' = (cancel \/ StopsRun(how))
    /\ stops' = stops + (IF GaveUp(how) THEN 1 ELSE 0)
    /\ UNCHANGED <<task, resumed, tree, orphan, commits, envVars>>

Attested(result, base, sealed) ==
    Append(attempts,
           [phase |-> turn.phase, round |-> task.round, base |-> base,
            commit |-> tree.head, outcome |-> result.status,
            next |-> result.round, sealed |-> sealed])

\* Mutant: the transition names no phase to resume.
OnwardUnnamed(phase) == [status |-> phase, resume |-> "none", round |-> task.round]

Onward(phase) == [status |-> phase, resume |-> phase, round |-> task.round]
Stay == Onward(task.status)
Blocked == [status |-> "blocked", resume |-> task.status, round |-> task.round]
Failed == [status |-> "failed", resume |-> task.status, round |-> task.round]

\* The task moves to the recorded outcome: its own transaction.
ApplyOutcome ==
    /\ at = "outcome"
    /\ IF outcome.status = task.status THEN UNCHANGED task
       ELSE Move(outcome.status, outcome.resume, outcome.round)
    /\ at' = IF outcome.status \in {"review", "fix"} /\ ~cancel THEN "loop"
             ELSE IF outcome.status = "merging" THEN "merge" ELSE "returned"
    /\ outcome' = NoOutcome
    /\ UNCHANGED <<resumed, turn, cancel, envVars>>
    /\ Nothing /\ SameWorld

(***************************************************************************)
(* The coding phase.                                                       *)
(***************************************************************************)
CodedAttempts == {k \in DOMAIN attempts : attempts[k].phase = "coding"}

\* Worktree or inputs not as recorded, or no room for the turn's artifacts.
CodingRefused ==
    /\ at = "coding"
    /\ Block

\* _resume_completed_attempt: the latest completed attempt decides.
ResumeCoding ==
    /\ at = "coding"
    /\ EnvironmentReady /\ tree.branch
    /\ \E k \in CodedAttempts :
         /\ \A j \in CodedAttempts : j <= k
         /\ outcome' =
              IF attempts[k].outcome = "review" /\ attempts[k].commit # tree.head
              THEN Blocked
              ELSE Onward(attempts[k].outcome)
    /\ at' = "outcome"
    /\ UNCHANGED <<task, resumed, turn, cancel, envVars>>
    /\ Nothing /\ SameWorld

\* Mutant: a completed attempt is not looked for.
StartCodingAnew ==
    /\ at = "coding"
    /\ EnvironmentReady /\ tree.branch
    /\ StartTurn("coding")
    /\ Nothing /\ SameWorld

StartCoding ==
    /\ at = "coding"
    /\ EnvironmentReady /\ tree.branch
    /\ CodedAttempts = {}
    /\ StartTurn("coding")
    /\ Nothing /\ SameWorld

\* _classify: a commit descending from the one the turn began on goes to review.
CodingOutcome(how) ==
    IF how = "error" \/ ~tree.branch THEN Blocked
    ELSE IF how = "cancelled" THEN Stay
    ELSE IF how \in {"failed", "gave up"} THEN Failed
    ELSE IF /\ how = "reviewable" /\ tree.head # turn.base
            /\ turn.base \in tree.under
    THEN Onward("review") ELSE Blocked

\* The adapter returned the agent's payload ("gave up" is its status failed);
\* sealing its artifacts may fail, which blocks the task.
FinishCoding ==
    /\ at = "turn" /\ turn.phase = "coding"
    /\ \/ \E how \in Ended : FinishTurn(how, CodingOutcome(how), "outcome") /\ Nothing
       \/ \E how \in Returned, sealed \in BOOLEAN :
            LET result == IF sealed THEN CodingOutcome(how) ELSE Blocked
            IN  /\ FinishTurn(how, result, "outcome")
                /\ attempts' = Attested(result, turn.base, sealed)
                /\ UNCHANGED <<ledger, assessments, notes>>

(***************************************************************************)
(* The review and fix loop.                                                *)
(***************************************************************************)
\* _declared_commits: the first attempt with a commit declares the base, and
\* the last of them, ordered by round, the current commit.
Declaring ==
    {k \in DOMAIN attempts :
        \/ attempts[k].phase = "coding" /\ attempts[k].commit # attempts[k].base
        \/ attempts[k].phase = "fix"}
DeclaredBy(k) == \A j \in Declaring :
    attempts[j].round < attempts[k].round \/ (attempts[j].round = attempts[k].round /\ j <= k)
DeclaredCommit == attempts[CHOOSE k \in Declaring : DeclaredBy(k)].commit
DeclaredBase == attempts[CHOOSE k \in Declaring : \A j \in Declaring : k <= j].base

LoopReady ==
    /\ EnvironmentReady /\ tree.branch
    /\ Declaring # {}
    /\ tree.head = DeclaredCommit
    /\ DeclaredBase \in tree.under
    /\ tree.clean

\* The checks fail, a task input drifted, or there is no room for artifacts.
LoopRefused ==
    /\ at = "loop"
    /\ Block

\* Mutant: rounds are not told apart.
CompletedInAnyRound ==
    {k \in DOMAIN attempts : attempts[k].phase = task.status}

\* Completed attempts of the phase and round the task is in.
CompletedHere ==
    {k \in DOMAIN attempts :
        attempts[k].phase = task.status /\ attempts[k].round = task.round}

\* _resume_completed_attempt: "continue" looks at the token no more.
ResumeLoop ==
    /\ at = "loop"
    /\ LoopReady
    /\ \E k \in CompletedHere :
         /\ \A j \in CompletedHere : j <= k
         /\ LET found == attempts[k]
                matches == found.outcome \in {"review", "merging"}
                             => found.commit = tree.head
            IN  IF matches
                THEN /\ Move(found.outcome, IF found.outcome = "blocked" THEN found.phase
                                            ELSE found.outcome, found.next)
                     /\ at' = IF found.outcome \in {"review", "fix"} THEN "loop"
                              ELSE IF found.outcome = "merging" THEN "merge" ELSE "returned"
                ELSE /\ Move("blocked", task.status, task.round)
                     /\ at' = "returned"
    /\ UNCHANGED <<resumed, turn, outcome, cancel, envVars>>
    /\ Nothing /\ SameWorld

StartReview ==
    /\ at = "loop" /\ task.status = "review"
    /\ LoopReady /\ CompletedHere = {}
    /\ StartTurn("review")
    /\ Nothing /\ SameWorld

LedgerRound == task.round + 1

\* Mutant: only the checkout is looked at, not its HEAD.
WroteFiles == ~tree.branch \/ ~tree.clean

\* A review turn that wrote anything blocks the task.
Wrote == tree.head # turn.base \/ ~tree.branch \/ ~tree.clean

FreshFinding == [severity : Severity, claimed : BOOLEAN]
\* The rows one round raises are interchangeable: one order of each batch will do.
Batches ==
    LET rank(f) == (IF f.claimed THEN 0 ELSE 2) + (IF f.severity = "minor" THEN 1 ELSE 0)
    IN  {b \in UNION {[1..n -> FreshFinding] : n \in 0..MaxFresh} :
           \A i, j \in DOMAIN b : i < j => rank(b[i]) <= rank(b[j])}
Declarations ==
    [repeats : SUBSET DOMAIN ledger, resolved : SUBSET Open(ledger),
     fresh : {b \in Batches : Len(ledger) + Len(b) <= MaxFinding}]

\* An approval carries no finding that holds the task, a rejection at least one.
Sound(verdict, d) ==
    IF verdict = "approved"
    THEN \A k \in DOMAIN d.fresh : d.fresh[k].severity = "minor"
    ELSE d.repeats # {} \/ d.fresh # <<>>

\* One round reconciled: the ledger, its assessment and the outcome it means.
Assessment(after) ==
    LET open == Cardinality(Open(after))
    IN  [round |-> LedgerRound, minimum |-> MinRounds, open |-> open,
         refunded |-> SnapshotRefund(LedgerRound, MinRounds, open, assessments),
         converging |-> Converging(after)]

ReviewOutcome(verdict, assessed) ==
    IF verdict = "approved" THEN Onward("merging")
    ELSE IF Continues(LedgerRound, MinRounds, GrantBudget, assessed.refunded, assessments)
    THEN [status |-> "fix", resume |-> "fix", round |-> LedgerRound]
    ELSE [status |-> "blocked", resume |-> "review", round |-> LedgerRound]

\* Mutant: the attempt is completed without what its round found.
RecordAttemptAlone(verdict, d, sealed) ==
    LET after == Reconcile(ledger, d, LedgerRound, verdict = "approved")
        assessed == Assessment(after)
        result == IF sealed THEN ReviewOutcome(verdict, assessed) ELSE Blocked
    IN  /\ FinishTurn("reviewed", result, "outcome")
        /\ attempts' = Attested(result, DeclaredBase, sealed)
        /\ assessments' = Append(assessments, assessed)
        /\ UNCHANGED <<ledger, notes>>

\* The transaction of _invoke: attempt, ledger and assessment.
RecordReview(verdict, d, sealed) ==
    LET after == Reconcile(ledger, d, LedgerRound, verdict = "approved")
        assessed == Assessment(after)
        result == IF sealed THEN ReviewOutcome(verdict, assessed) ELSE Blocked
    IN  /\ FinishTurn("reviewed", result, "outcome")
        /\ attempts' = Attested(result, DeclaredBase, sealed)
        /\ ledger' = after
        /\ assessments' = Append(assessments, assessed)
        /\ UNCHANGED notes

\* A review that could not review: nothing is reconciled.
ReviewWithoutVerdict(how) ==
    IF how = "error" \/ Wrote THEN Blocked
    ELSE IF how = "cancelled" THEN Stay
    ELSE IF how \in {"failed", "gave up"} THEN Failed ELSE Blocked

FinishReview ==
    /\ at = "turn" /\ turn.phase = "review"
    /\ \/ \E how \in Ended : FinishTurn(how, ReviewWithoutVerdict(how), "outcome") /\ Nothing
       \/ \E how \in {"gave up", "unusable", "error"} :
            /\ FinishTurn(how, ReviewWithoutVerdict(how), "outcome")
            /\ attempts' = Attested(ReviewWithoutVerdict(how), DeclaredBase, TRUE)
            /\ UNCHANGED <<ledger, assessments, notes>>
       \/ /\ ~Wrote
          /\ \E verdict \in {"approved", "issues_found"}, d \in Declarations,
                sealed \in BOOLEAN :
               Sound(verdict, d) /\ RecordReview(verdict, d, sealed)

(***************************************************************************)
(* A fix, and the steering turn a granted fix of a stuck loop begins with. *)
(***************************************************************************)
Verdict == assessments[Len(assessments)].round
\* Mutant: one note serves all grants of the loop.
NeedsFirstNote == StuckRound(assessments) /\ notes = {}

NeedsNote == StuckRound(assessments) /\ Verdict \notin notes

StartSteering ==
    /\ at = "loop" /\ task.status = "fix"
    /\ LoopReady /\ CompletedHere = {}
    /\ NeedsNote
    /\ StartTurn("steering")
    /\ Nothing /\ SameWorld

\* No room for the turn's artifacts: the assembled note stands in.
AssembleNote ==
    /\ at = "loop" /\ task.status = "fix"
    /\ LoopReady /\ CompletedHere = {}
    /\ NeedsNote
    /\ notes' = notes \cup {Verdict}
    /\ at' = "steered"
    /\ UNCHANGED <<task, resumed, turn, outcome, attempts, ledger, assessments,
                   cancel, envVars>>
    /\ SameWorld

\* _classify_steering: a write blocks the task; a stopped run keeps only the
\* note the agent had written; everything else leaves a note and goes on.
FinishSteering ==
    /\ at = "turn" /\ turn.phase = "steering"
    /\ \E how \in Ended \cup {"note"}, breach \in BOOLEAN :
         /\ Wrote => breach
         /\ FinishTurn(how, IF breach THEN Blocked ELSE NoOutcome,
                       IF breach THEN "outcome"
                       ELSE IF cancel THEN "returned" ELSE "steered")
         /\ IF breach THEN UNCHANGED notes
            ELSE IF cancel THEN notes' \in {notes} \cup
                                  (IF how = "note" THEN {notes \cup {Verdict}} ELSE {})
            ELSE notes' = notes \cup {Verdict}
    /\ UNCHANGED <<attempts, ledger, assessments>>

\* The fix of a round that needs no note, or of one just steered.  It answers
\* the open findings; with none left the code would raise, see FixIsPrepared.
StartFix ==
    /\ \/ at = "loop" /\ LoopReady /\ CompletedHere = {} /\ ~NeedsNote
       \/ at = "steered"
    /\ task.status = "fix"
    /\ StartTurn("fix")
    /\ Nothing /\ SameWorld

FixOutcome(how) ==
    IF how = "error" \/ ~tree.branch THEN Blocked
    ELSE IF how = "cancelled" THEN Stay
    ELSE IF how \in {"failed", "gave up"} THEN Failed
    ELSE IF /\ how = "reviewable" /\ tree.head # DeclaredCommit
            /\ DeclaredCommit \in tree.under
            /\ tree.clean
    THEN Onward("review") ELSE Blocked

FinishFix ==
    /\ at = "turn" /\ turn.phase = "fix"
    /\ \/ \E how \in Ended : FinishTurn(how, FixOutcome(how), "outcome") /\ Nothing
       \/ \E how \in Returned, sealed \in BOOLEAN :
            LET result == IF sealed THEN FixOutcome(how) ELSE Blocked
            IN  /\ FinishTurn(how, result, "outcome")
                /\ attempts' = Attested(result, DeclaredBase, sealed)
                /\ UNCHANGED <<ledger, assessments, notes>>

(***************************************************************************)
(* The end of a claim.                                                     *)
(***************************************************************************)
\* Merge and sanity, which module Publication models: the task ends, or the
\* run is stopped under it.
MergePhase ==
    /\ at = "merge" /\ ~cancel
    /\ \E status \in Terminal : Move(status, status, task.round)
    /\ at' = "returned"
    /\ UNCHANGED <<resumed, turn, outcome, cancel, envVars>>
    /\ Nothing /\ SameWorld

Requeue == task' = IF task.status \in Terminal THEN task
                   ELSE [task EXCEPT !.status = "pending"]

\* What the scheduler makes of a worker that returned (module HostScheduler):
\* an unfinished task fails, or goes back to pending with its cancelled run.
WorkerSettled ==
    /\ at = "returned"
    /\ \/ task.status \in Terminal /\ UNCHANGED task
       \/ task.status \notin Terminal /\ Move("failed", "failed", task.round)
       \/ task.status \notin Terminal /\ cancel /\ Requeue
    /\ at' = "idle"
    /\ UNCHANGED <<resumed, turn, outcome, cancel, envVars>>
    /\ Nothing /\ SameWorld

UserStops ==
    /\ at # "idle" /\ ~cancel
    /\ stops < MaxStops
    /\ stops' = stops + 1
    /\ cancel' = TRUE
    /\ UNCHANGED <<task, at, resumed, turn, outcome, tree, orphan, commits, envVars>>
    /\ Nothing

\* No agent works yet, so crashes here need no bound to keep an instance finite.
Preparing == {"unstarted", "claimed", "environment", "preparing", "unprepared",
              "installed", "marked", "ready"}

\* The process dies, or loses its lease where the store fences every write it has
\* left but its agent's; its run is interrupted, which requeues the task and
\* closes the open attempt.
Crash ==
    /\ at # "idle"
    /\ IF at \in Preparing THEN UNCHANGED stops
       ELSE stops < MaxStops /\ stops' = stops + 1
    /\ at' = "idle"
    /\ Requeue
    /\ orphan' = (orphan \/ (at = "turn" /\ ~turn.acted))
    /\ turn' = NoTurn
    /\ outcome' = NoOutcome
    /\ UNCHANGED <<resumed, tree, commits, cancel, envVars>>
    /\ Nothing

\* What a process without a lease still does to the checkout.
GoesOn == [environment |-> "environment", preparing |-> "preparing",
           unprepared |-> "marking", installed |-> "marking"]

\* The process loses its lease where a write is left that nothing fences, or dies
\* and leaves a command running.  Bound: one such process at a time.
Lose ==
    /\ at \in DOMAIN GoesOn
    /\ stale = NotStale
    /\ stops < MaxStops /\ stops' = stops + 1
    /\ at' = "idle"
    /\ Requeue
    /\ Outlive(GoesOn[at])
    /\ UNCHANGED <<resumed, turn, outcome, tree, cancel, orphan, commits>>
    /\ Nothing

StaleGoesOn ==
    /\ StaleStep
    /\ UNCHANGED pipelineVars

PipelineInit ==
    /\ task = [status |-> "pending", resume |-> "environment", round |-> 0]
    /\ at = "idle"
    /\ resumed = "environment"
    /\ turn = NoTurn
    /\ outcome = NoOutcome
    /\ tree = [head |-> 0, under |-> {0}, clean |-> TRUE, branch |-> TRUE]
    /\ attempts = <<>>
    /\ ledger = <<>>
    /\ assessments = <<>>
    /\ notes = {}
    /\ cancel = FALSE
    /\ orphan = FALSE
    /\ commits = 0
    /\ stops = 0
    /\ EnvInit

\* The steps only an agent, a repository's command or a merge's checks can take:
\* none has a timeout.
Awaited ==
    \/ CommandsSucceed \/ CommandsFail
    \/ FinishCoding \/ FinishReview \/ FinishSteering \/ FinishFix
    \/ MergePhase

\* The steps the program takes by itself.
OwnStep ==
    \/ RefreshUnstarted \/ RefreshRefused
    \/ ReturnCancelled \/ EnterEnvironment \/ EnvironmentRefused
    \/ ReuseEnvironment \/ StartPreparing \/ SkipCommands
    \/ AcceptFailure \/ PreparationFails \/ MarkPrepared \/ RecordPreparation
    \/ LeaveEnvironment \/ RouteToCoding \/ RouteToReview \/ RestoreLaterPhase
    \/ ApplyOutcome
    \/ CodingRefused \/ ResumeCoding \/ StartCoding
    \/ LoopRefused \/ ResumeLoop \/ StartReview
    \/ StartSteering \/ AssembleNote \/ StartFix
    \/ WorkerSettled

Worker == OwnStep \/ Awaited

PipelineNext ==
    \/ Claim \/ Worker
    \/ AgentActs \/ OrphanActs \/ UserStops
    \/ Crash \/ Lose \/ StaleGoesOn

PipelineSpec == PipelineInit /\ [][PipelineNext]_allVars

\* A worker's thread goes on wherever it waits for nobody.
FairPipelineSpec == PipelineSpec /\ WF_allVars(at # "preparing" /\ OwnStep)

(***************************************************************************)
(* Properties.                                                             *)
(***************************************************************************)
Row == [status : FindingStatus, first : Nat, last : Nat, severity : Severity]
AssessmentRecord ==
    [round : Nat, minimum : Nat, open : Nat, refunded : RefundRecorded,
     converging : BOOLEAN]
Phase == {"coding", "review", "fix", "steering"}
TaskStatus == Terminal \cup Phase \cup {"pending", "claimed", "environment", "merging"}
AttemptRecord ==
    [phase : {"coding", "review", "fix"}, round : Nat, base : Nat, commit : Nat,
     outcome : TaskStatus, next : Nat, sealed : BOOLEAN]

\* Every variable keeps its shape.
PipelineTypeOK ==
    /\ task \in [status : TaskStatus, resume : TaskStatus, round : Nat]
    /\ tree \in [head : Nat, under : SUBSET (0..commits), clean : BOOLEAN, branch : BOOLEAN]
    /\ attempts \in Seq(AttemptRecord)
    /\ ledger \in Seq(Row)
    /\ assessments \in Seq(AssessmentRecord)
    /\ notes \subseteq Nat
    /\ {cancel, orphan} \subseteq BOOLEAN
    /\ {key, prepared, marker, installed, accepted} \subseteq PlanKey \cup {NoKey}
    /\ recorded \subseteq PlanKey
    /\ {attempted, foreign} \subseteq BOOLEAN
    /\ stale \in [at : {"none", "environment", "preparing", "marking"},
                  key : PlanKey \cup {NoKey}]

\* Nothing is merged that nobody approved: when a task is merging or done, its
\* last completed turn is a review that approved exactly the commit the task
\* declares, no later turn has moved that commit, and no objection is open.
\* Crashes, resumed outcomes and agents that outlive their process included.
ApprovedCommitWasReviewed ==
    task.status \in {"merging", "done"} =>
        /\ attempts # <<>>
        /\ LET last == attempts[Len(attempts)]
           IN  /\ last.phase = "review" /\ last.outcome = "merging"
               /\ last.commit = DeclaredCommit
        /\ Open(ledger) = {}

\* A completed turn is never paid for twice: however often the process dies
\* between completing an attempt and moving the task, a coding turn, and a
\* review or a fix of one round, completes at most once.
CompletedTurnsAreNotRepeated ==
    \A j, k \in DOMAIN attempts :
        /\ attempts[j].phase = attempts[k].phase
        /\ attempts[j].round = attempts[k].round
        => j = k

\* The budget bounds how long the loop may grind: a review that rejected goes
\* on to a fix exactly while a round of the minimum is left or fewer granted
\* rounds than the budget have closed nothing (grants.py says both).
RoundsLeft(k) ==
    \/ assessments[k].round < MinRounds
    \/ Charged(SubSeq(assessments, 1, k)) < GrantBudget
RejectedAt(a, k) ==
    /\ a.phase = "review" /\ a.sealed
    /\ a.round + 1 = assessments[k].round
    /\ a.outcome # "merging"
BudgetBoundsGrinding ==
    \A j \in DOMAIN attempts, k \in DOMAIN assessments :
        RejectedAt(attempts[j], k) => (attempts[j].outcome = "fix" <=> RoundsLeft(k))

\* The ledger, the assessments and the attempts are of one round: each review
\* that reconciled left one assessment, its count of open objections is still
\* the ledger's, and every open objection was re-established in that round.
LedgerFollowsTheRounds ==
    /\ \A k \in DOMAIN assessments : assessments[k].round = k
    /\ \A j \in DOMAIN attempts :
         attempts[j].phase = "review" /\ attempts[j].outcome \in {"fix", "merging"} =>
             attempts[j].round + 1 \in DOMAIN assessments
    /\ assessments # <<>> =>
         LET last == assessments[Len(assessments)]
         IN  /\ last.open = Cardinality(Open(ledger))
             /\ \A i \in Open(ledger) : ledger[i].last = last.round

\* A fix answers something, and the fix of a granted round whose review called
\* the loop stuck runs on a note, also after the process that had it written
\* died (review.py raises without findings, and steers each grant once).
FixIsPrepared ==
    at = "turn" /\ turn.phase = "fix" =>
        /\ Open(ledger) # {}
        /\ StuckRound(assessments) => Verdict \in notes

\* A marker left by another plan, or by a preparation that was interrupted, is
\* never believed: an agent only works in a checkout that its own plan's commands
\* prepared to the end, or that a relaxed run of the same plan took unprepared,
\* unless a process that had lost its lease meddled since (environment.py,
\* _materialize_worktree and _record_attempt; coding.py and review.py).
PreparedForThisPlan ==
    at = "turn" => installed = key \/ accepted = key \/ foreign

\* A claim comes to an end, however its reviews go: the process that holds it
\* settles the task or hands it back, unless it waits for ever for one agent
\* turn, one preparation or the checks of one merge, none of which the code
\* bounds in time.
ClaimEnds ==
    \/ []<>(at = "idle")
    \/ <>[](at = "turn") \/ <>[](at = "preparing") \/ <>[](at = "merge")
=============================================================================
