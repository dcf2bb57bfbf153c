----------------------------- MODULE Decomposition -----------------------------
(***************************************************************************)
(* From an approved plan to a batch of tasks: ProjectManagerLoop           *)
(* (planning/pm.py) writes the batch, SupervisorLoop                       *)
(* (planning/supervisor.py) reviews it, sends it back or has it published, *)
(* as `plan approve' runs them (workflow_service.py).                      *)
(***************************************************************************)
EXTENDS PlanDrafting

CONSTANTS
    PmRetries,       \* planning.pm_output_retries
    DecisionCap,     \* SUPERVISOR_DECISION_ROUND_CAP
    MaxRefunds       \* bound on the repairs that each leave fewer findings

ASSUME DecompositionAssumption ==
    /\ PmRetries \in Nat \ {0} /\ DecisionCap \in Nat \ {0}
    /\ MaxRefunds \in Nat

VARIABLES
    rejected,   \* the latest batch a review rejected, or 0
    approved,   \* the batch a COMPLETED review approved, or 0
    pm          \* the PM's attempts against its base batch

graphVars == <<batch, rejected, approved>>

\* attempts: started, whatever became of them, counted as far as it matters;
\* failures: outputs the loop refused; refunds: recorded repairs past the
\* minimum; failed: the latest one FAILED; comparable: an earlier one left
\* findings to compare.
NoAttempts == [attempts |-> 0, failures |-> 0, refunds |-> 0,
               failed |-> FALSE, comparable |-> FALSE]

InitDecomposition == rejected = 0 /\ approved = 0 /\ pm = NoAttempts

\* `plan approve' on an approval that is already bound.
ResumeApproval ==
    /\ IsIdle /\ approval # 0
    /\ borg.state \in {"pm_working", "supervisor_working", "ready_to_execute"}
    \* the approval is of the current plan, and its Markdown has not drifted
    /\ plan.id = approval /\ markdown = approval
    /\ doing' = [Idle EXCEPT !.at = "choosing"]
    /\ UNCHANGED <<running, borg, draftVars, loopVars, gateVars, graphVars, pm>>

(***************************************************************************)
(* ProjectManagerLoop                                                      *)
(***************************************************************************)
\* _cycle_continues, of a cycle with so many attempts and refunds
CycleContinues(attempts, refunds) == attempts - refunds < PmRetries + GrantBudget

\* Mutant: a resumed run forgets what the cycle has spent.
AlwaysRetries == FALSE

\* _require_retry_budget: refuses only after a failure.
BudgetSpent == pm.failed /\ ~CycleContinues(pm.attempts, pm.refunds)

PmAtWork == Choosing /\ borg.state = "pm_working" /\ ~NoteDue

\* No cycle continues past this many attempts, so counting stops there.
MaxAttempts == PmRetries + GrantBudget + MaxRefunds
OneMore(n) == IF n < MaxAttempts THEN n + 1 ELSE n

\* The budget is asked about before a turn, and not again within one that fails
\* an interrupted attempt over its unusable file.
PmTurn ==
    /\ PmAtWork
    /\ IF BudgetSpent /\ doing.phase # "pm_tasks" THEN Exit /\ UNCHANGED <<running, pm>>
       ELSE /\ BeginTurn("pm_tasks", <<approval, batch>>, Basis)
            /\ pm' = CASE ~IsRunning("pm_tasks") ->
                            [pm EXCEPT !.attempts = OneMore(@), !.failed = FALSE]
                       [] ~IsRunning("pm_tasks")' -> [pm EXCEPT !.failed = TRUE]
                       [] OTHER -> pm
    /\ UNCHANGED <<borg, draftVars, loopVars, gateVars, graphVars>>

\* The attempt failed: the same loop tries again while its cycle continues.
PmFails(after) ==
    /\ Complete("pm_tasks")
    /\ pm' = after
    /\ IF CycleContinues(after.attempts, after.refunds) THEN Again ELSE Exit
    /\ UNCHANGED <<borg, draftVars, loopVars, gateVars, graphVars>>

Failed == [pm EXCEPT !.failures = @ + 1, !.failed = TRUE]

\* _retryable_contract_failure: the answer could not be parsed.
PmUnparsable == WithAgent("pm_tasks") /\ PmFails(Failed)

\* The attempt was cancelled, or FAILED in a way that is not retried.
PmGivesUp ==
    /\ WithAgent("pm_tasks")
    /\ Complete("pm_tasks") /\ pm' \in {pm, Failed} /\ Exit
    /\ UNCHANGED <<borg, draftVars, loopVars, gateVars, graphVars>>

\* A revision that says what the rejected batch said.
PmNoProgress ==
    /\ WithResult("pm_tasks") /\ doing.payload = "same_batch"
    /\ PmFails(Failed)

\* The graph does not validate.  Past the minimum, an attempt that removed
\* findings of the previous one and added none is refunded.
PmInvalidGraph ==
    /\ WithResult("pm_tasks") /\ doing.payload = "bad_graph"
    /\ \E progressed \in {FALSE, pm.comparable /\ pm.refunds < MaxRefunds} :
         LET refund == progressed /\ pm.attempts > PmRetries
         IN  PmFails([Failed EXCEPT !.refunds = @ + (IF refund THEN 1 ELSE 0),
                                    !.comparable = TRUE])

\* The batch, its generation and the state they lead to are one transaction.
StoreBatch ==
    /\ WithResult("pm_tasks") /\ doing.payload = "batch"
    /\ Complete("pm_tasks")
    /\ Transition("supervisor_working")
    /\ batch' = batch + 1 /\ pm' = NoAttempts
    /\ Afresh
    /\ UNCHANGED <<draftVars, loopVars, gateVars, rejected, approved>>

(***************************************************************************)
(* SupervisorLoop                                                          *)
(***************************************************************************)
\* An approving review is on record: what is left is its publication.
Publishable == borg.state \in {"supervisor_working", "ready_to_execute"} /\ approved # 0

SupervisorTurn ==
    /\ Choosing /\ borg.state = "supervisor_working" /\ approved = 0
    /\ BeginTurn("supervisor_review", <<approval, batch, Len(assessments) + 1>>, Basis)
    /\ UNCHANGED <<borg, draftVars, loopVars, gateVars, graphVars, pm>>

RefuseDecision ==
    /\ WithResult("supervisor_review") /\ doing.payload = "malformed"
    /\ Complete("supervisor_review") /\ Refuse(DecisionCap)
    /\ UNCHANGED <<borg, draftVars, loopVars, gateVars, graphVars, pm>>

\* A rejection moves the Borg in the transaction that records it.
RejectBatch ==
    /\ WithResult("supervisor_review") /\ doing.payload = "request_changes"
    /\ Complete("supervisor_review")
    /\ rejected' = batch
    /\ \E assessment \in Assessments("request_changes") :
         /\ assessments' = Append(assessments, assessment)
         /\ IF Goes(assessment) THEN Transition("pm_working") /\ Afresh
                                ELSE Transition("blocked") /\ Exit
    /\ UNCHANGED <<draftVars, noted, gateVars, batch, approved, pm>>

\* Mutant: an approval moves the Borg as a rejection does.
ApproveBatchAndMove ==
    /\ WithResult("supervisor_review") /\ doing.payload = "approve"
    /\ Complete("supervisor_review")
    /\ approved' = batch
    /\ Transition("ready_to_execute")
    /\ CloseLoop /\ Afresh
    /\ UNCHANGED <<cycle, pending, owed, plan, review, gateVars, batch, rejected, pm>>

\* An approval does not: its tasks are published first.
ApproveBatch ==
    /\ WithResult("supervisor_review") /\ doing.payload = "approve"
    /\ Complete("supervisor_review")
    /\ approved' = batch
    /\ CloseLoop /\ Afresh
    /\ UNCHANGED <<borg, cycle, pending, owed, plan, review, gateVars, batch, rejected, pm>>

\* _cancel_interrupted_review: an interrupt cancels the review, even one whose
\* result is in hand.
InterruptReview ==
    /\ WithResult("supervisor_review")
    /\ Complete("supervisor_review") /\ Exit
    /\ UNCHANGED <<borg, draftVars, loopVars, gateVars, graphVars, pm>>

DecompositionTurn ==
    \/ borg.state = "pm_working" /\ SteeringTurn("supervisor_review", approval) /\ UNCHANGED <<graphVars, pm>>
    \/ PmTurn \/ SupervisorTurn

StoreDecomposition ==
    \/ PmUnparsable \/ PmGivesUp \/ PmNoProgress \/ PmInvalidGraph \/ StoreBatch
    \/ RefuseDecision \/ RejectBatch \/ ApproveBatch \/ InterruptReview
================================================================================
