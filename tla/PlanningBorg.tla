----------------------------- MODULE PlanningBorg -----------------------------
(***************************************************************************)
(* The planning of one Borg, from its draft to the tasks an execution may  *)
(* start from: the drafting of the plan, its approval, the decomposition   *)
(* into tasks and their publication, each a sequence of commands that one  *)
(* operator runs, and that may die at every step.                          *)
(***************************************************************************)
EXTENDS TaskPublication

planningVars ==
    <<turnVars, borg, draftVars, loopVars, gateVars, graphVars, pm, publishVars>>

Init == InitDrafting /\ InitDecomposition /\ InitPublication

SameDecomposition == UNCHANGED <<graphVars, pm, publishVars>>
SameDraft == UNCHANGED <<borg, draftVars, loopVars, gateVars>>

\* Bound on the plans that raise questions.  A command that decides its own answers
\* and starts without any is not cut short: its cap ends it.
MayOpen ==
    spent.opened + cycle < MaxOpenPlans + (IF doing.unattended THEN QuestionCap ELSE 0)

\* What the agent of a phase may return now; only a revision can repeat its batch.
Payloads(p) ==
    Payload[p] \ ((IF MayOpen THEN {} ELSE {"open_plan"})
                  \cup (IF batch = 0 THEN {"same_batch"} ELSE {}))

Return ==
    /\ doing.at = "agent" /\ AgentReturns(Payloads(doing.phase))
    /\ SameDraft /\ SameDecomposition

\* A turn other than the Project Manager's or a steering one that gives nothing
\* ends the run.
GiveUp ==
    /\ doing.at = "agent" /\ doing.phase \notin {"pm_tasks", "steering"}
    /\ TurnGivesNothing(doing.phase) /\ Exit
    /\ SameDraft /\ SameDecomposition

Crash == Die /\ SameDraft /\ SameDecomposition

\* The commands the operator runs.
Command ==
    \/ \E unattended \in BOOLEAN :
         (PlanStart(unattended) \/ PlanChange(unattended)) /\ SameDecomposition
    \/ ResumeApproval /\ UNCHANGED publishVars

\* What a running command does by itself.
Work ==
    \/ (BeginArchitect \/ OperatorAnswers \/ DraftingTurn \/ StoreDraft) /\ SameDecomposition
    \/ (DecompositionTurn \/ StoreDecomposition) /\ UNCHANGED publishVars
    \/ PublicationStep
    \/ Return \/ GiveUp

Approving == (Bind \/ BindDies) /\ SameDecomposition

Next == Command \/ Work \/ Approving \/ Crash \/ PowerLoss \/ TreeDrifts

\* A command goes on wherever it waits for nobody: no turn of an agent has a
\* timeout, and an operator need not answer.
AtPrompt == ArchitectAtWork /\ pending /\ ~doing.unattended
Fairness == WF_planningVars(doing.at # "agent" /\ ~AtPrompt /\ Work)

Spec == Init /\ [][Next]_planningVars /\ Fairness

(***************************************************************************)
(* Properties                                                              *)
(***************************************************************************)
\* The state of the Borg is what its record says: a gate is never reached, or
\* left, without the rows that justify it, whatever died in between
\* (every transaction of planning/architect.py, tech_lead.py, pm.py and
\* supervisor.py that completes a turn and moves the Borg).
StateFollowsTheRecord ==
    /\ (borg.state = "architect_awaiting_answers") <=> pending
    /\ borg.state = "tech_review_working" => ~review.latest /\ ~plan.open
    /\ borg.state = "plan_approval_pending" =>
         review = [verdict |-> "approve", latest |-> TRUE] /\ ~plan.open
    /\ borg.state \in {"pm_working", "supervisor_working", "ready_to_execute"} =>
         approval = plan.id
    /\ borg.state = "pm_working" => batch = rejected
    /\ borg.state = "supervisor_working" => batch > rejected /\ approved \in {0, batch}
    /\ borg.state = "ready_to_execute" => approved # 0 /\ current = approved
    /\ borg.state = "blocked" =>
         IF approval = 0 THEN review.verdict = "request_changes" ELSE batch = rejected

\* A turn's result is only used for the Borg its agent was shown, however often
\* the turn was interrupted and whoever took it up (planning/turns.py, run and
\* _recover_payload).
TurnsFitTheirPrompt ==
    doing.at = "result" => running[doing.phase].shown = Basis

\* An approval binds the latest plan, the one its review approved, and the
\* Markdown the operator can read is the rendering of it, though the plan may be
\* changed while the approval is under way (workflow_service.py,
\* bind_plan_approval).
ApprovalBindsTheReviewedPlan ==
    approval # 0 =>
        /\ approval = plan.id /\ ~plan.open
        /\ review = [verdict |-> "approve", latest |-> TRUE]
        /\ markdown = approval

\* However often a loop is interrupted and resumed, it goes no further than its
\* minimum, its budget and the rounds it was refunded (planning/grants.py as
\* tech_lead.py, supervisor.py and pm.py use it).
Refunds == Cardinality({k \in DOMAIN assessments : assessments[k].refunded = "refunded"})
RoundsStayInBudget ==
    /\ Len(assessments) - Refunds <= ReviewRounds + GrantBudget
    /\ pm.failures - pm.refunds <= PmRetries + GrantBudget
    /\ spent.answers <= QuestionCap

\* The database calls a generation current only when it is the one a review
\* approved and its tree stands whole where neither a crash nor a loss of power
\* can take it away (planning/task_publication.py, publish and reconcile).
PublishedTasksAreWhole ==
    current # 0 =>
        /\ current = approved /\ tree.of = current
        /\ tree.content = "whole" /\ tree.entry

\* A command ends by itself, whatever the agents return and however they fail,
\* unless it waits for ever for one of them or keeps asking its operator: no loop is
\* left to its own feedback for ever.
CommandsEnd == []<>IsIdle \/ <>[](doing.at = "agent") \/ []<>AtPrompt
===============================================================================
