----------------------------- MODULE PlanDrafting -----------------------------
(***************************************************************************)
(* From a draft to an approved plan: ArchitectLoop (planning/architect.py) *)
(* asks its questions and writes the plan, TechLeadLoop                    *)
(* (planning/tech_lead.py) reviews it and sends it back, both as `plan     *)
(* start' and `plan change' run them (cli.py, _continue_planning), and     *)
(* bind_plan_approval (workflow_service.py) binds the operator's approval. *)
(*                                                                         *)
(* Every transaction that moves the Borg compares its version with the one *)
(* read before the turn.  Rows that nobody reads again are forgotten: those *)
(* of a loop that has ended, and those of a closed planning cycle.         *)
(***************************************************************************)
EXTENDS PlanningTurns, ReviewLedger

CONSTANTS
    ReviewRounds,     \* planning.review_rounds and decomposition_rounds
    GrantBudget,      \* planning.grant_budget
    QuestionCap,      \* ARCHITECT_QUESTION_ROUND_CAP
    ContractCap,      \* ARCHITECT_PLAN_CONTRACT_ROUND_CAP
    MaxChanges,       \* bound on the change requests of the operator
    MaxOpenPlans,     \* bound on the plans that raise questions, less one per change
    MaxOpen           \* findings a loop starts with, and so may drop one by one

ASSUME DraftingAssumption ==
    /\ ReviewRounds \in Nat \ {0} /\ GrantBudget \in Nat
    /\ QuestionCap \in Nat \ {0} /\ ContractCap \in Nat \ {0}
    /\ MaxChanges \in Nat /\ MaxOpenPlans \in Nat /\ MaxOpen \in Nat \ {0}

VARIABLES
    borg,         \* the row of the Borg: state and state_version
    cycle,        \* plan change requests so far
    spent,        \* what the cycle has spent: completed turns of the Architect
    pending,      \* whether the latest question is not answered yet
    owed,         \* decisions made for the operator that no plan has named
    plan,         \* the latest plan accepted; whether a later one has questions
    review,       \* the latest Tech Lead review: its verdict; of the latest plan?
    assessments,  \* review_assessments of the current loop scope
    noted,        \* the latest round of that scope with a steering note
    approval,     \* the plan the approval binds, or 0
    markdown,     \* the plan whose rendering is published, or 0
    binding,      \* an approval under way: what it has read
    batch         \* the latest batch of tasks and its generation, or 0

draftVars == <<cycle, spent, pending, owed, plan, review>>
loopVars == <<assessments, noted>>
gateVars == <<approval, markdown, binding>>

Architecting == {"architect_working", "architect_awaiting_answers"}
NothingSpent == [questions |-> 0, ready |-> FALSE, answers |-> 0, opened |-> 0]
NoBinding == [seen |-> 0, plan |-> 0, published |-> FALSE]

\* A question is named by its cycle and its place in it.
Question == <<cycle, spent.questions + spent.opened>>

\* A plan gets a name once the operator can see it, one that nothing refers to.
Unnamed == 0
NewName == CHOOSE i \in 1..3 : i \notin {markdown, binding.plan}

\* What of the record the prompts are rendered from: the answers so far, the
\* reviews of the loop, and the batch.
Basis == <<Question, pending, Len(assessments), batch>>

InitDrafting ==
    /\ running = [p \in Phase |-> NoAttempt]
    /\ doing = Idle
    /\ borg = [state |-> "draft", version |-> 1]
    /\ cycle = 0 /\ spent = NothingSpent /\ pending = FALSE /\ owed = FALSE
    /\ plan = [id |-> Unnamed, open |-> FALSE]
    /\ review = [verdict |-> "none", latest |-> FALSE]
    /\ assessments = <<>> /\ noted = 0
    /\ approval = 0 /\ markdown = 0 /\ binding = NoBinding /\ batch = 0

\* Mutant: the state is compared, its version is not.
SameState(expected, seen) == borg.state = expected

\* compare_and_set_borg_state: the row it updates
Unchanged(expected, seen) == borg.state = expected /\ borg.version = seen

\* A version is compared only with the one a binding has seen, so it is enough
\* that it differs from that one.
Transition(state) ==
    IF borg.state = state THEN UNCHANGED borg
    ELSE borg' = [state |-> state,
                  version |-> IF binding.seen = 0 THEN 1 ELSE 3 - binding.seen]

(***************************************************************************)
(* One round of a review loop, shared with the Supervisor: a snapshot of   *)
(* the open findings, whether it converges, and what it cost.              *)
(***************************************************************************)
Assess(open, converging) ==
    LET round == Len(assessments) + 1
    IN  [round |-> round, minimum |-> ReviewRounds, open |-> open,
         refunded |-> SnapshotRefund(round, ReviewRounds, open, assessments),
         converging |-> converging]

\* An approval closes every finding, and nobody reads its assessment again.  A
\* rejection leaves fewer than the round before, or not, which is all that
\* anybody asks of the count; a first round never converges.
Assessments(verdict) ==
    IF verdict = "approve" THEN {Assess(0, TRUE)}
    ELSE IF assessments = <<>> THEN {Assess(MaxOpen, FALSE)}
    ELSE LET before == assessments[Len(assessments)].open
         IN  {Assess(open, converging) :
                open \in {before, before - 1} \ {0}, converging \in BOOLEAN}

Goes(assessment) ==
    Continues(assessment.round, ReviewRounds, GrantBudget,
              assessment.refunded, assessments)

\* The loop has reached its gate: its rows are not read again.
CloseLoop == assessments' = <<>> /\ noted' = 0 /\ spent' = NothingSpent

\* A note is due before the round that a stuck one was granted.
NoteDue ==
    /\ StuckRound(assessments)
    /\ assessments[Len(assessments)].round # noted

SteeringTurn(loop, scope) ==
    /\ Choosing /\ NoteDue
    /\ BeginTurn("steering", <<loop, scope, Len(assessments)>>, Basis)
    /\ UNCHANGED <<borg, draftVars, loopVars, gateVars>>

\* PlanningSteeringTurn.note: the agent's note, or an assembled one when it
\* reports low confidence.
StoreNote ==
    /\ WithResult("steering")
    /\ Complete("steering") /\ noted' = Len(assessments) /\ Again
    /\ UNCHANGED <<borg, draftVars, assessments, gateVars>>

\* The turn gave nothing usable and nobody stopped the run: the round goes on
\* with the assembled note, and an attempt that was left open stays so.
SteerWithoutAgent ==
    /\ WithAgent("steering")
    /\ Abandon("steering", "note") \/ TurnGivesNothing("steering")
    /\ noted' = Len(assessments) /\ Again
    /\ UNCHANGED <<borg, draftVars, assessments, gateVars>>

(***************************************************************************)
(* `plan start' and `plan change'                                          *)
(***************************************************************************)
PlanStart(unattended) ==
    /\ IsIdle
    /\ borg.state \in {"draft", "tech_review_working"} \cup Architecting
    /\ doing' = [Idle EXCEPT !.at = "choosing", !.unattended = unattended]
    /\ UNCHANGED <<running, borg, draftVars, loopVars, gateVars>>

\* The request and the state move together, and open a new planning cycle.
PlanChange(unattended) ==
    /\ IsIdle /\ borg.state = "plan_approval_pending" /\ cycle < MaxChanges
    /\ cycle' = cycle + 1
    /\ Transition("architect_working")
    /\ doing' = [Idle EXCEPT !.at = "choosing", !.unattended = unattended]
    /\ UNCHANGED <<running, spent, pending, owed, plan, review, loopVars, gateVars>>

(***************************************************************************)
(* ArchitectLoop                                                           *)
(***************************************************************************)
BeginArchitect ==
    /\ Choosing /\ borg.state = "draft"
    /\ Transition("architect_working")
    /\ UNCHANGED <<running, doing, draftVars, loopVars, gateVars>>

\* _pending_question is answered before anything else; a granted revision of a
\* stuck review first gets its steering note.
ArchitectAtWork == Choosing /\ borg.state \in Architecting /\ ~NoteDue

Answered(answers) ==
    /\ pending' = FALSE
    /\ spent' = [spent EXCEPT !.answers = @ + answers]
    /\ Transition("architect_working")
    /\ UNCHANGED <<cycle, plan, review, loopVars, gateVars>>

\* _prompt_question_round: the operator answers, or declines and ends the run.
OperatorAnswers ==
    /\ ArchitectAtWork /\ pending /\ ~doing.unattended
    /\ \/ /\ Answered(0) /\ Abandon("architect_answers", "answers")
          /\ UNCHANGED <<doing, owed>>
       \/ Exit /\ UNCHANGED <<running, borg, draftVars, loopVars, gateVars>>

\* _assume_question_round
AssumeAnswers ==
    /\ ArchitectAtWork /\ pending /\ doing.unattended
    /\ IF spent.answers >= QuestionCap THEN Exit /\ UNCHANGED running
       ELSE BeginTurn("architect_answers", Question, Basis)
    /\ UNCHANGED <<borg, draftVars, loopVars, gateVars>>

\* The turn that decided and the answers it decided are stored together.
StoreAnswers ==
    /\ WithResult("architect_answers")
    /\ Complete("architect_answers")
    /\ \/ /\ doing.payload = "answers"
          /\ Answered(1) /\ owed' = TRUE /\ Again
       \/ /\ doing.payload = "malformed"
          /\ Exit /\ UNCHANGED <<borg, draftVars, loopVars, gateVars>>

ReadyToPlan == spent.ready \/ spent.questions >= QuestionCap

QuestionTurn ==
    /\ ArchitectAtWork /\ ~pending /\ ~ReadyToPlan
    /\ BeginTurn("architect_questions", <<>>, Basis)
    /\ UNCHANGED <<borg, draftVars, loopVars, gateVars>>

StoreQuestions ==
    /\ WithResult("architect_questions")
    /\ Complete("architect_questions")
    /\ CASE doing.payload = "ask_more" ->
              /\ Transition("architect_awaiting_answers")
              /\ pending' = TRUE
              /\ spent' = [spent EXCEPT !.questions = @ + 1]
              /\ Again
         [] doing.payload = "ready_to_plan" ->
              /\ spent' = [spent EXCEPT !.questions = @ + 1, !.ready = TRUE]
              /\ Again /\ UNCHANGED <<borg, pending>>
         [] OTHER -> Exit /\ UNCHANGED <<borg, pending, spent>>
    /\ UNCHANGED <<cycle, owed, plan, review, loopVars, gateVars>>

PlanTurn ==
    /\ ArchitectAtWork /\ ~pending /\ ReadyToPlan
    /\ BeginTurn("architect_plan", <<>>, Basis)
    /\ UNCHANGED <<borg, draftVars, loopVars, gateVars>>

\* _store_plan_question_turn: a plan that raises questions completes, and they
\* are answered before the next one.
StoreOpenPlan ==
    /\ WithResult("architect_plan") /\ doing.payload = "open_plan"
    /\ Complete("architect_plan")
    /\ Transition("architect_awaiting_answers")
    /\ pending' = TRUE /\ plan' = [plan EXCEPT !.open = TRUE]
    /\ spent' = [spent EXCEPT !.opened = @ + 1]
    /\ Again
    /\ UNCHANGED <<cycle, owed, review, loopVars, gateVars>>

RejectPlan ==
    /\ WithResult("architect_plan") /\ doing.payload = "bad_plan"
    /\ Complete("architect_plan") /\ Refuse(ContractCap)
    /\ UNCHANGED <<borg, draftVars, loopVars, gateVars>>

\* A plan that is silent on decisions made for the operator is asked once to
\* name them.
Silent == doing.payload = "silent_plan" /\ doing.unattended /\ owed

AskForAssumptions ==
    /\ WithResult("architect_plan") /\ Silent /\ ~doing.told
    /\ Complete("architect_plan")
    /\ doing' = [doing EXCEPT !.at = "choosing", !.phase = "none",
                              !.payload = "none", !.told = TRUE]
    /\ UNCHANGED <<borg, draftVars, loopVars, gateVars>>

\* Silent again, the record speaks for it.  The review follows in a fresh loop.
AcceptPlan ==
    /\ WithResult("architect_plan") /\ doing.payload \in {"plan", "silent_plan"}
    /\ Silent => doing.told
    /\ Complete("architect_plan")
    /\ Transition("tech_review_working")
    /\ plan' = [id |-> Unnamed, open |-> FALSE]
    /\ review' = [review EXCEPT !.latest = FALSE]
    /\ owed' = (owed /\ doing.payload = "silent_plan" /\ ~doing.unattended)
    /\ Afresh
    /\ UNCHANGED <<cycle, spent, pending, loopVars, gateVars>>

(***************************************************************************)
(* TechLeadLoop                                                            *)
(***************************************************************************)
\* _validated_handoff: the latest plan, accepted after the latest review.
ReviewTurn ==
    /\ Choosing /\ borg.state = "tech_review_working"
    /\ IF ~review.latest
       THEN BeginTurn("tech_review", <<>>, Basis)
       ELSE Exit /\ UNCHANGED running
    /\ UNCHANGED <<borg, draftVars, loopVars, gateVars>>

\* The verdict, the assessment and the state it leads to are one transaction.
StoreReview ==
    /\ WithResult("tech_review") /\ doing.payload # "malformed"
    /\ Complete("tech_review")
    /\ review' = [verdict |-> doing.payload, latest |-> TRUE]
    /\ \E assessment \in Assessments(doing.payload) :
         \/ /\ doing.payload = "approve"
            /\ Transition("plan_approval_pending") /\ Exit
            /\ plan' = [plan EXCEPT !.id = NewName] /\ CloseLoop
         \/ /\ doing.payload = "request_changes" /\ Goes(assessment)
            /\ Transition("architect_working") /\ Afresh
            /\ assessments' = Append(assessments, assessment)
            /\ UNCHANGED <<noted, spent, plan>>
         \/ /\ doing.payload = "request_changes" /\ ~Goes(assessment)
            /\ Transition("blocked") /\ Exit
            /\ assessments' = Append(assessments, assessment)
            /\ UNCHANGED <<noted, spent, plan>>
    /\ UNCHANGED <<cycle, pending, owed, gateVars>>

RefuseReview ==
    /\ WithResult("tech_review") /\ doing.payload = "malformed"
    /\ Complete("tech_review") /\ Exit
    /\ UNCHANGED <<borg, draftVars, loopVars, gateVars>>

(***************************************************************************)
(* bind_plan_approval, in a process of its own while planning may go on.   *)
(***************************************************************************)
\* The Borg, and validated_current_plan_attempt.
BindRead ==
    /\ binding = NoBinding /\ approval = 0
    /\ borg.state = "plan_approval_pending" /\ ~plan.open
    /\ binding' = [seen |-> borg.version, plan |-> plan.id, published |-> FALSE]
    /\ UNCHANGED <<turnVars, borg, draftVars, loopVars, approval, markdown>>

BindPublish ==
    /\ binding.plan # 0 /\ ~binding.published
    /\ binding' = [binding EXCEPT !.published = TRUE]
    /\ markdown' = binding.plan
    /\ UNCHANGED <<turnVars, borg, draftVars, loopVars, approval>>

\* The approval and PM_WORKING in one transaction, or neither.
BindCommit ==
    /\ binding.published
    /\ binding' = NoBinding
    /\ IF Unchanged("plan_approval_pending", binding.seen)
       THEN /\ approval' = binding.plan
            /\ Transition("pm_working")
            \* The Architect's turns are not taken up again.
            /\ Complete("architect_answers") /\ owed' = FALSE
       ELSE UNCHANGED <<approval, borg, running, owed>>
    /\ UNCHANGED <<doing, cycle, spent, pending, plan, review, loopVars, markdown>>

BindDies ==
    /\ binding # NoBinding
    /\ binding' = NoBinding
    /\ UNCHANGED <<turnVars, borg, draftVars, loopVars, approval, markdown>>

DraftingTurn ==
    \/ borg.state \in Architecting /\ SteeringTurn("tech_review", cycle)
    \/ QuestionTurn \/ AssumeAnswers \/ PlanTurn \/ ReviewTurn

StoreDraft ==
    \/ StoreNote \/ SteerWithoutAgent
    \/ StoreQuestions \/ StoreAnswers
    \/ StoreOpenPlan \/ RejectPlan \/ AskForAssumptions \/ AcceptPlan
    \/ StoreReview \/ RefuseReview

Bind == BindRead \/ BindPublish \/ BindCommit
===============================================================================
