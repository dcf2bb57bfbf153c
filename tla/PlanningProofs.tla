----------------------------- MODULE PlanningProofs -----------------------------
(***************************************************************************)
(* Theorems about PlanningBorg, for any budgets, caps and bounds: the       *)
(* state of the Borg is what its record says, an approval binds the plan    *)
(* its review approved, and what the database calls current is published.   *)
(* Together with what a process at work may assume (Working, Supervising),  *)
(* what an approval under way has seen (Bound), and where a publisher       *)
(* stands (Publishing), the three are inductive.                            *)
(***************************************************************************)
EXTENDS PlanningBorg, TLAPS

State == {"draft", "architect_working", "architect_awaiting_answers",
          "tech_review_working", "plan_approval_pending", "pm_working",
          "supervisor_working", "ready_to_execute", "blocked"}
Drafting == {"draft", "architect_working", "architect_awaiting_answers",
             "tech_review_working", "plan_approval_pending"}
Place == {"idle", "choosing", "agent", "result", "staging", "writing", "renaming",
          "verifying", "syncing", "checking", "promoting", "cleaning", "publishing done"}
Output == UNION {Payload[p] : p \in Phase}
Content == {"absent", "partial", "whole", "drifted"}

DoingType == [at : Place, phase : Phase \cup {"none"}, payload : Output \cup {"none"},
              failures : Nat, told : BOOLEAN, unattended : BOOLEAN]

TypesOK ==
    /\ doing \in DoingType
    /\ borg \in [state : State, version : {1, 2}]
    /\ plan \in [id : 0..3, open : BOOLEAN]
    /\ review \in [verdict : Output \cup {"none"}, latest : BOOLEAN]
    /\ pending \in BOOLEAN
    /\ approval \in 0..3 /\ markdown \in 0..3
    /\ binding \in [seen : 0..2, plan : 0..3, published : BOOLEAN]
    /\ batch \in Nat /\ rejected \in Nat /\ approved \in Nat
    /\ staged \in [of : Nat, content : Content]
    /\ tree \in [of : Nat, content : Content, entry : BOOLEAN]
    /\ current \in Nat

\* The state in which a phase has a turn.
Fits(p, state) ==
    /\ p \in {"architect_questions", "architect_plan"} => state = "architect_working"
    /\ p = "architect_answers" => state = "architect_awaiting_answers"
    /\ p = "tech_review" => state = "tech_review_working"
    /\ p = "pm_tasks" => state = "pm_working"
    /\ p = "supervisor_review" => state = "supervisor_working"
    /\ p = "steering" => state \in {"architect_working", "architect_awaiting_answers", "pm_working"}

Working ==
    doing.at \in {"agent", "result"} => doing.phase \in Phase /\ Fits(doing.phase, borg.state)

\* A batch is reviewed until one review approved it, and nothing follows that.
Supervising ==
    /\ doing.phase = "supervisor_review" => approved = 0
    /\ approval = 0 => batch = rejected
    /\ approved # 0 => approved = batch /\ borg.state \in {"supervisor_working", "ready_to_execute"}
    /\ borg.state = "pm_working" \/ borg.state = "supervisor_working" \/ borg.state = "ready_to_execute"
         => approval # 0

\* A version that an approval has seen comes back in no other state and with no
\* other plan; once bound, nobody binds again.
Bound ==
    /\ binding.seen # 0 =>
         \/ borg.version # binding.seen
         \/ borg.state = "plan_approval_pending" /\ plan.id = binding.plan
    /\ binding.seen = 0 => binding = NoBinding
    /\ binding.published => binding.plan # 0 /\ markdown = binding.plan
    /\ approval # 0 =>
         /\ binding = NoBinding
         /\ borg.state \in {"pm_working", "supervisor_working", "ready_to_execute", "blocked"}

Publishing ==
    /\ doing.at \in {"staging", "writing", "renaming"} =>
         staged.of = approved /\ approved # 0 /\ current = 0
    /\ doing.at \in {"verifying", "syncing", "checking", "promoting"} =>
         tree.of = approved /\ approved # 0 /\ current = 0
    /\ doing.at \in {"cleaning", "publishing done"} => current = approved /\ approved # 0

IInv ==
    /\ TypesOK /\ Working /\ Supervising /\ Bound /\ Publishing
    /\ StateFollowsTheRecord /\ ApprovalBindsTheReviewedPlan /\ PublishedTasksAreWhole

\* What neither the Borg nor its publication notices.
Beheld == <<borg, pending, plan, review, approval, markdown, binding, graphVars, publishVars>>

---------------------------------------------------------------------------------
\* What a phase returns is an output.
LEMMA PayloadsAreOutputs ==
    ASSUME NEW p \in Phase
    PROVE  Payload[p] \subseteq Output
BY DEF Output

\* The names that plans get.
LEMMA NamesExist == NewName \in 1..3
<1>1. \E i \in 1..3 : i \notin {markdown, binding.plan}
  <2>1. CASE 1 \notin {markdown, binding.plan}  BY <2>1
  <2>2. CASE 2 \notin {markdown, binding.plan}  BY <2>2
  <2>3. CASE 1 \in {markdown, binding.plan} /\ 2 \in {markdown, binding.plan}
    <3>1. 3 \notin {markdown, binding.plan}  BY <2>3
    <3> QED  BY <3>1
  <2> QED  BY <2>1, <2>2, <2>3
<1> QED  BY <1>1 DEF NewName

\* What a transition of the Borg leaves (compare_and_set_borg_state).
LEMMA TransitionMoves ==
    ASSUME TypesOK, NEW s \in State, Transition(s)
    PROVE  /\ borg' \in [state : State, version : {1, 2}]
           /\ borg'.state = s
           /\ borg.state = s => borg' = borg
           /\ borg.state # s /\ binding.seen # 0 => borg'.version # binding.seen
<1>1. CASE borg.state = s  BY <1>1 DEF TypesOK, Transition
<1>2. CASE borg.state # s
  <2>1. borg' = [state |-> s, version |-> IF binding.seen = 0 THEN 1 ELSE 3 - binding.seen]
    BY <1>2 DEF Transition
  <2>2. binding.seen \in 0..2  BY DEF TypesOK
  <2> QED  BY <1>2, <2>1, <2>2
<1> QED  BY <1>1, <1>2

\* A process that stops or goes on without touching the Borg or its publication.
LEMMA QuietKeeps ==
    ASSUME IInv, UNCHANGED Beheld, doing' \in DoingType,
           doing'.at \in {"idle", "choosing"},
           doing'.phase = "supervisor_review" => approved = 0
    PROVE  IInv'
<1> USE DEF Beheld, graphVars, publishVars
<1>1. TypesOK'  BY DEF IInv, TypesOK
<1>2. Working' /\ Publishing'  BY DEF Working, Publishing
<1>3. Supervising' /\ Bound'  BY DEF IInv, Supervising, Bound
<1>4. StateFollowsTheRecord' /\ ApprovalBindsTheReviewedPlan' /\ PublishedTasksAreWhole'
  BY DEF IInv, StateFollowsTheRecord, ApprovalBindsTheReviewedPlan, PublishedTasksAreWhole
<1> QED  BY <1>1, <1>2, <1>3, <1>4 DEF IInv

\* The ways a process leaves a turn.
LEMMA WaysOn ==
    ASSUME IInv, NEW cap, Exit \/ Again \/ Afresh \/ Refuse(cap)
    PROVE  doing' \in DoingType /\ doing'.at \in {"idle", "choosing"} /\ doing'.phase = "none"
<1> doing \in DoingType  BY DEF IInv, TypesOK
<1>1. CASE Exit  BY <1>1 DEF Exit, Idle, DoingType, Place
<1>2. CASE Again  BY <1>2 DEF Again, DoingType, Place
<1>3. CASE Afresh  BY <1>3 DEF Afresh, Idle, DoingType, Place
<1>4. CASE Refuse(cap)
  <2>1. CASE doing.failures + 1 < cap
    <3> DEFINE n == doing.failures + 1
    <3>1. n \in Nat  BY DEF DoingType
    <3>2. doing' = [doing EXCEPT !.at = "choosing", !.phase = "none",
                                 !.payload = "none", !.failures = n]
      BY <1>4, <2>1 DEF Refuse, DoingType
    <3> HIDE DEF n
    <3> QED  BY <3>1, <3>2 DEF DoingType, Place
  <2>2. CASE ~(doing.failures + 1 < cap)
    <3>1. Exit  BY <1>4, <2>2 DEF Refuse
    <3> QED  BY <1>1, <3>1
  <2> QED  BY <2>1, <2>2
<1> QED  BY <1>1, <1>2, <1>3, <1>4

\* A turn begun where its phase has one.
LEMMA BeginKeeps ==
    ASSUME IInv, UNCHANGED Beheld, NEW p \in Phase, NEW request, NEW now,
           BeginTurn(p, request, now), Fits(p, borg.state), Choosing,
           p = "supervisor_review" => approved = 0
    PROVE  IInv'
<1> USE DEF Beheld, graphVars, publishVars
<1>1. doing' \in DoingType /\ doing'.phase = p /\ doing'.at \in {"choosing", "agent", "result"}
  <2>1. doing \in DoingType /\ doing.at = "choosing"  BY DEF IInv, TypesOK, Choosing
  <2>2. CASE DiscardAttempt(p, request)  BY <2>1, <2>2 DEF DiscardAttempt, DoingType
  <2>3. CASE RecoverResult(p, request)
    <3>1. running[p].file \in Output  BY <2>3, PayloadsAreOutputs DEF RecoverResult
    <3>2. doing' = [doing EXCEPT !.at = "result", !.phase = p, !.payload = running[p].file]
      BY <2>3 DEF RecoverResult
    <3> QED  BY <2>1, <3>1, <3>2 DEF DoingType, Place
  <2>4. CASE InvokeAgent(p, request, now)  BY <2>1, <2>4 DEF InvokeAgent, DoingType, Place
  <2> QED  BY <2>2, <2>3, <2>4 DEF BeginTurn
<1>2. TypesOK'  BY <1>1 DEF IInv, TypesOK
<1>3. Working' /\ Publishing'  BY <1>1 DEF Working, Publishing
<1>4. Supervising' /\ Bound'  BY <1>1 DEF IInv, Supervising, Bound
<1>5. StateFollowsTheRecord' /\ ApprovalBindsTheReviewedPlan' /\ PublishedTasksAreWhole'
  BY DEF IInv, StateFollowsTheRecord, ApprovalBindsTheReviewedPlan, PublishedTasksAreWhole
<1> QED  BY <1>2, <1>3, <1>4, <1>5 DEF IInv

\* A transaction of the drafting, which an approval under way may watch.
LEMMA DraftingKeeps ==
    ASSUME IInv, borg.state \in Drafting,
           NEW s \in (Drafting \cup {"blocked"}) \ {"draft"}, Transition(s),
           s = "plan_approval_pending" => borg.state # s,
           UNCHANGED <<approval, markdown, binding, graphVars, publishVars>>,
           pending' \in BOOLEAN, plan' \in [id : 0..3, open : BOOLEAN],
           review' \in [verdict : Output \cup {"none"}, latest : BOOLEAN],
           (s = "architect_awaiting_answers") <=> pending',
           s = "tech_review_working" => ~review'.latest /\ ~plan'.open,
           s = "plan_approval_pending" =>
               review' = [verdict |-> "approve", latest |-> TRUE] /\ ~plan'.open,
           s = "blocked" => review'.verdict = "request_changes",
           doing' \in DoingType, doing'.at \in {"idle", "choosing"}
    PROVE  IInv'
<1> USE DEF graphVars, publishVars, Drafting
<1>1. approval = 0 /\ approved = 0 /\ current = 0
  BY DEF IInv, Supervising, Bound, PublishedTasksAreWhole
<1>2. /\ borg' \in [state : State, version : {1, 2}] /\ borg'.state = s
      /\ borg.state = s => borg' = borg
      /\ borg.state # s /\ binding.seen # 0 => borg'.version # binding.seen
  BY TransitionMoves DEF IInv, State
<1>3. TypesOK'  BY <1>2 DEF IInv, TypesOK
<1>4. Working' /\ Publishing'  BY DEF Working, Publishing
<1>5. Supervising'  BY <1>1, <1>2 DEF IInv, Supervising
<1>6. Bound'
  <2>1. binding.seen # 0 => borg'.version # binding.seen
    <3>1. CASE borg.state # s  BY <3>1, <1>2
    <3>2. CASE borg.state = s
      <4>1. borg' = borg /\ borg.state # "plan_approval_pending"  BY <3>2, <1>2
      <4> QED  BY <4>1 DEF IInv, Bound
    <3> QED  BY <3>1, <3>2
  <2> QED  BY <1>1, <2>1 DEF IInv, Bound
<1>7. StateFollowsTheRecord'  BY <1>1, <1>2 DEF StateFollowsTheRecord
<1>8. ApprovalBindsTheReviewedPlan' /\ PublishedTasksAreWhole'
  BY <1>1 DEF ApprovalBindsTheReviewedPlan, PublishedTasksAreWhole
<1> QED  BY <1>3, <1>4, <1>5, <1>6, <1>7, <1>8 DEF IInv

---------------------------------------------------------------------------------
\* Commands.
LEMMA CommandKeeps ==
    ASSUME IInv, Command
    PROVE  IInv'
<1> USE DEF Beheld, draftVars, loopVars, gateVars, graphVars, publishVars, SameDecomposition
<1>0. doing \in DoingType  BY DEF IInv, TypesOK
<1>1. ASSUME NEW unattended \in BOOLEAN, PlanStart(unattended), SameDecomposition
      PROVE  IInv'
  <2>1. doing' \in DoingType /\ doing'.at = "choosing" /\ doing'.phase = "none"
    BY <1>1 DEF PlanStart, Idle, DoingType, Place
  <2>2. UNCHANGED Beheld  BY <1>1 DEF PlanStart
  <2> QED  BY <2>1, <2>2, QuietKeeps
<1>2. ASSUME NEW unattended \in BOOLEAN, PlanChange(unattended), SameDecomposition
      PROVE  IInv'
  <2>1. doing' \in DoingType /\ doing'.at = "choosing"
    BY <1>2 DEF PlanChange, Idle, DoingType, Place
  <2>2. pending = FALSE  BY <1>2 DEF IInv, StateFollowsTheRecord, PlanChange, TypesOK
  <2>3. pending' = pending /\ plan' = plan /\ review' = review
        /\ UNCHANGED <<approval, markdown, binding, graphVars, publishVars>>
    BY <1>2 DEF PlanChange
  <2>4. borg.state = "plan_approval_pending" /\ Transition("architect_working")
    BY <1>2 DEF PlanChange
  <2> QED  BY <2>1, <2>2, <2>3, <2>4, DraftingKeeps DEF Drafting, IInv, TypesOK
<1>3. ASSUME ResumeApproval, UNCHANGED publishVars
      PROVE  IInv'
  <2>1. doing' \in DoingType /\ doing'.at = "choosing" /\ doing'.phase = "none"
    BY <1>3 DEF ResumeApproval, Idle, DoingType, Place
  <2>2. UNCHANGED Beheld  BY <1>3 DEF ResumeApproval
  <2> QED  BY <2>1, <2>2, QuietKeeps
<1> QED  BY <1>1, <1>2, <1>3 DEF Command

\* The first transition, and the answers of the operator.
LEMMA ArchitectKeeps ==
    ASSUME IInv, BeginArchitect \/ OperatorAnswers, SameDecomposition
    PROVE  IInv'
<1> USE DEF Beheld, draftVars, loopVars, gateVars, graphVars, publishVars, SameDecomposition
<1>0. doing \in DoingType /\ doing.at = "choosing"
  BY DEF IInv, TypesOK, Choosing, BeginArchitect, OperatorAnswers, ArchitectAtWork
<1>1. CASE BeginArchitect
  <2>1. borg.state = "draft" /\ Transition("architect_working") /\ doing' = doing
        /\ UNCHANGED <<pending, plan, review, approval, markdown, binding, graphVars, publishVars>>
    BY <1>1 DEF BeginArchitect
  <2>2. pending = FALSE  BY <2>1 DEF IInv, StateFollowsTheRecord, TypesOK
  <2> QED  BY <1>0, <2>1, <2>2, DraftingKeeps DEF Drafting, IInv, TypesOK
<1>2. CASE ArchitectAtWork /\ Answered(0) /\ doing' = doing
  <2>1. borg.state \in Architecting /\ Transition("architect_working") /\ pending' = FALSE
        /\ UNCHANGED <<plan, review, approval, markdown, binding, graphVars, publishVars>>
    BY <1>2 DEF ArchitectAtWork, Answered
  <2> QED  BY <1>0, <1>2, <2>1, DraftingKeeps DEF Drafting, Architecting, IInv, TypesOK
<1>3. CASE Exit /\ UNCHANGED <<borg, draftVars, loopVars, gateVars>>
  BY <1>3, WaysOn, QuietKeeps
<1> QED  BY <1>1, <1>2, <1>3 DEF OperatorAnswers

\* Turns of the drafting.
LEMMA DraftingTurnKeeps ==
    ASSUME IInv, DraftingTurn, SameDecomposition
    PROVE  IInv'
<1> USE DEF Beheld, draftVars, loopVars, gateVars, graphVars, publishVars, SameDecomposition
<1>1. CASE borg.state \in Architecting /\ SteeringTurn("tech_review", cycle)
  BY <1>1, BeginKeeps DEF SteeringTurn, Fits, Phase, Architecting
<1>2. CASE QuestionTurn
  <2>1. borg.state = "architect_working"
    BY <1>2 DEF QuestionTurn, ArchitectAtWork, Architecting, IInv, StateFollowsTheRecord
  <2> QED  BY <1>2, <2>1, BeginKeeps DEF QuestionTurn, ArchitectAtWork, Fits, Phase
<1>3. CASE AssumeAnswers
  <2>1. borg.state = "architect_awaiting_answers"
    BY <1>3 DEF AssumeAnswers, ArchitectAtWork, IInv, StateFollowsTheRecord
  <2>2. CASE Exit  BY <1>3, <2>2, WaysOn, QuietKeeps DEF AssumeAnswers
  <2>3. CASE BeginTurn("architect_answers", Question, Basis)
    BY <1>3, <2>1, <2>3, BeginKeeps DEF AssumeAnswers, ArchitectAtWork, Fits, Phase
  <2> QED  BY <1>3, <2>2, <2>3 DEF AssumeAnswers
<1>4. CASE PlanTurn
  <2>1. borg.state = "architect_working"
    BY <1>4 DEF PlanTurn, ArchitectAtWork, Architecting, IInv, StateFollowsTheRecord
  <2> QED  BY <1>4, <2>1, BeginKeeps DEF PlanTurn, ArchitectAtWork, Fits, Phase
<1>5. CASE ReviewTurn
  <2>1. CASE Exit  BY <1>5, <2>1, WaysOn, QuietKeeps DEF ReviewTurn
  <2>2. CASE BeginTurn("tech_review", <<>>, Basis)
    BY <1>5, <2>2, BeginKeeps DEF ReviewTurn, Fits, Phase
  <2> QED  BY <1>5, <2>1, <2>2 DEF ReviewTurn
<1> QED  BY <1>1, <1>2, <1>3, <1>4, <1>5 DEF DraftingTurn

\* What the drafting stores without a transition.
LEMMA QuietDraftKeeps ==
    ASSUME IInv, SameDecomposition,
           StoreNote \/ SteerWithoutAgent \/ RejectPlan \/ AskForAssumptions \/ RefuseReview
    PROVE  IInv'
<1> USE DEF Beheld, draftVars, loopVars, gateVars, graphVars, publishVars, SameDecomposition
<1>0. doing \in DoingType  BY DEF IInv, TypesOK
<1>1. CASE StoreNote  BY <1>1, WaysOn, QuietKeeps DEF StoreNote
<1>2. CASE SteerWithoutAgent  BY <1>2, WaysOn, QuietKeeps DEF SteerWithoutAgent
<1>3. CASE RejectPlan  BY <1>3, WaysOn, QuietKeeps DEF RejectPlan
<1>4. CASE AskForAssumptions
  <2>1. doing' \in DoingType /\ doing'.at = "choosing" /\ doing'.phase = "none"
    BY <1>0, <1>4 DEF AskForAssumptions, DoingType, Place
  <2> QED  BY <1>4, <2>1, QuietKeeps DEF AskForAssumptions
<1>5. CASE RefuseReview  BY <1>5, WaysOn, QuietKeeps DEF RefuseReview
<1> QED  BY <1>1, <1>2, <1>3, <1>4, <1>5

\* Questions, answers and plans.
LEMMA StorePlanKeeps ==
    ASSUME IInv, SameDecomposition,
           StoreQuestions \/ StoreAnswers \/ StoreOpenPlan \/ AcceptPlan
    PROVE  IInv'
<1> USE DEF Beheld, draftVars, loopVars, gateVars, graphVars, publishVars, SameDecomposition
<1>0. /\ doing \in DoingType /\ plan \in [id : 0..3, open : BOOLEAN]
      /\ review \in [verdict : Output \cup {"none"}, latest : BOOLEAN] /\ pending \in BOOLEAN
  BY DEF IInv, TypesOK
<1>1. CASE StoreQuestions
  <2>1. borg.state = "architect_working"
    BY <1>1 DEF StoreQuestions, WithResult, IInv, Working, Fits
  <2>2. CASE Exit /\ UNCHANGED <<borg, pending>>
    BY <1>1, <2>2, WaysOn, QuietKeeps DEF StoreQuestions
  <2>3. CASE Again /\ UNCHANGED <<borg, pending>>
    BY <1>1, <2>3, WaysOn, QuietKeeps DEF StoreQuestions
  <2>4. CASE Again /\ Transition("architect_awaiting_answers") /\ pending' = TRUE
    <3>1. UNCHANGED <<plan, review, approval, markdown, binding, graphVars, publishVars>>
      BY <1>1 DEF StoreQuestions
    <3> QED  BY <1>0, <2>1, <2>4, <3>1, WaysOn, DraftingKeeps DEF Drafting
  <2> QED  BY <1>1, <2>2, <2>3, <2>4 DEF StoreQuestions
<1>2. CASE StoreAnswers
  <2>1. borg.state = "architect_awaiting_answers"
    BY <1>2 DEF StoreAnswers, WithResult, IInv, Working, Fits
  <2>2. CASE Exit /\ UNCHANGED <<borg, draftVars, loopVars, gateVars>>
    BY <1>2, <2>2, WaysOn, QuietKeeps
  <2>3. CASE Answered(1) /\ Again
    <3>1. pending' = FALSE /\ Transition("architect_working")
          /\ UNCHANGED <<plan, review, approval, markdown, binding, graphVars, publishVars>>
      BY <2>3 DEF Answered
    <3> QED  BY <1>0, <2>1, <2>3, <3>1, WaysOn, DraftingKeeps DEF Drafting
  <2> QED  BY <1>2, <2>2, <2>3 DEF StoreAnswers
<1>3. CASE StoreOpenPlan
  <2>1. borg.state = "architect_working"
    BY <1>3 DEF StoreOpenPlan, WithResult, IInv, Working, Fits
  <2>2. /\ Transition("architect_awaiting_answers") /\ pending' = TRUE /\ Again
        /\ plan' = [plan EXCEPT !.open = TRUE]
        /\ UNCHANGED <<review, approval, markdown, binding, graphVars, publishVars>>
    BY <1>3 DEF StoreOpenPlan
  <2>3. plan' \in [id : 0..3, open : BOOLEAN]  BY <1>0, <2>2
  <2> QED  BY <1>0, <2>1, <2>2, <2>3, WaysOn, DraftingKeeps DEF Drafting
<1>4. CASE AcceptPlan
  <2>1. borg.state = "architect_working" /\ ~pending
    BY <1>0, <1>4 DEF AcceptPlan, WithResult, IInv, Working, Fits, StateFollowsTheRecord
  <2>2. /\ Transition("tech_review_working") /\ pending' = pending /\ Afresh
        /\ plan' = [id |-> 0, open |-> FALSE]
        /\ review' = [review EXCEPT !.latest = FALSE]
        /\ UNCHANGED <<approval, markdown, binding, graphVars, publishVars>>
    BY <1>4 DEF AcceptPlan, Unnamed
  <2>3. plan' \in [id : 0..3, open : BOOLEAN] /\ ~plan'.open  BY <2>2
  <2>4. review' \in [verdict : Output \cup {"none"}, latest : BOOLEAN] /\ ~review'.latest
    BY <1>0, <2>2
  <2> QED  BY <1>0, <2>1, <2>2, <2>3, <2>4, WaysOn, DraftingKeeps DEF Drafting
<1> QED  BY <1>1, <1>2, <1>3, <1>4

\* A review of the plan.
LEMMA StoreReviewKeeps ==
    ASSUME IInv, StoreReview, SameDecomposition
    PROVE  IInv'
<1> USE DEF draftVars, loopVars, gateVars, graphVars, publishVars, SameDecomposition
<1>0. /\ doing \in DoingType /\ plan \in [id : 0..3, open : BOOLEAN] /\ pending \in BOOLEAN
      /\ doing.at = "result" /\ doing.phase = "tech_review"
  BY DEF IInv, TypesOK, StoreReview, WithResult
<1>1. borg.state = "tech_review_working" /\ ~pending /\ ~plan.open
  BY <1>0 DEF IInv, Working, Fits, StateFollowsTheRecord
<1>2. /\ review' = [verdict |-> doing.payload, latest |-> TRUE]
      /\ UNCHANGED <<pending, approval, markdown, binding, graphVars, publishVars>>
  BY DEF StoreReview
<1>3. review' \in [verdict : Output \cup {"none"}, latest : BOOLEAN]
  BY <1>0, <1>2 DEF DoingType
<1>4. CASE /\ doing.payload = "approve" /\ Transition("plan_approval_pending") /\ Exit
           /\ plan' = [plan EXCEPT !.id = NewName]
  <2>1. plan' \in [id : 0..3, open : BOOLEAN] /\ ~plan'.open
    <3>1. NewName \in 0..3  BY NamesExist
    <3> HIDE DEF NewName
    <3> QED  BY <1>0, <1>1, <1>4, <3>1
  <2> QED  BY <1>0, <1>1, <1>2, <1>3, <1>4, <2>1, WaysOn, DraftingKeeps DEF Drafting
<1>5. CASE Transition("architect_working") /\ Afresh /\ UNCHANGED plan
  BY <1>0, <1>1, <1>2, <1>3, <1>5, WaysOn, DraftingKeeps DEF Drafting
<1>6. CASE /\ doing.payload = "request_changes" /\ Transition("blocked") /\ Exit
           /\ UNCHANGED plan
  BY <1>0, <1>1, <1>2, <1>3, <1>6, WaysOn, DraftingKeeps DEF Drafting
<1> QED  BY <1>4, <1>5, <1>6 DEF StoreReview

\* The approval of the plan.
LEMMA ApprovingKeeps ==
    ASSUME IInv, Approving
    PROVE  IInv'
<1> USE DEF turnVars, draftVars, loopVars, graphVars, publishVars, SameDecomposition
<1>0. TypesOK  BY DEF IInv
<1>1. ASSUME UNCHANGED <<doing, borg, pending, plan, review, approval, graphVars, publishVars>>,
             binding' \in [seen : 0..2, plan : 0..3, published : BOOLEAN],
             markdown' \in 0..3, approval # 0 => markdown' = markdown /\ binding' = binding, Bound'
      PROVE  IInv'
  <2>1. TypesOK'  BY <1>0, <1>1 DEF TypesOK
  <2>2. Working' /\ Supervising' /\ Publishing'
    BY <1>1 DEF IInv, Working, Supervising, Publishing
  <2>3. StateFollowsTheRecord' /\ ApprovalBindsTheReviewedPlan' /\ PublishedTasksAreWhole'
    BY <1>1 DEF IInv, StateFollowsTheRecord, ApprovalBindsTheReviewedPlan, PublishedTasksAreWhole
  <2> QED  BY <1>1, <2>1, <2>2, <2>3 DEF IInv
<1>2. CASE BindRead /\ SameDecomposition
  <2>1. /\ approval = 0 /\ borg.state = "plan_approval_pending"
        /\ binding' = [seen |-> borg.version, plan |-> plan.id, published |-> FALSE]
        /\ UNCHANGED <<doing, borg, pending, plan, review, approval, markdown, graphVars, publishVars>>
    BY <1>2 DEF BindRead
  <2>2. binding' \in [seen : 0..2, plan : 0..3, published : BOOLEAN]
    BY <1>0, <2>1 DEF TypesOK
  <2>3. Bound'
    <3>1. binding'.seen = borg.version /\ binding'.plan = plan.id /\ ~binding'.published
      BY <2>1
    <3>2. binding'.seen # 0  BY <1>0, <3>1 DEF TypesOK
    <3> QED  BY <2>1, <3>1, <3>2 DEF Bound
  <2> QED  BY <1>0, <1>1, <2>1, <2>2, <2>3 DEF TypesOK
<1>3. CASE BindPublish /\ SameDecomposition
  <2>1. /\ binding.plan # 0 /\ markdown' = binding.plan
        /\ binding' = [binding EXCEPT !.published = TRUE]
        /\ UNCHANGED <<doing, borg, pending, plan, review, approval, graphVars, publishVars>>
    BY <1>3 DEF BindPublish
  <2>2. approval = 0 /\ binding.seen # 0  BY <2>1 DEF NoBinding, IInv, Bound
  <2>3. /\ binding \in [seen : 0..2, plan : 0..3, published : BOOLEAN]
        /\ binding' \in [seen : 0..2, plan : 0..3, published : BOOLEAN]
        /\ binding'.seen = binding.seen /\ binding'.plan = binding.plan /\ binding'.published
    BY <1>0, <2>1 DEF TypesOK
  <2>4. Bound'  BY <2>1, <2>2, <2>3 DEF IInv, Bound
  <2> QED  BY <1>0, <1>1, <2>1, <2>2, <2>3, <2>4
<1>4. CASE /\ binding' = NoBinding
           /\ UNCHANGED <<doing, borg, pending, plan, review, approval, markdown, graphVars, publishVars>>
  <2>1. Bound'  BY <1>4 DEF NoBinding, IInv, Bound
  <2> QED  BY <1>0, <1>1, <1>4, <2>1 DEF NoBinding, TypesOK, IInv, Bound
<1>5. ASSUME BindCommit, SameDecomposition, Unchanged("plan_approval_pending", binding.seen)
      PROVE  IInv'
  <2>1. /\ binding.published /\ binding' = NoBinding /\ approval' = binding.plan
        /\ Transition("pm_working")
        /\ UNCHANGED <<doing, pending, plan, review, markdown, graphVars, publishVars>>
    BY <1>5 DEF BindCommit
  <2>2. /\ borg.state = "plan_approval_pending" /\ borg.version = binding.seen
        /\ binding.plan # 0 /\ markdown = binding.plan /\ plan.id = binding.plan
    BY <1>5, <2>1 DEF Unchanged, NoBinding, IInv, Bound
  <2>3. approval = 0 /\ approved = 0 /\ current = 0 /\ batch = rejected
    BY <2>2 DEF IInv, Supervising, Bound, PublishedTasksAreWhole
  <2>4. borg' \in [state : State, version : {1, 2}] /\ borg'.state = "pm_working"
    BY <1>0, <2>1, TransitionMoves DEF State
  <2>5. TypesOK'  BY <1>0, <2>1, <2>4 DEF NoBinding, TypesOK
  <2>6. Working'
    <3>1. doing.at \notin {"agent", "result"}  BY <2>2 DEF IInv, Working, Fits, Phase
    <3> QED  BY <2>1, <3>1 DEF Working
  <2>7. Supervising' /\ Publishing'
    BY <2>1, <2>2, <2>3 DEF IInv, Supervising, Publishing
  <2>8. Bound'  BY <2>1, <2>4 DEF NoBinding, Bound
  <2>9. StateFollowsTheRecord' /\ ApprovalBindsTheReviewedPlan' /\ PublishedTasksAreWhole'
    BY <2>1, <2>2, <2>3, <2>4
    DEF IInv, StateFollowsTheRecord, ApprovalBindsTheReviewedPlan, PublishedTasksAreWhole
  <2> QED  BY <2>5, <2>6, <2>7, <2>8, <2>9 DEF IInv
<1> QED  BY <1>2, <1>3, <1>4, <1>5 DEF Approving, Bind, BindCommit, BindDies

\* Turns of the decomposition.
LEMMA DecompositionTurnKeeps ==
    ASSUME IInv, DecompositionTurn, UNCHANGED publishVars
    PROVE  IInv'
<1> USE DEF Beheld, draftVars, loopVars, gateVars, graphVars, publishVars
<1>1. CASE borg.state = "pm_working" /\ SteeringTurn("supervisor_review", approval)
           /\ UNCHANGED graphVars
  BY <1>1, BeginKeeps DEF SteeringTurn, Fits, Phase
<1>2. CASE PmTurn
  <2>1. CASE Exit  BY <1>2, <2>1, WaysOn, QuietKeeps DEF PmTurn
  <2>2. CASE BeginTurn("pm_tasks", <<approval, batch>>, Basis)
    BY <1>2, <2>2, BeginKeeps DEF PmTurn, PmAtWork, Fits, Phase
  <2> QED  BY <1>2, <2>1, <2>2 DEF PmTurn
<1>3. CASE SupervisorTurn
  BY <1>3, BeginKeeps DEF SupervisorTurn, Fits, Phase
<1> QED  BY <1>1, <1>2, <1>3 DEF DecompositionTurn

\* What the decomposition stores without a transition and without a decision.
LEMMA QuietDecompositionKeeps ==
    ASSUME IInv, UNCHANGED publishVars,
           \/ PmUnparsable \/ PmGivesUp \/ PmNoProgress \/ PmInvalidGraph
           \/ RefuseDecision \/ InterruptReview
    PROVE  IInv'
<1> USE DEF Beheld, draftVars, loopVars, gateVars, graphVars, publishVars
<1>1. ASSUME NEW after, PmFails(after)  PROVE IInv'
  BY <1>1, WaysOn, QuietKeeps DEF PmFails
<1>2. CASE PmGivesUp  BY <1>2, WaysOn, QuietKeeps DEF PmGivesUp
<1>3. CASE RefuseDecision  BY <1>3, WaysOn, QuietKeeps DEF RefuseDecision
<1>4. CASE InterruptReview  BY <1>4, WaysOn, QuietKeeps DEF InterruptReview
<1>5. CASE PmInvalidGraph
  <2>1. PICK progressed \in {FALSE, pm.comparable /\ pm.refunds < MaxRefunds} :
          LET refund == progressed /\ pm.attempts > PmRetries
          IN  PmFails([Failed EXCEPT !.refunds = @ + (IF refund THEN 1 ELSE 0),
                                     !.comparable = TRUE])
    BY <1>5 DEF PmInvalidGraph
  <2> QED  BY <1>1, <2>1
<1> QED  BY <1>1, <1>2, <1>3, <1>4, <1>5 DEF PmUnparsable, PmNoProgress

\* A batch, and the decision about it.
LEMMA DecisionKeeps ==
    ASSUME IInv, UNCHANGED publishVars, StoreBatch \/ RejectBatch \/ ApproveBatch
    PROVE  IInv'
<1> USE DEF draftVars, loopVars, gateVars, publishVars
<1>0. TypesOK /\ doing.at = "result"
  BY DEF IInv, StoreBatch, RejectBatch, ApproveBatch, WithResult
<1>1. ASSUME NEW s \in State, Transition(s), borg.state \in {"pm_working", "supervisor_working"},
             s \in {"pm_working", "supervisor_working", "blocked"},
             UNCHANGED <<pending, plan, review, approval, markdown, binding, publishVars>>,
             batch' \in Nat, rejected' \in Nat, approved' \in Nat,
             approved = 0, approved' # 0 => s = "supervisor_working" /\ approved' = batch',
             s # "supervisor_working" => batch' = rejected',
             s = "supervisor_working" => batch' > rejected',
             doing' \in DoingType, doing'.at \in {"idle", "choosing"}, doing'.phase = "none"
      PROVE  IInv'
  <2>1. /\ approval # 0 /\ binding = NoBinding /\ ~pending
        /\ approval = plan.id /\ current = 0
    BY <1>0, <1>1 DEF IInv, Supervising, Bound, StateFollowsTheRecord, PublishedTasksAreWhole, TypesOK
  <2>2. borg' \in [state : State, version : {1, 2}] /\ borg'.state = s
    BY <1>0, <1>1, TransitionMoves
  <2>3. TypesOK'  BY <1>0, <1>1, <2>2 DEF TypesOK
  <2>4. Working' /\ Publishing' /\ Supervising'
    BY <1>1, <2>1, <2>2 DEF Working, Publishing, Supervising
  <2>5. Bound'  BY <1>1, <2>1, <2>2 DEF NoBinding, Bound
  <2>6. StateFollowsTheRecord'
    BY <1>1, <2>1, <2>2 DEF StateFollowsTheRecord
  <2>7. ApprovalBindsTheReviewedPlan' /\ PublishedTasksAreWhole'
    BY <1>1, <2>1 DEF IInv, ApprovalBindsTheReviewedPlan, PublishedTasksAreWhole
  <2> QED  BY <2>3, <2>4, <2>5, <2>6, <2>7 DEF IInv
<1>2. CASE StoreBatch
  <2>1. borg.state = "pm_working"
    BY <1>2 DEF StoreBatch, WithResult, IInv, Working, Fits
  <2>2. approved = 0 /\ batch = rejected
    BY <2>1 DEF IInv, Supervising, StateFollowsTheRecord
  <2>3. /\ Transition("supervisor_working") /\ batch' = batch + 1 /\ Afresh
        /\ UNCHANGED <<pending, plan, review, approval, markdown, binding, publishVars, rejected, approved>>
    BY <1>2 DEF StoreBatch
  <2>4. batch' \in Nat /\ rejected' \in Nat /\ batch' > rejected' /\ approved' = 0
    BY <1>0, <2>2, <2>3 DEF TypesOK
  <2>5. doing' \in DoingType /\ doing'.at \in {"idle", "choosing"} /\ doing'.phase = "none"
    BY <2>3, WaysOn
  <2> QED  BY <1>1, <2>1, <2>2, <2>3, <2>4, <2>5 DEF State
<1>3. CASE RejectBatch
  <2>1. borg.state = "supervisor_working" /\ approved = 0
    BY <1>3 DEF RejectBatch, WithResult, IInv, Working, Supervising, Fits
  <2>2. /\ rejected' = batch
        /\ UNCHANGED <<pending, plan, review, approval, markdown, binding, publishVars, batch, approved>>
    BY <1>3 DEF RejectBatch
  <2>3. batch' \in Nat /\ rejected' \in Nat /\ batch' = rejected' /\ approved' = 0
    BY <1>0, <2>1, <2>2 DEF TypesOK
  <2>4. ASSUME Exit \/ Afresh
        PROVE  /\ doing' \in DoingType /\ doing'.at \in {"idle", "choosing"}
               /\ doing'.phase = "none"
    BY <2>4, WaysOn
  <2>5. CASE Transition("pm_working") /\ Afresh
    BY <1>1, <2>1, <2>2, <2>3, <2>4, <2>5 DEF State
  <2>6. CASE Transition("blocked") /\ Exit
    BY <1>1, <2>1, <2>2, <2>3, <2>4, <2>6 DEF State
  <2> QED  BY <1>3, <2>5, <2>6 DEF RejectBatch
<1>4. CASE ApproveBatch
  <2>1. borg.state = "supervisor_working" /\ approved = 0
    BY <1>4 DEF ApproveBatch, WithResult, IInv, Working, Supervising, Fits
  <2>2. /\ approved' = batch /\ Afresh /\ borg' = borg
        /\ UNCHANGED <<pending, plan, review, approval, markdown, binding, publishVars, batch, rejected>>
    BY <1>4 DEF ApproveBatch
  <2>3. Transition("supervisor_working")  BY <2>1, <2>2 DEF Transition
  <2>4. batch > rejected  BY <2>1 DEF IInv, StateFollowsTheRecord
  <2> QED  BY <1>0, <1>1, <2>1, <2>2, <2>3, <2>4, WaysOn DEF State, TypesOK
<1> QED  BY <1>2, <1>3, <1>4

\* A step of the publisher leaves the Borg alone until the last one.
LEMMA PublicationStepKeeps ==
    ASSUME IInv, PublicationStep
    PROVE  IInv'
<1> USE DEF SameRecord, draftVars, loopVars, gateVars, graphVars, publishVars, Step, At
<1>0. TypesOK /\ doing \in DoingType  BY DEF IInv, TypesOK
<1>1. ASSUME NEW place \in Place \ {"agent", "result"},
             doing' = [doing EXCEPT !.at = place] \/ Exit,
             SameRecord, borg' = borg,
             staged' \in [of : Nat, content : Content],
             tree' \in [of : Nat, content : Content, entry : BOOLEAN],
             current' \in Nat, Publishing', PublishedTasksAreWhole',
             current # 0 => current' = current
      PROVE  IInv'
  <2>1. /\ doing' \in DoingType /\ doing'.at \notin {"agent", "result"}
        /\ doing'.phase \in {doing.phase, "none"}
    <3>1. CASE doing' = [doing EXCEPT !.at = place]  BY <1>0, <1>1, <3>1 DEF DoingType
    <3>2. CASE Exit  BY <3>2 DEF Exit, Idle, DoingType, Place
    <3> QED  BY <1>1, <3>1, <3>2
  <2>2. TypesOK'  BY <1>0, <1>1, <2>1 DEF TypesOK
  <2>3. Working' /\ Supervising' /\ Bound'
    BY <1>1, <2>1 DEF IInv, Working, Supervising, Bound
  <2>4. StateFollowsTheRecord'
    BY <1>1 DEF IInv, StateFollowsTheRecord
  <2>5. ApprovalBindsTheReviewedPlan'
    BY <1>1 DEF IInv, ApprovalBindsTheReviewedPlan
  <2> QED  BY <1>1, <2>2, <2>3, <2>4, <2>5 DEF IInv
<1>2. /\ staged \in [of : Nat, content : Content] /\ current \in Nat /\ approved \in Nat
      /\ tree \in [of : Nat, content : Content, entry : BOOLEAN]
  BY <1>0 DEF TypesOK
<1>3. ASSUME NEW place, doing' = [doing EXCEPT !.at = place]  PROVE doing'.at = place
  BY <1>0, <1>3 DEF DoingType
<1>4. ASSUME Exit  PROVE doing'.at = "idle"  BY <1>4 DEF Exit, Idle
<1>5. CASE BeginPublication
  <2>1. approved # 0 /\ approved = batch
    BY <1>5 DEF BeginPublication, Publishable, IInv, Supervising
  <2>2. SameRecord /\ borg' = borg /\ UNCHANGED <<tree, current>>  BY <1>5 DEF BeginPublication
  <2>3. PublishedTasksAreWhole'  BY <2>2 DEF IInv, PublishedTasksAreWhole
  <2>4. CASE ApprovedPreparing = {} /\ doing' = [doing EXCEPT !.at = "cleaning"] /\ UNCHANGED staged
    <3>1. current = approved  BY <2>1, <2>4 DEF ApprovedPreparing, Preparing
    <3>2. doing'.at = "cleaning"  BY <1>3, <2>4
    <3>3. Publishing'  BY <2>1, <2>2, <3>1, <3>2 DEF Publishing
    <3> QED  BY <1>1, <1>2, <2>2, <2>3, <2>4, <3>3 DEF Place
  <2>5. ASSUME NEW g \in ApprovedPreparing,
               IF tree.of = g THEN doing' = [doing EXCEPT !.at = "verifying"] /\ UNCHANGED staged
               ELSE doing' = [doing EXCEPT !.at = "staging"] /\ staged' = [staged EXCEPT !.of = g]
        PROVE  IInv'
    <3>1. g = approved /\ g # current  BY DEF ApprovedPreparing, Preparing
    <3>2. current = 0  BY <3>1 DEF IInv, PublishedTasksAreWhole
    <3>3. CASE doing' = [doing EXCEPT !.at = "verifying"] /\ UNCHANGED staged /\ tree.of = g
      <4>1. doing'.at = "verifying"  BY <1>3, <3>3
      <4>2. Publishing'  BY <2>1, <2>2, <3>1, <3>2, <3>3, <4>1 DEF Publishing
      <4> QED  BY <1>1, <1>2, <2>2, <2>3, <3>3, <4>2 DEF Place
    <3>4. CASE doing' = [doing EXCEPT !.at = "staging"] /\ staged' = [staged EXCEPT !.of = g]
      <4>1. doing'.at = "staging"  BY <1>3, <3>4
      <4>2. staged' \in [of : Nat, content : Content] /\ staged'.of = approved
        BY <1>2, <3>1, <3>4
      <4>3. Publishing'  BY <2>1, <2>2, <3>1, <3>2, <4>1, <4>2 DEF Publishing
      <4> QED  BY <1>1, <1>2, <2>2, <2>3, <3>4, <4>2, <4>3 DEF Place
    <3> QED  BY <2>5, <3>3, <3>4
  <2>6. CASE /\ current # 0 /\ current = approved
             /\ doing' = [doing EXCEPT !.at = "publishing done"] /\ UNCHANGED staged
    <3>1. doing'.at = "publishing done"  BY <1>3, <2>6
    <3>2. Publishing'  BY <2>1, <2>2, <2>6, <3>1 DEF Publishing
    <3> QED  BY <1>1, <1>2, <2>2, <2>3, <2>6, <3>2 DEF Place
  <2> QED  BY <1>5, <2>4, <2>5, <2>6 DEF BeginPublication
<1>6. CASE Restage \/ StageFiles
  <2>1. PICK content \in {"partial", "whole"}, place \in {"writing", "renaming"} :
          /\ staged' = [staged EXCEPT !.content = content]
          /\ doing' = [doing EXCEPT !.at = place]
    BY <1>6 DEF Restage, StageFiles
  <2>2. /\ staged.of = approved /\ approved # 0 /\ current = 0
        /\ SameRecord /\ borg' = borg /\ UNCHANGED <<tree, current>>
    BY <1>6 DEF Restage, StageFiles, IInv, Publishing
  <2>3. staged' \in [of : Nat, content : Content] /\ staged'.of = approved
    BY <1>2, <2>1, <2>2 DEF Content
  <2>4. doing'.at = place  BY <1>3, <2>1
  <2>5. Publishing'  BY <2>1, <2>2, <2>3, <2>4 DEF Publishing
  <2>6. PublishedTasksAreWhole'  BY <2>2 DEF PublishedTasksAreWhole
  <2> QED  BY <1>1, <1>2, <2>1, <2>2, <2>3, <2>5, <2>6 DEF Place
<1>7. CASE Rename
  <2>1. /\ tree' = [of |-> staged.of, content |-> staged.content, entry |-> FALSE]
        /\ staged' = NoStaging /\ doing' = [doing EXCEPT !.at = "syncing"]
        /\ SameRecord /\ borg' = borg /\ current' = current
    BY <1>7 DEF Rename
  <2>2. staged.of = approved /\ approved # 0 /\ current = 0  BY <1>7 DEF Rename, IInv, Publishing
  <2>3. tree' \in [of : Nat, content : Content, entry : BOOLEAN] /\ tree'.of = approved
    BY <1>2, <2>1, <2>2
  <2>4. staged' \in [of : Nat, content : Content]  BY <2>1 DEF NoStaging, Content
  <2>5. doing'.at = "syncing"  BY <1>3, <2>1
  <2>6. Publishing' /\ PublishedTasksAreWhole'
    BY <2>1, <2>2, <2>3, <2>5 DEF Publishing, PublishedTasksAreWhole
  <2> QED  BY <1>1, <1>2, <2>1, <2>3, <2>4, <2>6 DEF Place
<1>8. CASE VerifyExisting \/ SyncParent \/ VerifySynced
  <2>1. PICK place \in {"syncing", "checking", "promoting"} :
          doing' = [doing EXCEPT !.at = place] \/ Exit
    BY <1>8 DEF VerifyExisting, SyncParent, VerifySynced
  <2>2. /\ tree.of = approved /\ approved # 0 /\ current = 0
        /\ SameRecord /\ borg' = borg /\ UNCHANGED <<staged, current>>
    BY <1>8 DEF VerifyExisting, SyncParent, VerifySynced, IInv, Publishing
  <2>3. tree' = tree \/ tree' = [tree EXCEPT !.entry = TRUE]
    BY <1>8 DEF VerifyExisting, SyncParent, VerifySynced
  <2>4. tree' \in [of : Nat, content : Content, entry : BOOLEAN] /\ tree'.of = approved
    BY <1>2, <2>2, <2>3
  <2>5. doing'.at \in {place, "idle"}  BY <1>3, <1>4, <2>1
  <2>6. Publishing' /\ PublishedTasksAreWhole'
    BY <2>2, <2>4, <2>5 DEF Publishing, PublishedTasksAreWhole
  <2> QED  BY <1>1, <1>2, <2>1, <2>2, <2>4, <2>6 DEF Place
<1>9. CASE Promote
  <2>1. tree.of = approved /\ approved # 0 /\ current = 0  BY <1>9 DEF Promote, IInv, Publishing
  <2>2. SameRecord /\ borg' = borg /\ staged' = staged  BY <1>9 DEF Promote
  <2>3. CASE /\ Intact /\ tree' = [tree EXCEPT !.entry = TRUE] /\ current' = tree.of
             /\ doing' = [doing EXCEPT !.at = "cleaning"]
    <3>1. /\ tree' \in [of : Nat, content : Content, entry : BOOLEAN] /\ tree'.of = approved
          /\ tree'.content = "whole" /\ tree'.entry /\ current' = approved
      BY <1>2, <2>1, <2>3 DEF Intact
    <3>2. doing'.at = "cleaning"  BY <1>3, <2>3
    <3>3. Publishing' /\ PublishedTasksAreWhole'
      BY <2>1, <2>2, <3>1, <3>2 DEF Publishing, PublishedTasksAreWhole
    <3> QED  BY <1>1, <1>2, <2>1, <2>2, <2>3, <3>1, <3>3 DEF Place
  <2>4. CASE Exit /\ UNCHANGED <<tree, current>>
    <3>1. Publishing' /\ PublishedTasksAreWhole'
      BY <1>4, <2>1, <2>4 DEF Publishing, PublishedTasksAreWhole
    <3>2. "idle" \in Place \ {"agent", "result"}  BY DEF Place
    <3> QED  BY <1>1, <1>2, <2>1, <2>2, <2>4, <3>1, <3>2
  <2> QED  BY <1>9, <2>3, <2>4 DEF Promote
<1>10. CASE CleanUp
  <2>1. current = approved /\ approved # 0  BY <1>10 DEF CleanUp, IInv, Publishing
  <2>2. SameRecord /\ borg' = borg /\ UNCHANGED <<tree, current>>  BY <1>10 DEF CleanUp
  <2>3. PublishedTasksAreWhole'  BY <2>2 DEF IInv, PublishedTasksAreWhole
  <2>4. staged' \in [of : Nat, content : Content]
    <3>1. NoStaging \in [of : Nat, content : Content]  BY DEF NoStaging, Content
    <3> QED  BY <1>2, <1>10, <3>1 DEF CleanUp
  <2>5. doing' = [doing EXCEPT !.at = "publishing done"] \/ Exit  BY <1>10 DEF CleanUp
  <2>6. doing'.at \in {"publishing done", "idle"}  BY <1>3, <1>4, <2>5
  <2>7. Publishing'  BY <2>1, <2>2, <2>6 DEF Publishing
  <2>8. "publishing done" \in Place \ {"agent", "result"}  BY DEF Place
  <2> QED  BY <1>1, <1>2, <2>2, <2>3, <2>4, <2>5, <2>7, <2>8
<1>11. CASE BecomeReady
  <2>1. /\ current = approved /\ approved # 0 /\ Transition("ready_to_execute") /\ Exit
        /\ SameRecord /\ UNCHANGED publishVars
    BY <1>11 DEF BecomeReady, IInv, Publishing
  <2>2. borg' \in [state : State, version : {1, 2}] /\ borg'.state = "ready_to_execute"
    BY <1>0, <2>1, TransitionMoves DEF State
  <2>3. /\ approved = batch /\ borg.state \in {"supervisor_working", "ready_to_execute"}
        /\ approval # 0 /\ binding = NoBinding /\ approval = plan.id /\ ~pending
    BY <1>0, <2>1 DEF IInv, Supervising, Bound, StateFollowsTheRecord, TypesOK
  <2>4. doing' \in DoingType /\ doing'.at = "idle" /\ doing'.phase = "none"
    BY <2>1 DEF Exit, Idle, DoingType, Place
  <2>5. TypesOK'  BY <1>0, <2>1, <2>2, <2>4 DEF TypesOK
  <2>6. Working' /\ Publishing' /\ Supervising'
    BY <2>1, <2>2, <2>3, <2>4 DEF Working, Publishing, Supervising
  <2>7. Bound'  BY <2>1, <2>2, <2>3 DEF NoBinding, Bound
  <2>8. StateFollowsTheRecord'  BY <2>1, <2>2, <2>3 DEF StateFollowsTheRecord
  <2>9. ApprovalBindsTheReviewedPlan' /\ PublishedTasksAreWhole'
    BY <2>1 DEF IInv, ApprovalBindsTheReviewedPlan, PublishedTasksAreWhole
  <2> QED  BY <2>5, <2>6, <2>7, <2>8, <2>9 DEF IInv
<1> QED  BY <1>5, <1>6, <1>7, <1>8, <1>9, <1>10, <1>11 DEF PublicationStep

\* The agent returns, gives nothing, or dies with its process.
LEMMA AgentKeeps ==
    ASSUME IInv, Return \/ GiveUp \/ Crash
    PROVE  IInv'
<1> USE DEF SameDraft, SameDecomposition, draftVars, loopVars, gateVars, graphVars,
            publishVars, Beheld
<1>1. CASE GiveUp  BY <1>1, WaysOn, QuietKeeps DEF GiveUp
<1>2. CASE Crash  BY <1>2, WaysOn, QuietKeeps DEF Crash, Die
<1>3. CASE Return
  <2>1. doing \in DoingType /\ doing.at = "agent" /\ doing.phase \in Phase
    BY <1>3 DEF Return, IInv, TypesOK, Working
  <2>2. PICK result \in Payload[doing.phase] :
          doing' = [doing EXCEPT !.at = "result", !.payload = result]
    BY <1>3 DEF Return, AgentReturns, Payloads
  <2>3. result \in Output  BY <2>1, PayloadsAreOutputs
  <2>4. doing' \in DoingType /\ doing'.at = "result" /\ doing'.phase = doing.phase
    BY <2>1, <2>2, <2>3 DEF DoingType, Place
  <2>5. UNCHANGED Beheld  BY <1>3 DEF Return
  <2>6. TypesOK'  BY <2>4, <2>5 DEF IInv, TypesOK
  <2>7. Working' /\ Publishing'  BY <2>1, <2>4, <2>5 DEF IInv, Working, Publishing
  <2>8. Supervising' /\ Bound'  BY <2>4, <2>5 DEF IInv, Supervising, Bound
  <2>9. StateFollowsTheRecord' /\ ApprovalBindsTheReviewedPlan' /\ PublishedTasksAreWhole'
    BY <2>5 DEF IInv, StateFollowsTheRecord, ApprovalBindsTheReviewedPlan, PublishedTasksAreWhole
  <2> QED  BY <2>6, <2>7, <2>8, <2>9 DEF IInv
<1> QED  BY <1>1, <1>2, <1>3

\* Power is lost, or a file is edited.
LEMMA WorldKeeps ==
    ASSUME IInv, PowerLoss \/ TreeDrifts
    PROVE  IInv'
<1> USE DEF SameRecord, draftVars, loopVars, gateVars, graphVars
<1>0. TypesOK  BY DEF IInv
<1>1. UNCHANGED <<borg, pending, plan, review, approval, markdown, binding, graphVars, current>>
  BY DEF PowerLoss, TreeDrifts
<1>2. ASSUME PowerLoss
      PROVE  TypesOK' /\ Working' /\ Supervising' /\ Bound' /\ Publishing'
  <2>1. /\ doing' = Idle /\ tree' \in {tree, NoTree}
        /\ staged' \in {staged, [staged EXCEPT !.content = "partial"], NoStaging}
    BY <1>2 DEF PowerLoss, Die, Exit
  <2>2. /\ staged \in [of : Nat, content : Content]
        /\ tree \in [of : Nat, content : Content, entry : BOOLEAN]
    BY <1>0 DEF TypesOK
  <2>3. NoStaging \in [of : Nat, content : Content]  BY DEF NoStaging, Content
  <2>4. [staged EXCEPT !.content = "partial"] \in [of : Nat, content : Content]
    BY <2>2 DEF Content
  <2>5. NoTree \in [of : Nat, content : Content, entry : BOOLEAN]  BY DEF NoTree, Content
  <2>6. doing' \in DoingType /\ doing'.at = "idle" /\ doing'.phase = "none"
    BY <2>1 DEF Idle, DoingType, Place
  <2>7. TypesOK'  BY <1>0, <1>1, <2>1, <2>2, <2>3, <2>4, <2>5, <2>6 DEF TypesOK
  <2>8. Working' /\ Supervising' /\ Bound' /\ Publishing'
    BY <1>1, <2>6 DEF IInv, Working, Supervising, Bound, Publishing
  <2> QED  BY <2>7, <2>8
<1>3. ASSUME TreeDrifts
      PROVE  TypesOK' /\ Working' /\ Supervising' /\ Bound' /\ Publishing'
  <2>1. /\ doing' = doing /\ staged' = staged
        /\ tree' = [tree EXCEPT !.content = "drifted"]
    BY <1>3 DEF TreeDrifts
  <2>2. tree' \in [of : Nat, content : Content, entry : BOOLEAN] /\ tree'.of = tree.of
    BY <1>0, <2>1 DEF TypesOK, Content
  <2>3. TypesOK'  BY <1>0, <1>1, <2>1, <2>2 DEF TypesOK
  <2>4. Working' /\ Supervising' /\ Bound' /\ Publishing'
    BY <1>1, <2>1, <2>2 DEF IInv, Working, Supervising, Bound, Publishing
  <2> QED  BY <2>3, <2>4
<1>4. TypesOK' /\ Working' /\ Supervising' /\ Bound' /\ Publishing'  BY <1>2, <1>3
<1>5. current # 0 => tree' = tree
  BY DEF PowerLoss, TreeDrifts, IInv, PublishedTasksAreWhole
<1>6. StateFollowsTheRecord' /\ ApprovalBindsTheReviewedPlan' /\ PublishedTasksAreWhole'
  BY <1>1, <1>5 DEF IInv, StateFollowsTheRecord, ApprovalBindsTheReviewedPlan, PublishedTasksAreWhole
<1> QED  BY <1>4, <1>6 DEF IInv

---------------------------------------------------------------------------------
LEMMA Initial == Init => IInv
<1> SUFFICES ASSUME Init  PROVE IInv  OBVIOUS
<1> USE DEF Init, InitDrafting, InitDecomposition, InitPublication
<1>1. TypesOK
  <2>1. doing \in DoingType  BY DEF Idle, DoingType, Place
  <2>2. borg \in [state : State, version : {1, 2}]  BY DEF State
  <2>3. /\ plan \in [id : 0..3, open : BOOLEAN]
        /\ review \in [verdict : Output \cup {"none"}, latest : BOOLEAN]
        /\ binding \in [seen : 0..2, plan : 0..3, published : BOOLEAN]
    BY DEF Unnamed, NoBinding
  <2>4. /\ staged \in [of : Nat, content : Content]
        /\ tree \in [of : Nat, content : Content, entry : BOOLEAN]
    BY DEF NoStaging, NoTree, Content
  <2>5. pending = FALSE  OBVIOUS
  <2>6. /\ approval \in 0..3 /\ markdown \in 0..3
        /\ batch \in Nat /\ rejected \in Nat /\ approved \in Nat /\ current \in Nat
    OBVIOUS
  <2> HIDE DEF Init, InitDrafting, InitDecomposition, InitPublication
  <2> QED  BY <2>1, <2>2, <2>3, <2>4, <2>5, <2>6 DEF TypesOK
<1>2. Working /\ Supervising /\ Bound /\ Publishing
  BY DEF Working, Supervising, Bound, Publishing, Idle, NoBinding
<1>3. StateFollowsTheRecord /\ ApprovalBindsTheReviewedPlan /\ PublishedTasksAreWhole
  BY DEF StateFollowsTheRecord, ApprovalBindsTheReviewedPlan, PublishedTasksAreWhole
<1> QED  BY <1>1, <1>2, <1>3 DEF IInv

LEMMA StepKeeps == IInv /\ [Next]_planningVars => IInv'
<1> SUFFICES ASSUME IInv, [Next]_planningVars  PROVE IInv'  OBVIOUS
<1>1. CASE Command  BY <1>1, CommandKeeps
<1>2. CASE Work
  <2>1. CASE (BeginArchitect \/ OperatorAnswers) /\ SameDecomposition
    BY <2>1, ArchitectKeeps
  <2>2. CASE DraftingTurn /\ SameDecomposition  BY <2>2, DraftingTurnKeeps
  <2>3. CASE StoreDraft /\ SameDecomposition
    BY <2>3, QuietDraftKeeps, StorePlanKeeps, StoreReviewKeeps DEF StoreDraft
  <2>4. CASE DecompositionTurn /\ UNCHANGED publishVars  BY <2>4, DecompositionTurnKeeps
  <2>5. CASE StoreDecomposition /\ UNCHANGED publishVars
    BY <2>5, QuietDecompositionKeeps, DecisionKeeps DEF StoreDecomposition
  <2>6. CASE PublicationStep  BY <2>6, PublicationStepKeeps
  <2>7. CASE Return \/ GiveUp  BY <2>7, AgentKeeps
  <2> QED  BY <1>2, <2>1, <2>2, <2>3, <2>4, <2>5, <2>6, <2>7 DEF Work
<1>3. CASE Approving  BY <1>3, ApprovingKeeps
<1>4. CASE Crash  BY <1>4, AgentKeeps
<1>5. CASE PowerLoss \/ TreeDrifts  BY <1>5, WorldKeeps
<1>6. CASE UNCHANGED planningVars
  <2> USE <1>6 DEF planningVars, turnVars, draftVars, loopVars, gateVars, graphVars, publishVars
  <2>1. TypesOK'  BY DEF IInv, TypesOK
  <2>2. Working' /\ Supervising' /\ Bound' /\ Publishing'
    BY DEF IInv, Working, Supervising, Bound, Publishing
  <2>3. StateFollowsTheRecord' /\ ApprovalBindsTheReviewedPlan' /\ PublishedTasksAreWhole'
    BY DEF IInv, StateFollowsTheRecord, ApprovalBindsTheReviewedPlan, PublishedTasksAreWhole
  <2> QED  BY <2>1, <2>2, <2>3 DEF IInv
<1> QED  BY <1>1, <1>2, <1>3, <1>4, <1>5, <1>6 DEF Next

\* In every reachable state a process works where its phase has a turn, a batch
\* is reviewed until one review approves it, an approval under way stands on what
\* it has seen, and the publisher has what its place says (the loops of
\* planning/, workflow_service.py and task_publication.py together).
THEOREM InvariantHolds == Spec => []IInv
BY Initial, StepKeeps, PTL DEF Spec

\* For any budgets, caps and bounds, the state of the Borg is what its record
\* says, whatever died in between (planning/architect.py, tech_lead.py, pm.py,
\* supervisor.py).
THEOREM StateAlwaysFollows == Spec => []StateFollowsTheRecord
<1>1. IInv => StateFollowsTheRecord  BY DEF IInv
<1> QED  BY InvariantHolds, <1>1, PTL

\* For any budgets, caps and bounds, an approval binds the latest plan, the one
\* its review approved and its Markdown shows, though the plan may change while
\* the approval is under way (workflow_service.py, bind_plan_approval).
THEOREM ApprovalsBind == Spec => []ApprovalBindsTheReviewedPlan
<1>1. IInv => ApprovalBindsTheReviewedPlan  BY DEF IInv
<1> QED  BY InvariantHolds, <1>1, PTL

\* For any budgets, caps and bounds, what the database calls current is the
\* approved generation and stands whole and durable, though the publisher may die
\* and power may be lost at every step (planning/task_publication.py).
THEOREM PublishedStaysWhole == Spec => []PublishedTasksAreWhole
<1>1. IInv => PublishedTasksAreWhole  BY DEF IInv
<1> QED  BY InvariantHolds, <1>1, PTL
=================================================================================
