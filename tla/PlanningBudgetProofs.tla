-------------------------- MODULE PlanningBudgetProofs --------------------------
(***************************************************************************)
(* Theorems about PlanningBorg, for any budgets, caps and bounds: however   *)
(* often a loop is interrupted and resumed, it stays within its rounds, its *)
(* retries and its questions.  A loop that may still be asked has a round   *)
(* left (Graded), an attempt of the Project Manager is counted before it    *)
(* can fail (Counted), and the cap is read before a turn that counts        *)
(* against it (Asked); that a turn at work has its row (Held) ties them to  *)
(* the turns.  And a turn that is taken up again was shown the record it is *)
(* used for.                                                               *)
(***************************************************************************)
EXTENDS PlanningProofs, FiniteSetTheorems

Loop == {"tech_review", "supervisor_review"}
Request == {<<>>} \cup (Nat \X Nat) \cup (Loop \X Nat \X Nat) \cup (Nat \X Nat \X Nat)
Shown == {<<>>} \cup ((Nat \X Nat) \X BOOLEAN \X Nat \X Nat)
Attempt == [request : Request, shown : Shown,
            file : Output \cup {"none", "unusable", "no attempt"}]
Spending == [questions : Nat, ready : BOOLEAN, answers : Nat, opened : Nat]
Assessed == [round : Nat, minimum : Nat, open : Int, refunded : RefundRecorded,
             converging : BOOLEAN]
Counting == [attempts : 0..MaxAttempts, failures : Nat, refunds : 0..MaxRefunds,
             failed : BOOLEAN, comparable : BOOLEAN]

Shapes ==
    /\ running \in [Phase -> Attempt]
    /\ cycle \in Nat /\ noted \in Nat /\ spent \in Spending
    /\ assessments \in Seq(Assessed) /\ pm \in Counting

AtWork == doing.at \in {"agent", "result"}
Held == AtWork => IsRunning(doing.phase)

Rounds == ReviewRounds + GrantBudget
Graded ==
    /\ \A k \in DOMAIN assessments : assessments[k].round = k
    /\ Len(assessments) - Refunds <= Rounds
    /\ borg.state # "blocked" => Len(assessments) - Refunds < Rounds

\* Counting stops where no cycle continues.
Retries == PmRetries + GrantBudget
Counted ==
    /\ pm.failures <= pm.attempts \/ pm.attempts = MaxAttempts
    /\ IsRunning("pm_tasks") => pm.failures < pm.attempts \/ pm.attempts = MaxAttempts
    /\ pm.failures - pm.refunds <= Retries
    /\ pm.failures - pm.refunds = Retries =>
         pm.failed /\ ~IsRunning("pm_tasks") /\ doing.phase # "pm_tasks"

Asked ==
    /\ spent.answers <= QuestionCap
    /\ AtWork /\ doing.phase = "architect_answers" => spent.answers < QuestionCap

BudgetInv == IInv /\ Shapes /\ Held /\ Graded /\ Counted /\ Asked

---------------------------------------------------------------------------------
\* What a prompt is rendered from.
LEMMA BasisIsShown ==
    ASSUME IInv, Shapes
    PROVE  Basis \in Shown /\ Question \in Nat \X Nat
<1>1. cycle \in Nat /\ spent.questions \in Nat /\ spent.opened \in Nat
  BY DEF Shapes, Spending
<1>2. Question \in Nat \X Nat  BY <1>1 DEF Question
<1>3. pending \in BOOLEAN /\ Len(assessments) \in Nat /\ batch \in Nat
  BY DEF IInv, TypesOK, Shapes
<1> QED  BY <1>2, <1>3 DEF Basis, Shown

\* Beginning a turn touches its row alone, and a turn at work has one.
LEMMA BeginTouches ==
    ASSUME IInv, Shapes, Choosing, NEW p \in Phase, NEW request \in Request,
           BeginTurn(p, request, Basis)
    PROVE  /\ running' \in [Phase -> Attempt]
           /\ \A q \in Phase \ {p} : running'[q] = running[q]
           /\ doing'.phase = p
           /\ doing'.at \in {"choosing", "agent", "result"}
           /\ IsRunning(p)' <=> doing'.at # "choosing"
           /\ doing'.at = "choosing" => IsRunning(p)
<1>0. running \in [Phase -> Attempt] /\ doing \in DoingType /\ doing.at = "choosing"
  BY DEF IInv, TypesOK, Shapes, Choosing
<1>1. CASE DiscardAttempt(p, request)
  <2>1. running' = [running EXCEPT ![p] = NoAttempt] /\ doing' = [doing EXCEPT !.phase = p]
        /\ IsRunning(p)
    BY <1>1 DEF DiscardAttempt, Complete
  <2>2. NoAttempt \in Attempt  BY DEF NoAttempt, Attempt, Request, Shown
  <2> QED  BY <1>0, <2>1, <2>2 DEF DoingType, IsRunning
<1>2. CASE RecoverResult(p, request)
  <2>1. running' = running /\ IsRunning(p)
        /\ doing' = [doing EXCEPT !.at = "result", !.phase = p, !.payload = running[p].file]
    BY <1>2 DEF RecoverResult
  <2> QED  BY <1>0, <2>1 DEF DoingType, IsRunning
<1>3. CASE InvokeAgent(p, request, Basis)
  <2> DEFINE row == [request |-> request, shown |-> Basis, file |-> "none"]
  <2>1. /\ running' = [running EXCEPT ![p] = row]
        /\ doing' = [doing EXCEPT !.at = "agent", !.phase = p]
    BY <1>3 DEF InvokeAgent
  <2>2. row \in Attempt  BY BasisIsShown DEF Attempt
  <2>3. row # NoAttempt  BY DEF NoAttempt
  <2> HIDE DEF row
  <2> QED  BY <1>0, <2>1, <2>2, <2>3 DEF DoingType, IsRunning
<1> QED  BY <1>1, <1>2, <1>3 DEF BeginTurn

\* Ending one, too.
LEMMA EndTouches ==
    ASSUME Shapes, NEW p \in Phase, Complete(p)
    PROVE  /\ running' \in [Phase -> Attempt]
           /\ \A q \in Phase \ {p} : running'[q] = running[q]
           /\ ~IsRunning(p)'
<1>1. NoAttempt \in Attempt  BY DEF NoAttempt, Attempt, Request, Shown
<1> QED  BY <1>1 DEF Shapes, Complete, IsRunning

\* A row whose file is written stays a row of the same request.
LEMMA WritingTouches ==
    ASSUME Shapes, NEW p \in Phase, NEW file \in (Output \cup {"none", "unusable"}),
           running' = [running EXCEPT ![p].file = file]
    PROVE  /\ running' \in [Phase -> Attempt]
           /\ \A q \in Phase \ {p} : running'[q] = running[q]
           /\ IsRunning(p)'
           /\ running'[p].shown = running[p].shown /\ running'[p].request = running[p].request
<1>1. running[p] \in Attempt  BY DEF Shapes
<1>2. running' = [running EXCEPT ![p] = [running[p] EXCEPT !.file = file]]  BY DEF Shapes
<1> DEFINE row == [running[p] EXCEPT !.file = file]
<1>3. row \in Attempt /\ row.file = file /\ row.shown = running[p].shown
      /\ row.request = running[p].request
  BY <1>1 DEF Attempt
<1>4. file # "no attempt"
  <2>1. SUFFICES ASSUME file \in Output  PROVE file # "no attempt"  OBVIOUS
  <2>2. PICK q \in Phase : file \in Payload[q]  BY <2>1 DEF Output
  <2>3. Payload[q] \in {QuestionsPayload, AnswersPayload, PlanPayload, ReviewPayload,
                        NotePayload, TasksPayload, DecisionPayload}
    BY DEF Phase, Payload
  <2> QED  BY <2>2, <2>3 DEF QuestionsPayload, AnswersPayload, PlanPayload, ReviewPayload,
                            NotePayload, TasksPayload, DecisionPayload
<1>5. row # NoAttempt  BY <1>3, <1>4 DEF NoAttempt
<1> HIDE DEF row
<1>6. running'[p] = row /\ \A q \in Phase \ {p} : running'[q] = running[q]
  BY <1>2 DEF Shapes, row
<1>7. running' \in [Phase -> Attempt]  BY <1>2, <1>3 DEF Shapes, row
<1> QED  BY <1>3, <1>5, <1>6, <1>7 DEF IsRunning

---------------------------------------------------------------------------------
\* A step that no budget notices.
QuietRounds == UNCHANGED assessments /\ (borg.state = "blocked" => borg'.state = "blocked")
QuietPm ==
    /\ UNCHANGED pm
    /\ IsRunning("pm_tasks")' => IsRunning("pm_tasks")
    /\ doing'.phase = "pm_tasks" => doing.phase = "pm_tasks"
QuietAnswers ==
    /\ spent'.answers = spent.answers
    /\ (AtWork /\ doing.phase = "architect_answers")' => AtWork /\ doing.phase = "architect_answers"
Kept == running' \in [Phase -> Attempt] /\ cycle' \in Nat /\ noted' \in Nat /\ spent' \in Spending

Quiet == Kept /\ Held' /\ QuietRounds /\ QuietPm /\ QuietAnswers

LEMMA RoundsKept ==
    ASSUME Graded, QuietRounds
    PROVE  Graded'
BY DEF Graded, QuietRounds, Refunds

LEMMA PmKept ==
    ASSUME Counted, QuietPm
    PROVE  Counted'
BY DEF Counted, QuietPm

LEMMA AnswersKept ==
    ASSUME Asked, QuietAnswers
    PROVE  Asked'
BY DEF Asked, QuietAnswers

LEMMA QuietIsSafe ==
    ASSUME BudgetInv, IInv', Quiet
    PROVE  BudgetInv'
<1>1. Shapes'  BY DEF BudgetInv, Shapes, Quiet, Kept, QuietRounds, QuietPm
<1>2. Graded' /\ Counted' /\ Asked'
  BY RoundsKept, PmKept, AnswersKept DEF BudgetInv, Quiet
<1> QED  BY <1>1, <1>2 DEF BudgetInv, Quiet

\* Turns that count against nothing.
LEMMA BeginIsQuiet ==
    ASSUME BudgetInv, Choosing, NEW p \in Phase \ {"pm_tasks", "architect_answers"},
           NEW request \in Request, BeginTurn(p, request, Basis),
           UNCHANGED <<borg, draftVars, loopVars, pm>>
    PROVE  Quiet
<1>1. /\ running' \in [Phase -> Attempt]
      /\ \A q \in Phase \ {p} : running'[q] = running[q]
      /\ doing'.phase = p
      /\ doing'.at \in {"choosing", "agent", "result"}
      /\ IsRunning(p)' <=> doing'.at # "choosing"
  BY BeginTouches DEF BudgetInv
<1>2. Kept  BY <1>1 DEF Kept, BudgetInv, Shapes, draftVars, loopVars
<1>3. Held'  BY <1>1 DEF Held, AtWork
<1>4. QuietPm  BY <1>1 DEF QuietPm, IsRunning, Phase
<1>5. QuietRounds /\ QuietAnswers  BY <1>1 DEF QuietRounds, QuietAnswers, draftVars, loopVars
<1> QED  BY <1>2, <1>3, <1>4, <1>5 DEF Quiet

\* A process that goes on or leaves, with a row ended or none.
LEMMA LeavingIsQuiet ==
    ASSUME BudgetInv, UNCHANGED <<assessments, pm>>, noted' \in Nat, cycle' \in Nat,
           spent' \in Spending, spent'.answers = spent.answers,
           borg.state = "blocked" => borg'.state = "blocked",
           UNCHANGED running \/ \E p \in Phase : Complete(p),
           doing'.at \notin {"agent", "result"},
           doing'.phase \in {doing.phase, "none"}
    PROVE  Quiet
<1>1. running' \in [Phase -> Attempt] /\ (IsRunning("pm_tasks")' => IsRunning("pm_tasks"))
  <2>1. CASE UNCHANGED running  BY <2>1 DEF BudgetInv, Shapes, IsRunning
  <2>2. ASSUME NEW p \in Phase, Complete(p)
        PROVE  running' \in [Phase -> Attempt] /\ (IsRunning("pm_tasks")' => IsRunning("pm_tasks"))
    <3>1. /\ running' \in [Phase -> Attempt]
          /\ \A q \in Phase \ {p} : running'[q] = running[q]
          /\ ~IsRunning(p)'
      BY <2>2, EndTouches DEF BudgetInv
    <3> QED  BY <3>1 DEF IsRunning, Phase
  <2> QED  BY <2>1, <2>2
<1>2. Kept  BY <1>1 DEF Kept
<1>3. Held' /\ QuietAnswers  BY DEF Held, AtWork, QuietAnswers
<1>4. QuietRounds /\ QuietPm  BY <1>1 DEF QuietRounds, QuietPm
<1> QED  BY <1>2, <1>3, <1>4 DEF Quiet

---------------------------------------------------------------------------------
\* Commands, and the steps of the publisher.
LEMMA CommandIsQuiet ==
    ASSUME BudgetInv, Command
    PROVE  Quiet
<1> USE DEF draftVars, loopVars, gateVars, SameDecomposition, graphVars
<1>0. cycle \in Nat /\ noted \in Nat /\ spent \in Spending  BY DEF BudgetInv, Shapes
<1> DEFINE Began == /\ UNCHANGED <<running, assessments, pm, noted, spent>> /\ cycle' \in Nat
                    /\ borg.state = "blocked" => borg'.state = "blocked"
                    /\ doing'.at = "choosing" /\ doing'.phase = "none"
<1>1. ASSUME NEW unattended \in BOOLEAN, PlanStart(unattended), SameDecomposition
      PROVE  Began
  BY <1>0, <1>1 DEF PlanStart, Idle
<1>2. ASSUME NEW unattended \in BOOLEAN, PlanChange(unattended), SameDecomposition
      PROVE  Began
  BY <1>0, <1>2 DEF PlanChange, Idle
<1>3. ASSUME ResumeApproval, UNCHANGED publishVars
      PROVE  Began
  BY <1>0, <1>3 DEF ResumeApproval, Idle
<1>4. Began  BY <1>1, <1>2, <1>3 DEF Command
<1> QED  BY <1>0, <1>4, LeavingIsQuiet

LEMMA PublicationIsQuiet ==
    ASSUME BudgetInv, PublicationStep
    PROVE  Quiet
<1> USE DEF SameRecord, draftVars, loopVars, gateVars, graphVars, turnVars
<1>0. cycle \in Nat /\ noted \in Nat /\ spent \in Spending /\ doing \in DoingType
  BY DEF BudgetInv, Shapes, IInv, TypesOK
<1>1. UNCHANGED <<running, assessments, pm, noted, spent, cycle>>
  BY DEF PublicationStep, BeginPublication, Restage, StageFiles, Rename, VerifyExisting,
         SyncParent, VerifySynced, Promote, CleanUp, BecomeReady
<1>2. doing'.at \notin {"agent", "result"} /\ doing'.phase \in {doing.phase, "none"}
  <2>1. Exit \/ \E label \in Place \ {"agent", "result"} : Step(label)
    BY DEF PublicationStep, BeginPublication, Restage, StageFiles, Rename, VerifyExisting,
           SyncParent, VerifySynced, Promote, CleanUp, BecomeReady, Place
  <2>2. CASE Exit  BY <2>2 DEF Exit, Idle
  <2>3. ASSUME NEW label \in Place \ {"agent", "result"}, Step(label)
        PROVE  doing'.at = label /\ doing'.phase = doing.phase
    BY <1>0, <2>3 DEF Step, DoingType
  <2> QED  BY <2>1, <2>2, <2>3
<1>3. borg.state = "blocked" => borg'.state = "blocked"
  <2>1. borg' = borg \/ At("publishing done")
    BY DEF PublicationStep, BeginPublication, Restage, StageFiles, Rename, VerifyExisting,
         SyncParent, VerifySynced, Promote, CleanUp, BecomeReady
  <2>2. At("publishing done") => borg.state # "blocked"
    BY DEF At, BudgetInv, IInv, Publishing, Supervising
  <2> QED  BY <2>1, <2>2
<1> QED  BY <1>0, <1>1, <1>2, <1>3, LeavingIsQuiet

---------------------------------------------------------------------------------
\* The drafting, apart from the answers and the reviews.
LEMMA DraftingTurnIsQuiet ==
    ASSUME BudgetInv, SameDecomposition,
           \/ borg.state \in Architecting /\ SteeringTurn("tech_review", cycle)
           \/ QuestionTurn \/ PlanTurn \/ ReviewTurn
    PROVE  Quiet
<1> USE DEF SameDecomposition
<1>0. /\ cycle \in Nat /\ Len(assessments) \in Nat /\ noted \in Nat /\ spent \in Spending
  BY DEF BudgetInv, Shapes
<1>1. CASE borg.state \in Architecting /\ SteeringTurn("tech_review", cycle)
  <2>1. <<"tech_review", cycle, Len(assessments)>> \in Request  BY <1>0 DEF Request, Loop
  <2> QED  BY <1>1, <2>1, BeginIsQuiet DEF SteeringTurn, Phase
<1>2. CASE QuestionTurn
  BY <1>2, BeginIsQuiet DEF QuestionTurn, ArchitectAtWork, Phase, Request
<1>3. CASE PlanTurn
  BY <1>3, BeginIsQuiet DEF PlanTurn, ArchitectAtWork, Phase, Request
<1>4. CASE ReviewTurn
  <2>1. CASE BeginTurn("tech_review", <<>>, Basis)
    BY <1>4, <2>1, BeginIsQuiet DEF ReviewTurn, Phase, Request
  <2>2. CASE Exit /\ UNCHANGED running
    <3>1. doing'.at = "idle" /\ doing'.phase = "none"  BY <2>2 DEF Exit, Idle
    <3> QED  BY <1>0, <1>4, <2>2, <3>1, LeavingIsQuiet DEF ReviewTurn, draftVars, loopVars
  <2> QED  BY <1>4, <2>1, <2>2 DEF ReviewTurn
<1> QED  BY <1>1, <1>2, <1>3, <1>4

\* An attempt left behind for ever, with a result in its file.
LEMMA AbandonTouches ==
    ASSUME Shapes, NEW p \in Phase, NEW result \in Payload[p], Abandon(p, result)
    PROVE  /\ running' \in [Phase -> Attempt]
           /\ \A q \in Phase \ {p} : running'[q] = running[q]
           /\ IsRunning(p)' <=> IsRunning(p)
           /\ running'[p].shown = running[p].shown /\ running'[p].request = running[p].request
<1>1. result \in Output  BY PayloadsAreOutputs
<1> QED  BY <1>1, WritingTouches DEF Abandon, Shapes, IsRunning

LEMMA ArchitectIsQuiet ==
    ASSUME BudgetInv, SameDecomposition, BeginArchitect \/ OperatorAnswers
    PROVE  Quiet
<1> USE DEF SameDecomposition, draftVars, loopVars, Architecting
<1>0. /\ cycle \in Nat /\ noted \in Nat /\ spent \in Spending /\ TypesOK
  BY DEF BudgetInv, Shapes, IInv
<1>1. CASE BeginArchitect
  BY <1>0, <1>1, LeavingIsQuiet DEF BeginArchitect, Choosing
<1>2. CASE /\ ArchitectAtWork /\ Answered(0) /\ UNCHANGED doing
           /\ Abandon("architect_answers", "answers")
  <2>1. running' \in [Phase -> Attempt] /\ running'["pm_tasks"] = running["pm_tasks"]
    <3>1. "architect_answers" \in Phase /\ "answers" \in Payload["architect_answers"]
          /\ "pm_tasks" \in Phase
      BY DEF Phase, Payload, AnswersPayload
    <3> QED  BY <1>2, <3>1, AbandonTouches DEF BudgetInv
  <2>2. spent' = spent
    <3>1. spent' = [spent EXCEPT !.answers = @ + 0]  BY <1>2 DEF Answered
    <3> QED  BY <1>0, <3>1 DEF Spending
  <2>3. Kept  BY <1>0, <1>2, <2>1, <2>2 DEF Kept, Answered
  <2>4. Held' /\ QuietAnswers
    BY <1>2, <2>2 DEF Held, AtWork, ArchitectAtWork, Choosing, QuietAnswers
  <2>5. QuietRounds /\ QuietPm
    BY <1>2, <2>1 DEF QuietRounds, QuietPm, Answered, ArchitectAtWork, IsRunning
  <2> QED  BY <2>3, <2>4, <2>5 DEF Quiet
<1>3. CASE Exit /\ UNCHANGED <<running, borg, draftVars, loopVars, gateVars>>
  <2>1. doing'.at = "idle" /\ doing'.phase = "none"  BY <1>3 DEF Exit, Idle
  <2> QED  BY <1>0, <1>3, <2>1, LeavingIsQuiet
<1> QED  BY <1>1, <1>2, <1>3 DEF OperatorAnswers

LEMMA StoreDraftIsQuiet ==
    ASSUME BudgetInv, SameDecomposition,
           \/ StoreNote \/ SteerWithoutAgent \/ StoreQuestions \/ StoreOpenPlan
           \/ RejectPlan \/ AskForAssumptions \/ AcceptPlan \/ RefuseReview
    PROVE  Quiet
<1> USE DEF SameDecomposition, draftVars, loopVars, Phase
<1>0. /\ cycle \in Nat /\ noted \in Nat /\ spent \in Spending /\ doing \in DoingType
      /\ Len(assessments) \in Nat /\ IInv
  BY DEF BudgetInv, Shapes, IInv, TypesOK
<1>1. ASSUME NEW cap, Exit \/ Again \/ Afresh \/ Refuse(cap)
      PROVE  doing'.at \notin {"agent", "result"} /\ doing'.phase = "none"
  BY <1>0, <1>1, WaysOn
<1>2. CASE StoreNote
  BY <1>0, <1>1, <1>2, LeavingIsQuiet DEF StoreNote
<1>3. CASE SteerWithoutAgent
  <2>1. doing'.at \notin {"agent", "result"} /\ doing'.phase = "none"
    BY <1>1, <1>3 DEF SteerWithoutAgent
  <2>2. CASE Abandon("steering", "note")
    <3>1. running' \in [Phase -> Attempt] /\ running'["pm_tasks"] = running["pm_tasks"]
      <4>1. "note" \in Payload["steering"]  BY DEF Payload, NotePayload
      <4> QED  BY <2>2, <4>1, AbandonTouches DEF BudgetInv
    <3>2. Kept  BY <1>0, <1>3, <3>1 DEF Kept, SteerWithoutAgent
    <3>3. Held' /\ QuietAnswers  BY <1>3, <2>1 DEF Held, AtWork, QuietAnswers, SteerWithoutAgent
    <3>4. QuietRounds /\ QuietPm
      BY <1>3, <2>1, <3>1 DEF QuietRounds, QuietPm, SteerWithoutAgent, IsRunning
    <3> QED  BY <3>2, <3>3, <3>4 DEF Quiet
  <2>3. CASE TurnGivesNothing("steering")
    BY <1>0, <1>3, <2>1, <2>3, LeavingIsQuiet DEF SteerWithoutAgent, TurnGivesNothing
  <2> QED  BY <1>3, <2>2, <2>3 DEF SteerWithoutAgent
<1>4. CASE StoreQuestions
  <2>1. doing'.at \notin {"agent", "result"} /\ doing'.phase = "none"
    BY <1>1, <1>4 DEF StoreQuestions
  <2>2. \/ spent' = [spent EXCEPT !.questions = @ + 1]
        \/ spent' = [spent EXCEPT !.questions = @ + 1, !.ready = TRUE]
        \/ spent' = spent
    BY <1>4 DEF StoreQuestions
  <2>4. spent' \in Spending /\ spent'.answers = spent.answers
    <3> DEFINE n == spent.questions + 1
    <3>1. n \in Nat  BY <1>0 DEF Spending
    <3>2. \/ spent' = [spent EXCEPT !.questions = n]
          \/ spent' = [spent EXCEPT !.questions = n, !.ready = TRUE]
          \/ spent' = spent
      BY <1>0, <2>2 DEF Spending
    <3> HIDE DEF n
    <3> QED  BY <1>0, <3>1, <3>2 DEF Spending
  <2>3. borg.state # "blocked"
    BY <1>4 DEF StoreQuestions, WithResult, BudgetInv, IInv, Working, Fits
  <2> QED  BY <1>0, <1>4, <2>1, <2>4, <2>3, LeavingIsQuiet DEF StoreQuestions
<1>5. CASE StoreOpenPlan
  <2>1. doing'.at \notin {"agent", "result"} /\ doing'.phase = "none"
    BY <1>1, <1>5 DEF StoreOpenPlan
  <2>2. spent' \in Spending /\ spent'.answers = spent.answers
    BY <1>0, <1>5 DEF StoreOpenPlan, Spending
  <2>3. borg.state # "blocked"
    BY <1>5 DEF StoreOpenPlan, WithResult, BudgetInv, IInv, Working, Fits
  <2> QED  BY <1>0, <1>5, <2>1, <2>2, <2>3, LeavingIsQuiet DEF StoreOpenPlan
<1>6. CASE RejectPlan
  BY <1>0, <1>1, <1>6, LeavingIsQuiet DEF RejectPlan
<1>7. CASE AskForAssumptions
  <2>1. doing'.at \notin {"agent", "result"} /\ doing'.phase = "none"
    BY <1>0, <1>7 DEF AskForAssumptions, DoingType
  <2> QED  BY <1>0, <1>7, <2>1, LeavingIsQuiet DEF AskForAssumptions
<1>8. CASE AcceptPlan
  <2>1. doing'.at \notin {"agent", "result"} /\ doing'.phase = "none"
    BY <1>1, <1>8 DEF AcceptPlan
  <2>2. borg.state # "blocked"
    BY <1>8 DEF AcceptPlan, WithResult, BudgetInv, IInv, Working, Fits
  <2> QED  BY <1>0, <1>8, <2>1, <2>2, LeavingIsQuiet DEF AcceptPlan
<1>9. CASE RefuseReview
  BY <1>0, <1>1, <1>9, LeavingIsQuiet DEF RefuseReview
<1> QED  BY <1>2, <1>3, <1>4, <1>5, <1>6, <1>7, <1>8, <1>9

---------------------------------------------------------------------------------
\* The decomposition, apart from the Project Manager and the decisions.
LEMMA DecompositionIsQuiet ==
    ASSUME BudgetInv,
           \/ /\ borg.state = "pm_working" /\ SteeringTurn("supervisor_review", approval)
              /\ UNCHANGED <<graphVars, pm>>
           \/ SupervisorTurn \/ RefuseDecision \/ InterruptReview
    PROVE  Quiet
<1> USE DEF draftVars, loopVars, graphVars, Phase
<1>0. /\ cycle \in Nat /\ noted \in Nat /\ spent \in Spending /\ Len(assessments) \in Nat
      /\ approval \in Nat /\ batch \in Nat /\ IInv
  BY DEF BudgetInv, Shapes, IInv, TypesOK
<1>1. CASE /\ borg.state = "pm_working" /\ SteeringTurn("supervisor_review", approval)
           /\ UNCHANGED <<graphVars, pm>>
  <2>1. <<"supervisor_review", approval, Len(assessments)>> \in Request  BY <1>0 DEF Request, Loop
  <2> QED  BY <1>1, <2>1, BeginIsQuiet DEF SteeringTurn
<1>2. CASE SupervisorTurn
  <2>1. <<approval, batch, Len(assessments) + 1>> \in Request  BY <1>0 DEF Request
  <2> QED  BY <1>2, <2>1, BeginIsQuiet DEF SupervisorTurn
<1>3. CASE RefuseDecision
  <2>1. doing'.at \notin {"agent", "result"} /\ doing'.phase = "none"
    BY <1>0, <1>3, WaysOn DEF RefuseDecision
  <2> QED  BY <1>0, <1>3, <2>1, LeavingIsQuiet DEF RefuseDecision
<1>4. CASE InterruptReview
  <2>1. doing'.at \notin {"agent", "result"} /\ doing'.phase = "none"
    BY <1>4 DEF InterruptReview, Exit, Idle
  <2> QED  BY <1>0, <1>4, <2>1, LeavingIsQuiet DEF InterruptReview
<1> QED  BY <1>1, <1>2, <1>3, <1>4

LEMMA RaisingIsQuiet ==
    ASSUME BudgetInv, UNCHANGED <<borg, draftVars, loopVars, pm>>,
           doing.at = "agent", TurnRaises(doing.phase),
           doing'.at = "idle", doing'.phase = "none"
    PROVE  Quiet
<1> USE DEF draftVars, loopVars
<1>1. doing.phase \in Phase /\ IsRunning(doing.phase)
  BY DEF BudgetInv, IInv, Working, Held, AtWork
<1>2. PICK file \in {"none", "unusable"} : running' = [running EXCEPT ![doing.phase].file = file]
  BY DEF TurnRaises
<1>3. running' \in [Phase -> Attempt] /\ \A q \in Phase \ {doing.phase} : running'[q] = running[q]
  BY <1>1, <1>2, WritingTouches DEF BudgetInv
<1>4. Kept  BY <1>3 DEF Kept, BudgetInv, Shapes
<1>5. Held' /\ QuietAnswers /\ QuietRounds  BY DEF Held, AtWork, QuietAnswers, QuietRounds
<1>6. QuietPm  BY <1>1, <1>3 DEF QuietPm, IsRunning, Phase
<1> QED  BY <1>4, <1>5, <1>6 DEF Quiet

\* Agents that return, give nothing or die with their process.
LEMMA AgentIsQuiet ==
    ASSUME BudgetInv, Return \/ GiveUp \/ Crash
    PROVE  Quiet
<1> USE DEF SameDraft, SameDecomposition, draftVars, loopVars
<1>0. /\ cycle \in Nat /\ noted \in Nat /\ spent \in Spending /\ doing \in DoingType
      /\ doing.at = "agent" => doing.phase \in Phase
  BY DEF BudgetInv, Shapes, IInv, TypesOK, Working
<1>1. CASE Return
  <2>1. PICK result \in Payloads(doing.phase) :
          /\ running' = [running EXCEPT ![doing.phase].file = result]
          /\ doing' = [doing EXCEPT !.at = "result", !.payload = result]
    BY <1>1 DEF Return, AgentReturns
  <2>2. doing.phase \in Phase /\ doing.at = "agent" /\ doing'.phase = doing.phase
        /\ doing'.at = "result"
    BY <1>0, <1>1, <2>1 DEF Return, DoingType
  <2>3. result \in Output  BY <2>2, PayloadsAreOutputs DEF Payloads
  <2>4. /\ running' \in [Phase -> Attempt]
        /\ \A q \in Phase \ {doing.phase} : running'[q] = running[q]
        /\ running'[doing.phase] # NoAttempt
    BY <2>1, <2>2, <2>3, WritingTouches DEF BudgetInv, IsRunning
  <2>5. IsRunning(doing.phase)  BY <2>2 DEF BudgetInv, Held, AtWork
  <2>6. Kept  BY <1>0, <1>1, <2>4 DEF Kept, Return
  <2>7. Held'  BY <2>2, <2>4 DEF Held, IsRunning
  <2>8. QuietPm  BY <1>1, <2>2, <2>4, <2>5 DEF QuietPm, Return, IsRunning, Phase
  <2>9. QuietRounds /\ QuietAnswers
    BY <1>1, <2>2 DEF QuietRounds, QuietAnswers, AtWork, Return
  <2> QED  BY <2>6, <2>7, <2>8, <2>9 DEF Quiet
<1>2. CASE GiveUp
  <2>1. doing'.at \notin {"agent", "result"} /\ doing'.phase = "none"
    BY <1>2 DEF GiveUp, Exit, Idle
  <2> QED  BY <1>0, <1>2, <2>1, LeavingIsQuiet DEF GiveUp, TurnGivesNothing
<1>3. CASE Crash
  <2>1. doing'.at = "idle" /\ doing'.phase = "none"  BY <1>3 DEF Crash, Die, Exit, Idle
  <2>2. CASE UNCHANGED running
    BY <1>0, <1>3, <2>1, <2>2, LeavingIsQuiet DEF Crash
  <2>3. CASE doing.at = "agent" /\ TurnRaises(doing.phase)
    BY <1>0, <1>3, <2>1, <2>3, RaisingIsQuiet DEF Crash
  <2> QED  BY <1>3, <2>2, <2>3 DEF Crash, Die
<1> QED  BY <1>1, <1>2, <1>3

---------------------------------------------------------------------------------
\* The answers that are assumed for an operator who is not there.
LEMMA AnswersStayCapped ==
    ASSUME BudgetInv, SameDecomposition, AssumeAnswers \/ StoreAnswers
    PROVE  Kept /\ Held' /\ QuietRounds /\ QuietPm /\ Asked'
<1> USE DEF SameDecomposition, draftVars, loopVars, Phase
<1>0. /\ cycle \in Nat /\ noted \in Nat /\ spent \in Spending /\ IInv /\ QuestionCap \in Nat
      /\ doing \in DoingType
  BY DraftingAssumption DEF BudgetInv, Shapes, IInv, TypesOK
<1>1. ASSUME Quiet  PROVE Kept /\ Held' /\ QuietRounds /\ QuietPm /\ Asked'
  BY <1>1, AnswersKept DEF Quiet, BudgetInv
<1>2. CASE AssumeAnswers /\ Exit /\ UNCHANGED running
  <2>1. doing'.at = "idle" /\ doing'.phase = "none"  BY <1>2 DEF Exit, Idle
  <2>2. Quiet  BY <1>0, <1>2, <2>1, LeavingIsQuiet DEF AssumeAnswers
  <2> QED  BY <1>1, <2>2
<1>3. CASE AssumeAnswers /\ BeginTurn("architect_answers", Question, Basis)
           /\ ~(spent.answers >= QuestionCap)
  <2>1. Question \in Request  BY BasisIsShown DEF Request, BudgetInv
  <2>2. Choosing  BY <1>3 DEF AssumeAnswers, ArchitectAtWork
  <2>3. /\ running' \in [Phase -> Attempt]
        /\ running'["pm_tasks"] = running["pm_tasks"]
        /\ doing'.phase = "architect_answers"
        /\ IsRunning("architect_answers")' <=> doing'.at # "choosing"
    BY <1>3, <2>1, <2>2, BeginTouches DEF BudgetInv
  <2>4. UNCHANGED <<borg, spent, cycle, noted, assessments, pm>>  BY <1>3 DEF AssumeAnswers
  <2>5. Kept /\ Held'  BY <1>0, <2>3, <2>4 DEF Kept, Held, AtWork
  <2>6. QuietRounds /\ QuietPm  BY <2>3, <2>4 DEF QuietRounds, QuietPm, IsRunning
  <2>7. Asked'
    <3>1. spent.answers < QuestionCap  BY <1>0, <1>3 DEF Spending
    <3> QED  BY <2>4, <3>1 DEF Asked, BudgetInv
  <2> QED  BY <2>5, <2>6, <2>7
<1>4. CASE StoreAnswers
  <2>1. Complete("architect_answers") /\ WithResult("architect_answers")  BY <1>4 DEF StoreAnswers
  <2>2. doing'.at \notin {"agent", "result"} /\ doing'.phase = "none"
    BY <1>0, <1>4, WaysOn DEF StoreAnswers
  <2>3. /\ running' \in [Phase -> Attempt]
        /\ running'["pm_tasks"] = running["pm_tasks"]
    BY <2>1, EndTouches DEF BudgetInv
  <2>4. UNCHANGED <<cycle, noted, assessments, pm>> /\ borg.state # "blocked"
    BY <1>4, <2>1 DEF StoreAnswers, Answered, WithResult, IInv, BudgetInv, Working, Fits
  <2>5. spent.answers < QuestionCap /\ spent.answers \in Nat
    BY <1>0, <2>1 DEF BudgetInv, Asked, AtWork, WithResult, Spending
  <2>6. spent' = spent \/ spent' = [spent EXCEPT !.answers = spent.answers + 1]
    BY <1>0, <1>4 DEF StoreAnswers, Answered, Spending
  <2>7. spent' \in Spending /\ spent'.answers <= QuestionCap
    <3> DEFINE n == spent.answers + 1
    <3>1. n \in Nat /\ n <= QuestionCap  BY <1>0, <2>5
    <3>2. spent' = spent \/ spent' = [spent EXCEPT !.answers = n]  BY <2>6
    <3> HIDE DEF n
    <3> QED  BY <1>0, <2>5, <3>1, <3>2 DEF Spending
  <2>8. Kept /\ Held' /\ Asked'  BY <1>0, <2>2, <2>3, <2>4, <2>7 DEF Kept, Held, AtWork, Asked
  <2>9. QuietRounds /\ QuietPm  BY <2>2, <2>3, <2>4 DEF QuietRounds, QuietPm, IsRunning
  <2> QED  BY <2>8, <2>9
<1> QED  BY <1>2, <1>3, <1>4 DEF AssumeAnswers

---------------------------------------------------------------------------------
\* The attempts of the Project Manager.
LEMMA CountsAreNumbers ==
    ASSUME pm \in Counting
    PROVE  /\ pm.attempts \in Nat /\ pm.failures \in Nat /\ pm.refunds \in Nat
           /\ pm.attempts <= MaxAttempts /\ pm.refunds <= MaxRefunds
           /\ Retries \in Nat \ {0} /\ MaxRefunds \in Nat /\ MaxAttempts = Retries + MaxRefunds
<1>1. Retries \in Nat \ {0} /\ MaxRefunds \in Nat /\ MaxAttempts = Retries + MaxRefunds
  BY DraftingAssumption, DecompositionAssumption DEF Retries, MaxAttempts
<1> QED  BY <1>1 DEF Counting

\* Where as much has failed as may, no cycle continues.
LEMMA SpentCyclesStop ==
    ASSUME pm \in Counting, Counted, pm.failures - pm.refunds = Retries
    PROVE  BudgetSpent
<1>1. ~(pm.attempts - pm.refunds < Retries)  BY CountsAreNumbers DEF Counted
<1> QED  BY <1>1 DEF BudgetSpent, CycleContinues, Counted, Retries

\* An attempt that fails was counted when it began.
LEMMA FailureIsCounted ==
    ASSUME pm \in Counting, Counted, IsRunning("pm_tasks"),
           NEW after \in Counting, after.attempts = pm.attempts,
           after.failures = pm.failures + 1, after.failed = TRUE,
           after.refunds \in {pm.refunds, pm.refunds + 1},
           pm' = after, ~IsRunning("pm_tasks")', doing'.phase = "none"
    PROVE  Counted'
<1>1. /\ pm.failures < pm.attempts \/ pm.attempts = MaxAttempts
      /\ pm.failures - pm.refunds < Retries
  BY CountsAreNumbers DEF Counted
<1>2. pm'.failures <= pm'.attempts \/ pm'.attempts = MaxAttempts  BY <1>1, CountsAreNumbers
<1>3. pm'.failures - pm'.refunds <= Retries  BY <1>1, CountsAreNumbers
<1> QED  BY <1>2, <1>3 DEF Counted, MaxAttempts, Retries

LEMMA PmFailsSafely ==
    ASSUME BudgetInv, doing.at \in {"agent", "result"}, doing.phase = "pm_tasks",
           NEW after \in Counting, PmFails(after) \/ (Complete("pm_tasks") /\ pm' = after /\ Exit
               /\ UNCHANGED <<borg, draftVars, loopVars, gateVars, graphVars>>),
           after.attempts = pm.attempts, after.failures = pm.failures + 1,
           after.failed = TRUE, after.refunds \in {pm.refunds, pm.refunds + 1}
    PROVE  Kept /\ Held' /\ QuietRounds /\ QuietAnswers /\ pm' \in Counting /\ Counted'
<1> USE DEF draftVars, loopVars, Phase
<1>0. /\ cycle \in Nat /\ noted \in Nat /\ spent \in Spending /\ IInv
      /\ pm \in Counting /\ Counted /\ IsRunning("pm_tasks")
  BY DEF BudgetInv, Shapes, Held, AtWork
<1>1. pm' = after /\ Complete("pm_tasks") /\ UNCHANGED <<borg, draftVars, loopVars>>
  BY DEF PmFails
<1>2. doing'.at \notin {"agent", "result"} /\ doing'.phase = "none"
  BY <1>0, WaysOn DEF PmFails
<1>3. running' \in [Phase -> Attempt] /\ ~IsRunning("pm_tasks")'
  BY <1>1, EndTouches DEF BudgetInv
<1>4. Kept /\ Held' /\ QuietRounds /\ QuietAnswers
  BY <1>0, <1>1, <1>2, <1>3 DEF Kept, Held, AtWork, QuietRounds, QuietAnswers
<1>5. Counted'  BY <1>0, <1>1, <1>2, <1>3, FailureIsCounted
<1> QED  BY <1>1, <1>4, <1>5

\* An attempt begun, taken up or failed over its file.
LEMMA PmBeginsSafely ==
    ASSUME BudgetInv, PmTurn
    PROVE  Kept /\ Held' /\ QuietRounds /\ QuietAnswers /\ pm' \in Counting /\ Counted'
<1> USE DEF draftVars, loopVars, Phase
<1>0. /\ cycle \in Nat /\ noted \in Nat /\ spent \in Spending /\ approval \in Nat /\ batch \in Nat
      /\ pm \in Counting /\ Counted /\ Choosing /\ UNCHANGED <<borg, draftVars, loopVars>>
  BY DEF BudgetInv, Shapes, IInv, TypesOK, PmTurn, PmAtWork
<1>1. CASE BudgetSpent /\ doing.phase # "pm_tasks"
  <2>1. Exit /\ UNCHANGED <<running, pm>>  BY <1>1 DEF PmTurn
  <2>2. doing'.at = "idle" /\ doing'.phase = "none"  BY <2>1 DEF Exit, Idle
  <2>3. Quiet  BY <1>0, <2>1, <2>2, LeavingIsQuiet
  <2> QED  BY <1>0, <2>1, <2>3, PmKept DEF Quiet
<1>2. CASE ~(BudgetSpent /\ doing.phase # "pm_tasks")
  <2>1. BeginTurn("pm_tasks", <<approval, batch>>, Basis)  BY <1>2 DEF PmTurn
  <2>2. <<approval, batch>> \in Request  BY <1>0 DEF Request
  <2>3. /\ running' \in [Phase -> Attempt]
        /\ doing'.phase = "pm_tasks" /\ doing'.at \in {"choosing", "agent", "result"}
        /\ IsRunning("pm_tasks")' <=> doing'.at # "choosing"
        /\ doing'.at = "choosing" => IsRunning("pm_tasks")
    BY <1>0, <2>1, <2>2, BeginTouches DEF BudgetInv
  <2>4. Kept /\ Held' /\ QuietRounds /\ QuietAnswers
    BY <1>0, <2>3 DEF Kept, Held, AtWork, QuietRounds, QuietAnswers
  <2>5. pm.failures - pm.refunds < Retries
    <3>1. pm.failures - pm.refunds # Retries  BY <1>0, <1>2, SpentCyclesStop DEF Counted
    <3> QED  BY <1>0, <3>1, CountsAreNumbers DEF Counted
  <2>6. CASE ~IsRunning("pm_tasks")
    <3>1. pm' = [pm EXCEPT !.attempts = OneMore(@), !.failed = FALSE]
      BY <1>2, <2>3, <2>6 DEF PmTurn
    <3> DEFINE n == OneMore(pm.attempts)
    <3>2. n \in 0..MaxAttempts /\ (n = pm.attempts + 1 \/ n = MaxAttempts)
      BY <1>0, CountsAreNumbers DEF OneMore
    <3>3. pm' = [pm EXCEPT !.attempts = n, !.failed = FALSE]
      BY <1>0, <3>1 DEF OneMore, Counting
    <3> HIDE DEF n
    <3>4. /\ pm' \in Counting /\ pm'.attempts = n
          /\ pm'.failures = pm.failures /\ pm'.refunds = pm.refunds
      BY <1>0, <3>2, <3>3 DEF Counting
    <3>5. pm'.failures < pm'.attempts \/ pm'.attempts = MaxAttempts
      BY <1>0, <3>2, <3>4, CountsAreNumbers DEF Counted
    <3>6. /\ pm'.failures <= pm'.attempts \/ pm'.attempts = MaxAttempts
          /\ pm'.failures - pm'.refunds <= Retries
          /\ pm'.failures - pm'.refunds # Retries
      BY <1>0, <2>5, <3>2, <3>4, <3>5, CountsAreNumbers
    <3>7. Counted'  BY <3>5, <3>6 DEF Counted, MaxAttempts, Retries
    <3> QED  BY <2>4, <3>4, <3>7
  <2>7. CASE IsRunning("pm_tasks")
    <3>1. pm' = pm \/ pm' = [pm EXCEPT !.failed = TRUE]
      BY <1>2, <2>7 DEF PmTurn
    <3>2. /\ pm' \in Counting /\ pm'.attempts = pm.attempts
          /\ pm'.failures = pm.failures /\ pm'.refunds = pm.refunds
      BY <1>0, <3>1 DEF Counting
    <3>3. Counted'
      BY <1>0, <2>5, <2>7, <3>2, CountsAreNumbers DEF Counted, MaxAttempts, Retries
    <3> QED  BY <2>4, <3>2, <3>3
  <2> QED  BY <2>6, <2>7
<1> QED  BY <1>1, <1>2

LEMMA PmEndsSafely ==
    ASSUME BudgetInv, PmUnparsable \/ PmGivesUp \/ PmNoProgress \/ PmInvalidGraph \/ StoreBatch
    PROVE  Kept /\ Held' /\ QuietRounds /\ QuietAnswers /\ pm' \in Counting /\ Counted'
<1> USE DEF draftVars, loopVars, Phase
<1>0. /\ cycle \in Nat /\ noted \in Nat /\ spent \in Spending /\ IInv
      /\ pm \in Counting /\ Counted /\ doing.at \in {"agent", "result"} /\ doing.phase = "pm_tasks"
  BY DEF BudgetInv, Shapes, PmUnparsable, PmGivesUp, PmNoProgress, PmInvalidGraph, StoreBatch,
         WithAgent, WithResult
<1>1. /\ Failed \in Counting /\ Failed.attempts = pm.attempts
      /\ Failed.failures = pm.failures + 1 /\ Failed.failed = TRUE /\ Failed.refunds = pm.refunds
  <2> DEFINE n == pm.failures + 1
  <2>1. n \in Nat  BY <1>0, CountsAreNumbers
  <2>2. Failed = [pm EXCEPT !.failures = n, !.failed = TRUE]  BY DEF Failed
  <2> HIDE DEF n
  <2>3. /\ Failed \in Counting /\ Failed.attempts = pm.attempts
        /\ Failed.failures = n /\ Failed.failed = TRUE /\ Failed.refunds = pm.refunds
    BY <1>0, <2>1, <2>2 DEF Counting
  <2> QED  BY <2>3 DEF n
<1>2. CASE PmUnparsable  BY <1>0, <1>1, <1>2, PmFailsSafely DEF PmUnparsable
<1>3. CASE PmNoProgress  BY <1>0, <1>1, <1>3, PmFailsSafely DEF PmNoProgress
<1>4. CASE PmGivesUp
  <2>1. CASE pm' = Failed  BY <1>0, <1>1, <1>4, <2>1, PmFailsSafely DEF PmGivesUp
  <2>2. CASE pm' = pm
    <3>1. doing'.at \notin {"agent", "result"} /\ doing'.phase = "none"
      BY <1>4 DEF PmGivesUp, Exit, Idle
    <3>2. Quiet  BY <1>0, <1>4, <2>2, <3>1, LeavingIsQuiet DEF PmGivesUp
    <3> QED  BY <1>0, <2>2, <3>2, PmKept DEF Quiet
  <2> QED  BY <1>4, <2>1, <2>2 DEF PmGivesUp
<1>5. CASE PmInvalidGraph
  <2>1. PICK progressed \in {FALSE, pm.comparable /\ pm.refunds < MaxRefunds} :
          PmFails([Failed EXCEPT !.refunds = @ + (IF progressed /\ pm.attempts > PmRetries
                                                  THEN 1 ELSE 0),
                                 !.comparable = TRUE])
    BY <1>5 DEF PmInvalidGraph
  <2> DEFINE more == IF progressed /\ pm.attempts > PmRetries THEN 1 ELSE 0
             after == [Failed EXCEPT !.refunds = @ + more, !.comparable = TRUE]
  <2>2. more \in {0, 1} /\ pm.refunds + more \in 0..MaxRefunds
    <3>1. progressed => pm.refunds < MaxRefunds  BY <2>1
    <3> QED  BY <1>0, <3>1, CountsAreNumbers
  <2>3. PmFails(after)  BY <2>1
  <2> HIDE DEF more
  <2>4. /\ after \in Counting /\ after.attempts = pm.attempts
        /\ after.failures = pm.failures + 1 /\ after.failed = TRUE
        /\ after.refunds = pm.refunds + more
    BY <1>1, <2>2 DEF Counting
  <2> HIDE DEF after
  <2>5. after.refunds \in {pm.refunds, pm.refunds + 1}
    BY <1>0, <2>2, <2>4, CountsAreNumbers
  <2> QED  BY <1>0, <2>3, <2>4, <2>5, PmFailsSafely
<1>6. CASE StoreBatch
  <2>1. doing'.at \notin {"agent", "result"} /\ doing'.phase = "none"
    BY <1>0, <1>6, WaysOn DEF StoreBatch
  <2>2. running' \in [Phase -> Attempt] /\ ~IsRunning("pm_tasks")'
    BY <1>6, EndTouches DEF StoreBatch, BudgetInv
  <2>3. borg.state # "blocked"
    BY <1>0 DEF IInv, Working, Fits
  <2>4. Kept /\ Held' /\ QuietRounds /\ QuietAnswers
    BY <1>0, <1>6, <2>1, <2>2, <2>3 DEF Kept, Held, AtWork, QuietRounds, QuietAnswers, StoreBatch
  <2>5. pm' = NoAttempts  BY <1>6 DEF StoreBatch
  <2>6. pm' \in Counting  BY <1>0, <2>5, CountsAreNumbers DEF NoAttempts, Counting
  <2>7. Counted'
    BY <1>0, <2>1, <2>2, <2>5, CountsAreNumbers DEF Counted, NoAttempts, MaxAttempts, Retries
  <2> QED  BY <2>4, <2>6, <2>7
<1> QED  BY <1>2, <1>3, <1>4, <1>5, <1>6

---------------------------------------------------------------------------------
\* The rounds of a review loop.
LEMMA AssessedRounds ==
    ASSUME Shapes, NEW verdict, NEW assessment \in Assessments(verdict)
    PROVE  assessment \in Assessed /\ assessment.round = Len(assessments) + 1
<1> DEFINE round == Len(assessments) + 1
<1>1. round \in Nat /\ ReviewRounds \in Nat /\ MaxOpen \in Int
  BY DraftingAssumption DEF Shapes
<1>2. ASSUME NEW open \in Int, NEW converging \in BOOLEAN
      PROVE  Assess(open, converging) \in Assessed /\ Assess(open, converging).round = round
  <2>1. SnapshotRefund(round, ReviewRounds, open, assessments) \in RefundRecorded
    BY DEF SnapshotRefund, RefundRecorded
  <2> HIDE DEF round
  <2> QED  BY <1>1, <2>1 DEF Assess, Assessed, round
<1>3. CASE verdict = "approve"
  <2>1. assessment = Assess(0, TRUE)  BY <1>3 DEF Assessments
  <2>2. 0 \in Int /\ TRUE \in BOOLEAN  OBVIOUS
  <2>3. Assess(0, TRUE) \in Assessed /\ Assess(0, TRUE).round = round  BY <1>2, <2>2
  <2> QED  BY <2>1, <2>3
<1>4. CASE verdict # "approve" /\ assessments = <<>>
  <2>1. assessment = Assess(MaxOpen, FALSE)  BY <1>4 DEF Assessments
  <2> QED  BY <1>1, <1>2, <2>1
<1>5. CASE verdict # "approve" /\ assessments # <<>>
  <2> DEFINE before == assessments[Len(assessments)].open
  <2>1. assessments[Len(assessments)] \in Assessed  BY <1>5 DEF Shapes
  <2>2. before \in Int /\ before - 1 \in Int  BY <2>1 DEF Assessed
  <2>3. PICK open \in {before, before - 1} \ {0}, converging \in BOOLEAN :
          assessment = Assess(open, converging)
    BY <1>5 DEF Assessments
  <2> QED  BY <1>2, <2>2, <2>3
<1> QED  BY <1>3, <1>4, <1>5

LEMMA RefundsAreCounted ==
    ASSUME Shapes, Graded, NEW assessment \in Assessed, assessment.round = Len(assessments) + 1,
           assessments' = Append(assessments, assessment)
    PROVE  /\ Refunds \in Nat
           /\ Refunds = RefundedBefore(assessments, Len(assessments) + 1)
           /\ Refunds' = Refunds + (IF assessment.refunded = "refunded" THEN 1 ELSE 0)
           /\ Len(assessments') = Len(assessments) + 1
           /\ assessments' \in Seq(Assessed)
           /\ \A k \in DOMAIN assessments' : assessments'[k].round = k
<1> DEFINE n == Len(assessments)
           Paid(s) == {k \in DOMAIN s : s[k].refunded = "refunded"}
<1>1. n \in Nat /\ DOMAIN assessments = 1..n /\ assessments \in Seq(Assessed)  BY DEF Shapes
<1>2. /\ assessments' \in Seq(Assessed) /\ Len(assessments') = n + 1
      /\ DOMAIN assessments' = 1..(n + 1)
      /\ assessments'[n + 1] = assessment
      /\ \A k \in 1..n : assessments'[k] = assessments[k]
  BY <1>1
<1>3. IsFiniteSet(Paid(assessments)) /\ Paid(assessments) \subseteq 1..n
  <2>1. IsFiniteSet(1..n)  BY <1>1, FS_Interval
  <2> QED  BY <1>1, <2>1, FS_Subset
<1>4. Refunds = Cardinality(Paid(assessments)) /\ Refunds \in Nat
  BY <1>3, FS_CardinalityType DEF Refunds
<1>5. {k \in DOMAIN assessments :
         assessments[k].round < n + 1 /\ assessments[k].refunded = "refunded"} = Paid(assessments)
  BY <1>1 DEF Graded
<1>6. Refunds = RefundedBefore(assessments, n + 1)  BY <1>4, <1>5 DEF RefundedBefore
<1>7. Refunds' = Refunds + (IF assessment.refunded = "refunded" THEN 1 ELSE 0)
  <2>1. Refunds' = Cardinality(Paid(assessments'))  BY DEF Refunds
  <2>2. CASE assessment.refunded = "refunded"
    <3>1. Paid(assessments') = Paid(assessments) \cup {n + 1}  BY <1>1, <1>2, <2>2
    <3>2. n + 1 \notin Paid(assessments)  BY <1>1
    <3>3. Cardinality(Paid(assessments')) = Cardinality(Paid(assessments)) + 1
      BY <1>3, <3>1, <3>2, FS_AddElement
    <3> QED  BY <1>4, <2>1, <2>2, <3>3
  <2>3. CASE assessment.refunded # "refunded"
    <3>1. Paid(assessments') = Paid(assessments)  BY <1>1, <1>2, <2>3
    <3>2. Refunds' = Refunds  BY <1>4, <2>1, <3>1
    <3> QED  BY <1>4, <2>3, <3>2
  <2> QED  BY <2>2, <2>3
<1>8. \A k \in DOMAIN assessments' : assessments'[k].round = k
  BY <1>1, <1>2 DEF Graded
<1> QED  BY <1>2, <1>4, <1>6, <1>7, <1>8

\* A loop that is not over has a round left, and a rejection that is its last
\* blocks the Borg.
LEMMA RejectionIsGraded ==
    ASSUME Shapes, Graded, borg.state # "blocked",
           NEW verdict, NEW assessment \in Assessments(verdict),
           assessments' = Append(assessments, assessment),
           Goes(assessment) \/ borg'.state = "blocked"
    PROVE  assessments' \in Seq(Assessed) /\ Graded'
<1>1. assessment \in Assessed /\ assessment.round = Len(assessments) + 1  BY AssessedRounds
<1> DEFINE n == Len(assessments)
           more == IF assessment.refunded = "refunded" THEN 1 ELSE 0
<1>2. /\ Refunds \in Nat /\ Refunds = RefundedBefore(assessments, n + 1)
      /\ Refunds' = Refunds + more /\ Len(assessments') = n + 1
      /\ assessments' \in Seq(Assessed)
      /\ \A k \in DOMAIN assessments' : assessments'[k].round = k
  BY <1>1, RefundsAreCounted
<1>3. n \in Nat /\ Rounds \in Nat /\ n - Refunds < Rounds
  BY DraftingAssumption DEF Shapes, Graded, Rounds
<1>4. (n + 1) - (Refunds + more) <= Rounds  BY <1>2, <1>3
<1>5. Goes(assessment) => (n + 1) - (Refunds + more) < Rounds
  BY <1>1, <1>2 DEF Goes, Continues, Rounds
<1> HIDE DEF n, more
<1>6. Len(assessments') - Refunds' <= Rounds
      /\ (borg'.state # "blocked" => Len(assessments') - Refunds' < Rounds)
  BY <1>2, <1>4, <1>5
<1> QED  BY <1>2, <1>6 DEF Graded, Rounds

LEMMA NoRoundsAreGraded ==
    ASSUME assessments' = <<>>
    PROVE  assessments' \in Seq(Assessed) /\ Graded'
<1>1. Len(assessments') = 0 /\ DOMAIN assessments' = {} /\ assessments' \in Seq(Assessed)
  OBVIOUS
<1>2. Refunds' = 0
  <2>1. {k \in DOMAIN assessments' : assessments'[k].refunded = "refunded"} = {}  BY <1>1
  <2> QED  BY <2>1, FS_EmptySet DEF Refunds
<1>3. Rounds \in Nat \ {0}  BY DraftingAssumption DEF Rounds
<1> QED  BY <1>1, <1>2, <1>3 DEF Graded, Rounds

LEMMA VerdictsAreGraded ==
    ASSUME BudgetInv,
           (StoreReview /\ SameDecomposition) \/ RejectBatch \/ ApproveBatch
    PROVE  Kept /\ Held' /\ assessments' \in Seq(Assessed) /\ Graded' /\ QuietPm /\ Asked'
<1> USE DEF SameDecomposition, Phase
<1>0. /\ cycle \in Nat /\ noted \in Nat /\ spent \in Spending /\ IInv /\ Shapes /\ Graded
      /\ doing \in DoingType /\ QuestionCap \in Nat
  BY DraftingAssumption DEF BudgetInv, Shapes, IInv, TypesOK
<1>1. borg.state # "blocked"
  BY DEF BudgetInv, IInv, Working, Fits, StoreReview, RejectBatch, ApproveBatch, WithResult
<1>2. doing'.at \notin {"agent", "result"} /\ doing'.phase = "none"
  <2>1. Exit \/ Afresh  BY DEF StoreReview, RejectBatch, ApproveBatch
  <2> QED  BY <1>0, <2>1, WaysOn
<1>3. \E p \in Phase \ {"pm_tasks"} : Complete(p)
  BY DEF StoreReview, RejectBatch, ApproveBatch
<1>4. running' \in [Phase -> Attempt] /\ running'["pm_tasks"] = running["pm_tasks"]
  BY <1>0, <1>3, EndTouches
<1>5. cycle' = cycle /\ pm' = pm /\ ((spent' = spent /\ noted' = noted) \/ CloseLoop)
  BY DEF StoreReview, RejectBatch, ApproveBatch, draftVars
<1>6. Kept
  <2>1. CloseLoop => spent' \in Spending /\ noted' \in Nat
    BY DEF CloseLoop, NothingSpent, Spending
  <2> QED  BY <1>0, <1>4, <1>5, <2>1 DEF Kept
<1>7. Held' /\ QuietPm  BY <1>2, <1>4, <1>5 DEF Held, AtWork, QuietPm, IsRunning
<1>8. Asked'
  <2>1. CloseLoop => spent'.answers = 0  BY DEF CloseLoop, NothingSpent
  <2> QED  BY <1>0, <1>2, <1>5, <2>1 DEF Asked, AtWork, BudgetInv
<1>9. assessments' \in Seq(Assessed) /\ Graded'
  <2>1. \/ CloseLoop
        \/ \E verdict : \E assessment \in Assessments(verdict) :
             /\ assessments' = Append(assessments, assessment)
             /\ Goes(assessment) \/ Transition("blocked")
    BY DEF StoreReview, RejectBatch, ApproveBatch
  <2>2. CASE CloseLoop  BY <2>2, NoRoundsAreGraded DEF CloseLoop
  <2>3. ASSUME NEW verdict, NEW assessment \in Assessments(verdict),
               assessments' = Append(assessments, assessment),
               Goes(assessment) \/ Transition("blocked")
        PROVE  assessments' \in Seq(Assessed) /\ Graded'
    <3>1. Transition("blocked") => borg'.state = "blocked"
      BY <1>0, TransitionMoves DEF IInv, State
    <3> QED  BY <1>0, <1>1, <2>3, <3>1, RejectionIsGraded
  <2> QED  BY <2>1, <2>2, <2>3
<1> QED  BY <1>6, <1>7, <1>8, <1>9

---------------------------------------------------------------------------------
\* Approvals and the world, in which no agent takes part.
LEMMA ApprovingIsQuiet ==
    ASSUME BudgetInv, Approving
    PROVE  Quiet
<1> USE DEF SameDecomposition, draftVars, loopVars, turnVars
<1>0. /\ cycle \in Nat /\ noted \in Nat /\ spent \in Spending /\ running \in [Phase -> Attempt]
      /\ UNCHANGED <<doing, cycle, noted, spent, assessments, pm>>
  BY DEF BudgetInv, Shapes, Approving, Bind, BindRead, BindPublish, BindCommit, BindDies
<1>1. CASE UNCHANGED <<running, borg>>
  BY <1>0, <1>1
     DEF Quiet, Kept, Held, QuietRounds, QuietPm, QuietAnswers, BudgetInv, AtWork, IsRunning
<1>2. CASE /\ Complete("architect_answers") /\ borg.state = "plan_approval_pending"
  <2>1. /\ running' \in [Phase -> Attempt]
        /\ \A q \in Phase \ {"architect_answers"} : running'[q] = running[q]
    BY <1>2, EndTouches DEF BudgetInv, Phase
  <2>2. AtWork => doing.phase \in Phase \ {"architect_answers"}
    BY <1>2 DEF AtWork, BudgetInv, IInv, Working, Fits
  <2>3. Held'  BY <1>0, <2>1, <2>2 DEF Held, BudgetInv, AtWork, IsRunning
  <2>4. Kept /\ QuietPm /\ QuietRounds /\ QuietAnswers
    BY <1>0, <1>2, <2>1 DEF Kept, QuietPm, QuietRounds, QuietAnswers, AtWork, IsRunning, Phase
  <2> QED  BY <2>3, <2>4 DEF Quiet
<1> QED  BY <1>1, <1>2 DEF Approving, Bind, BindRead, BindPublish, BindCommit, BindDies, Unchanged

LEMMA WorldIsQuiet ==
    ASSUME BudgetInv, PowerLoss \/ TreeDrifts \/ UNCHANGED planningVars
    PROVE  Quiet
<1> USE DEF draftVars, loopVars
<1>0. /\ cycle \in Nat /\ noted \in Nat /\ spent \in Spending /\ running \in [Phase -> Attempt]
  BY DEF BudgetInv, Shapes
<1>1. CASE PowerLoss
  <2>1. doing'.at = "idle" /\ doing'.phase = "none" /\ UNCHANGED <<borg, draftVars, loopVars, pm>>
    BY <1>1 DEF PowerLoss, Die, Exit, Idle
  <2>2. CASE UNCHANGED running  BY <1>0, <2>1, <2>2, LeavingIsQuiet
  <2>3. CASE doing.at = "agent" /\ TurnRaises(doing.phase)
    BY <2>1, <2>3, RaisingIsQuiet
  <2> QED  BY <1>1, <2>2, <2>3 DEF PowerLoss, Die
<1>2. CASE TreeDrifts \/ UNCHANGED planningVars
  <2>1. UNCHANGED <<running, doing, borg, cycle, noted, spent, assessments, pm>>
    BY <1>2 DEF TreeDrifts, SameRecord, planningVars, turnVars
  <2> QED  BY <1>0, <2>1
     DEF Quiet, Kept, Held, QuietRounds, QuietPm, QuietAnswers, BudgetInv, AtWork, IsRunning
<1> QED  BY <1>1, <1>2

---------------------------------------------------------------------------------
LEMMA BudgetInitial == Init => BudgetInv
<1> SUFFICES ASSUME Init  PROVE BudgetInv  OBVIOUS
<1>1. IInv  BY Initial
<1>2. /\ running = [p \in Phase |-> NoAttempt] /\ doing = Idle
      /\ cycle = 0 /\ noted = 0 /\ spent = NothingSpent /\ assessments = <<>> /\ pm = NoAttempts
  BY DEF Init, InitDrafting, InitDecomposition
<1>3. /\ Rounds \in Nat \ {0} /\ Retries \in Nat \ {0} /\ QuestionCap \in Nat /\ MaxAttempts \in Nat
      /\ MaxRefunds \in Nat
  BY DraftingAssumption, DecompositionAssumption DEF Rounds, Retries, MaxAttempts
<1>4. Shapes
  <2>1. NoAttempt \in Attempt  BY DEF NoAttempt, Attempt, Request, Shown
  <2>2. NothingSpent \in Spending  BY DEF NothingSpent, Spending
  <2>3. NoAttempts \in Counting  BY <1>3 DEF NoAttempts, Counting
  <2>4. <<>> \in Seq(Assessed)  OBVIOUS
  <2> QED  BY <1>2, <2>1, <2>2, <2>3, <2>4 DEF Shapes
<1>5. Held  BY <1>2 DEF Held, AtWork, Idle
<1>6. Graded
  <2>1. {k \in DOMAIN assessments : assessments[k].refunded = "refunded"} = {}  BY <1>2
  <2>2. Refunds = 0 /\ Len(assessments) = 0 /\ DOMAIN assessments = {}
    BY <1>2, <2>1, FS_EmptySet DEF Refunds
  <2> QED  BY <1>3, <2>2 DEF Graded
<1>7. Counted
  BY <1>2, <1>3 DEF Counted, NoAttempts, Idle, IsRunning, Phase
<1>8. Asked  BY <1>2, <1>3 DEF Asked, AtWork, Idle, NothingSpent
<1> QED  BY <1>1, <1>4, <1>5, <1>6, <1>7, <1>8 DEF BudgetInv

LEMMA BudgetStep == BudgetInv /\ [Next]_planningVars => BudgetInv'
<1> SUFFICES ASSUME BudgetInv, [Next]_planningVars  PROVE BudgetInv'  OBVIOUS
<1>0. IInv'  BY StepKeeps DEF BudgetInv
<1>1. CASE Quiet  BY <1>0, <1>1, QuietIsSafe
<1>2. CASE (AssumeAnswers \/ StoreAnswers) /\ SameDecomposition
  <2>1. Kept /\ Held' /\ QuietRounds /\ QuietPm /\ Asked'  BY <1>2, AnswersStayCapped
  <2>2. Shapes'  BY <2>1 DEF Shapes, Kept, QuietRounds, QuietPm, BudgetInv
  <2> QED  BY <1>0, <2>1, <2>2, RoundsKept, PmKept DEF BudgetInv
<1>3. CASE PmTurn \/ PmUnparsable \/ PmGivesUp \/ PmNoProgress \/ PmInvalidGraph \/ StoreBatch
  <2>1. Kept /\ Held' /\ QuietRounds /\ QuietAnswers /\ pm' \in Counting /\ Counted'
    BY <1>3, PmBeginsSafely, PmEndsSafely
  <2>2. Shapes'  BY <2>1 DEF Shapes, Kept, QuietRounds, BudgetInv
  <2> QED  BY <1>0, <2>1, <2>2, RoundsKept, AnswersKept DEF BudgetInv
<1>4. CASE (StoreReview /\ SameDecomposition) \/ RejectBatch \/ ApproveBatch
  <2>1. Kept /\ Held' /\ assessments' \in Seq(Assessed) /\ Graded' /\ QuietPm /\ Asked'
    BY <1>4, VerdictsAreGraded
  <2>2. Shapes'  BY <2>1 DEF Shapes, Kept, QuietPm, BudgetInv
  <2> QED  BY <1>0, <2>1, <2>2, PmKept DEF BudgetInv
<1>5. CASE Work
  <2>1. CASE (BeginArchitect \/ OperatorAnswers) /\ SameDecomposition
    BY <1>1, <2>1, ArchitectIsQuiet
  <2>2. CASE DraftingTurn /\ SameDecomposition
    BY <1>1, <1>2, <2>2, DraftingTurnIsQuiet DEF DraftingTurn
  <2>3. CASE StoreDraft /\ SameDecomposition
    BY <1>1, <1>2, <1>4, <2>3, StoreDraftIsQuiet DEF StoreDraft
  <2>4. CASE DecompositionTurn /\ UNCHANGED publishVars
    BY <1>1, <1>3, <2>4, DecompositionIsQuiet DEF DecompositionTurn
  <2>5. CASE StoreDecomposition /\ UNCHANGED publishVars
    BY <1>1, <1>3, <1>4, <2>5, DecompositionIsQuiet DEF StoreDecomposition
  <2>6. CASE PublicationStep  BY <1>1, <2>6, PublicationIsQuiet
  <2>7. CASE Return \/ GiveUp  BY <1>1, <2>7, AgentIsQuiet
  <2> QED  BY <1>5, <2>1, <2>2, <2>3, <2>4, <2>5, <2>6, <2>7 DEF Work
<1>6. CASE Command \/ Approving \/ Crash \/ PowerLoss \/ TreeDrifts \/ UNCHANGED planningVars
  BY <1>1, <1>6, CommandIsQuiet, ApprovingIsQuiet, AgentIsQuiet, WorldIsQuiet
<1> QED  BY <1>5, <1>6 DEF Next

\* In every reachable state a loop that may be asked again has a round left, an
\* attempt is counted before it can fail, the cap on assumed answers is read
\* before a turn that counts against it, and a turn at work has its row
\* (planning/turns.py and planning/grants.py).
THEOREM BudgetsHold == Spec => []BudgetInv
BY BudgetInitial, BudgetStep, PTL DEF Spec

\* For any budgets, caps and bounds, however often a loop is interrupted and
\* resumed, it goes no further than its minimum, its budget and what it was
\* refunded (planning/grants.py as tech_lead.py, supervisor.py and pm.py use it).
THEOREM RoundsAreBounded == Spec => []RoundsStayInBudget
<1>1. BudgetInv => RoundsStayInBudget
  BY DEF BudgetInv, Graded, Counted, Asked, RoundsStayInBudget, Rounds, Retries
<1> QED  BY BudgetsHold, <1>1, PTL

(***************************************************************************)
(* The result of a turn is only used for the record its agent was shown.   *)
(* A row that stays RUNNING belongs to the one place where its phase is    *)
(* asked again (Stands), or to a request that will not come again: an      *)
(* answer that is pending no longer, a note that is not due any more       *)
(* (AnswersRow and SteeringRow).                                           *)
(***************************************************************************)
Asking == spent.questions + spent.opened
OpenCycle == borg.state \in {"draft", "tech_review_working"} \cup Architecting
OpenBatch == borg.state \in {"pm_working", "supervisor_working"} /\ approved = 0

\* The phases whose rows end before the Borg goes anywhere else, and where it is.
Standing == {"architect_questions", "architect_plan", "tech_review", "pm_tasks",
             "supervisor_review"}
Stands(p) ==
    /\ Fits(p, borg.state)
    /\ p \in {"architect_questions", "architect_plan"} => ~pending
    /\ p = "architect_questions" => ~ReadyToPlan
    /\ p = "architect_plan" => ReadyToPlan
    /\ p = "supervisor_review" => approved = 0

\* An answer is asked for once, and only while it is pending.
AnswersRow ==
    \E c \in Nat, n \in Nat :
        /\ running["architect_answers"].request = <<c, n>>
        /\ c <= cycle
        /\ c = cycle /\ OpenCycle => n <= Asking
        /\ c = cycle /\ n = Asking /\ pending => running["architect_answers"].shown = Basis

\* A note is asked for once per round, while it is due.
SteeringRow ==
    \E loop \in Loop, scope \in Nat, n \in Nat :
        /\ running["steering"].request = <<loop, scope, n>>
        /\ loop = "tech_review" =>
             /\ scope <= cycle
             /\ scope = cycle /\ OpenCycle => n <= Len(assessments)
             /\ scope = cycle /\ OpenCycle /\ borg.state # "tech_review_working"
                  /\ n = Len(assessments) /\ NoteDue => running["steering"].shown = Basis
        /\ loop = "supervisor_review" =>
             /\ approval # 0
             /\ OpenBatch => n <= Len(assessments)
             /\ OpenBatch /\ borg.state = "pm_working"
                  /\ n = Len(assessments) /\ NoteDue => running["steering"].shown = Basis

RowOK(p) ==
    IsRunning(p) =>
        /\ p \in Standing => Stands(p) /\ running[p].shown = Basis
        /\ p = "architect_answers" => AnswersRow
        /\ p = "steering" => SteeringRow

NoteFirst ==
    AtWork /\ doing.phase \in {"architect_questions", "architect_answers", "architect_plan",
                               "pm_tasks"} => ~NoteDue

Prompted ==
    /\ AtWork => running[doing.phase].shown = Basis
    /\ NoteFirst
    /\ noted <= Len(assessments)
    /\ \A p \in Phase : RowOK(p)

PromptInv == BudgetInv /\ Prompted

\* What prompts are rendered from, and what says which turn is next.
Stage == <<borg.state, cycle, spent, pending, assessments, noted, batch, approval, approved>>

---------------------------------------------------------------------------------
\* Where nothing that is asked about changes, nothing that is shown does.
LEMMA StageHolds ==
    ASSUME UNCHANGED Stage
    PROVE  /\ Basis' = Basis /\ Question' = Question /\ Asking' = Asking /\ NoteDue' = NoteDue
           /\ ReadyToPlan' = ReadyToPlan /\ OpenCycle' = OpenCycle /\ OpenBatch' = OpenBatch
           /\ \A p \in Phase : Stands(p)' = Stands(p)
<1> USE DEF Stage
<1>1. Basis' = Basis /\ Question' = Question /\ Asking' = Asking
  BY DEF Basis, Question, Asking
<1>2. NoteDue' = NoteDue /\ ReadyToPlan' = ReadyToPlan
  BY DEF NoteDue, StuckRound, ReadyToPlan
<1>3. OpenCycle' = OpenCycle /\ OpenBatch' = OpenBatch
  BY DEF OpenCycle, OpenBatch
<1>4. \A p \in Phase : Stands(p)' = Stands(p)  BY <1>2 DEF Stands, Fits
<1> QED  BY <1>1, <1>2, <1>3, <1>4

\* A row that nobody rewrites stays as good as it was.
LEMMA RowStays ==
    ASSUME UNCHANGED Stage, NEW p \in Phase, RowOK(p), IsRunning(p)' => IsRunning(p),
           IsRunning(p)' => running'[p].request = running[p].request
                            /\ running'[p].shown = running[p].shown
    PROVE  RowOK(p)'
<1> SUFFICES ASSUME IsRunning(p)'  PROVE RowOK(p)'  BY DEF RowOK
<1>1. /\ Basis' = Basis /\ Asking' = Asking /\ NoteDue' = NoteDue
      /\ OpenCycle' = OpenCycle /\ OpenBatch' = OpenBatch /\ Stands(p)' = Stands(p)
      /\ UNCHANGED <<borg.state, cycle, pending, assessments, approval>>
      /\ running'[p].request = running[p].request /\ running'[p].shown = running[p].shown
  BY StageHolds DEF Stage
<1>2. p \in Standing => (Stands(p) /\ running[p].shown = Basis)'  BY <1>1 DEF RowOK
<1>3. p = "architect_answers" => AnswersRow'
  <2>1. SUFFICES ASSUME p = "architect_answers"  PROVE AnswersRow'  OBVIOUS
  <2>2. PICK c \in Nat, n \in Nat :
          /\ running["architect_answers"].request = <<c, n>>
          /\ c <= cycle
          /\ c = cycle /\ OpenCycle => n <= Asking
          /\ c = cycle /\ n = Asking /\ pending => running["architect_answers"].shown = Basis
    BY <2>1 DEF RowOK, AnswersRow
  <2> QED  BY <1>1, <2>1, <2>2 DEF AnswersRow
<1>4. p = "steering" => SteeringRow'
  <2>1. SUFFICES ASSUME p = "steering"  PROVE SteeringRow'  OBVIOUS
  <2>2. SteeringRow  BY <2>1 DEF RowOK
  <2> QED  BY <1>1, <2>1, <2>2 DEF SteeringRow
<1> QED  BY <1>2, <1>3, <1>4 DEF RowOK

---------------------------------------------------------------------------------
\* Steps that show nothing new.
LEMMA StageStays ==
    ASSUME PromptInv, UNCHANGED Stage, NEW p \in Phase,
           \A q \in Phase \ {p} : running'[q] = running[q],
           RowOK(p)',
           AtWork' => running'[doing'.phase].shown = Basis,
           NoteFirst'
    PROVE  Prompted'
<1>1. \A q \in Phase : RowOK(q)'
  <2>1. SUFFICES ASSUME NEW q \in Phase \ {p}  PROVE RowOK(q)'  OBVIOUS
  <2>2. RowOK(q) /\ running'[q] = running[q]  BY DEF PromptInv, Prompted
  <2> QED  BY <2>2, RowStays DEF IsRunning
<1>2. Basis' = Basis  BY StageHolds
<1>3. noted' <= Len(assessments')  BY DEF Stage, PromptInv, Prompted
<1> QED  BY <1>1, <1>2, <1>3 DEF Prompted

\* A process that goes on or leaves, with a row ended or none.
LEMMA LeavingShowsNothing ==
    ASSUME PromptInv, UNCHANGED Stage,
           UNCHANGED running \/ \E p \in Phase : Complete(p),
           doing'.at \notin {"agent", "result"}
    PROVE  Prompted'
<1>1. ~AtWork' /\ NoteFirst'  BY DEF AtWork, NoteFirst
<1>2. CASE UNCHANGED running
  <2>1. "steering" \in Phase /\ RowOK("steering")  BY DEF Phase, PromptInv, Prompted
  <2>2. RowOK("steering")'  BY <1>2, <2>1, RowStays DEF IsRunning
  <2> QED  BY <1>1, <1>2, <2>1, <2>2, StageStays
<1>3. ASSUME NEW p \in Phase, Complete(p)
      PROVE  Prompted'
  <2>1. (\A q \in Phase \ {p} : running'[q] = running[q]) /\ ~IsRunning(p)'
    BY <1>3, EndTouches DEF PromptInv, BudgetInv
  <2> QED  BY <1>1, <2>1, StageStays DEF RowOK
<1> QED  BY <1>2, <1>3

\* A row whose file alone is written, by an agent that goes on or by one that dies.
LEMMA WritingShowsNothing ==
    ASSUME PromptInv, UNCHANGED Stage, NEW p \in Phase,
           \A q \in Phase \ {p} : running'[q] = running[q],
           IsRunning(p)' => IsRunning(p),
           running'[p].shown = running[p].shown /\ running'[p].request = running[p].request,
           AtWork' => AtWork /\ doing'.phase = doing.phase /\ doing.phase = p
    PROVE  Prompted'
<1>1. RowOK(p) /\ NoteFirst /\ (AtWork => running[doing.phase].shown = Basis)
  BY DEF PromptInv, Prompted
<1>2. RowOK(p)'  BY <1>1, RowStays
<1>3. NoteFirst'  BY <1>1, StageHolds DEF NoteFirst
<1> QED  BY <1>1, <1>2, <1>3, StageStays

\* A turn begun, taken up or discarded.
LEMMA BeginShowsTheBasis ==
    ASSUME PromptInv, UNCHANGED Stage, Choosing, NEW p \in Phase, NEW request \in Request,
           BeginTurn(p, request, Basis),
           IsRunning(p) /\ running[p].request = request => running[p].shown = Basis,
           running'[p].request = request /\ running'[p].shown = Basis => RowOK(p)',
           p \in {"architect_questions", "architect_answers", "architect_plan", "pm_tasks"}
             => ~NoteDue
    PROVE  Prompted'
<1>1. /\ \A q \in Phase \ {p} : running'[q] = running[q]
      /\ doing'.phase = p
      /\ IsRunning(p)' <=> doing'.at # "choosing"
      /\ doing'.at \in {"choosing", "agent", "result"}
  BY BeginTouches DEF PromptInv, BudgetInv
<1>2. NoteFirst'  BY <1>1, StageHolds DEF NoteFirst
<1>3. CASE DiscardAttempt(p, request)
  <2>1. doing'.at = "choosing"
    BY <1>3 DEF DiscardAttempt, Choosing, PromptInv, BudgetInv, IInv, TypesOK, DoingType
  <2>2. RowOK(p)' /\ ~AtWork'  BY <1>1, <2>1 DEF RowOK, AtWork
  <2> QED  BY <1>1, <1>2, <2>2, StageStays
<1>4. CASE RecoverResult(p, request)
  <2>1. running' = running /\ running[p].shown = Basis
    BY <1>4 DEF RecoverResult, SameRequest
  <2>2. RowOK(p)'  BY <2>1, RowStays DEF IsRunning, PromptInv, Prompted
  <2> QED  BY <1>1, <1>2, <2>1, <2>2, StageStays
<1>5. CASE InvokeAgent(p, request, Basis)
  <2>1. running'[p] = [request |-> request, shown |-> Basis, file |-> "none"]
    BY <1>5 DEF InvokeAgent, PromptInv, BudgetInv, Shapes
  <2>2. running'[p].request = request /\ running'[p].shown = Basis  BY <2>1
  <2> QED  BY <1>1, <1>2, <2>2, StageStays
<1> QED  BY <1>3, <1>4, <1>5 DEF BeginTurn

---------------------------------------------------------------------------------
\* Steps that leave what rows ask behind: a question that is answered, or
\* followed by another, is not asked again;
AnswersAge ==
    /\ cycle <= cycle'
    /\ cycle' = cycle =>
         /\ OpenCycle' => OpenCycle /\ Asking <= Asking'
         /\ pending' => \/ OpenCycle /\ Asking < Asking'
                        \/ pending /\ Asking' = Asking /\ Basis' = Basis

\* nor is a note for a round that has one, or that is followed by another.
NotesAge ==
    /\ cycle <= cycle'
    /\ cycle' = cycle /\ OpenCycle' => OpenCycle /\ Len(assessments) <= Len(assessments')
    /\ cycle' = cycle /\ OpenCycle' /\ borg'.state # "tech_review_working" /\ NoteDue' =>
         \/ Len(assessments) < Len(assessments')
         \/ /\ borg.state # "tech_review_working" /\ NoteDue
            /\ assessments' = assessments /\ Basis' = Basis
    /\ approval # 0 =>
         /\ approval' # 0
         /\ OpenBatch' => OpenBatch /\ Len(assessments) <= Len(assessments')
         /\ OpenBatch' /\ borg'.state = "pm_working" /\ NoteDue' =>
              \/ Len(assessments) < Len(assessments')
              \/ /\ borg.state = "pm_working" /\ NoteDue
                 /\ assessments' = assessments /\ Basis' = Basis

SameRow(p) ==
    IsRunning(p)' =>
        /\ IsRunning(p)
        /\ running'[p].request = running[p].request
        /\ running'[p].shown = running[p].shown

LEMMA AnswersRowAges ==
    ASSUME PromptInv, Shapes', AnswersAge, SameRow("architect_answers"),
           IsRunning("architect_answers")'
    PROVE  AnswersRow'
<1> USE DEF Phase
<1>1. PICK c \in Nat, n \in Nat :
        /\ running["architect_answers"].request = <<c, n>>
        /\ c <= cycle
        /\ c = cycle /\ OpenCycle => n <= Asking
        /\ c = cycle /\ n = Asking /\ pending => running["architect_answers"].shown = Basis
  BY DEF PromptInv, Prompted, RowOK, AnswersRow, SameRow
<1>2. cycle \in Nat /\ cycle' \in Nat /\ Asking \in Nat /\ Asking' \in Nat
  BY DEF PromptInv, BudgetInv, Shapes, Spending, Asking
<1>3. running'["architect_answers"].request = <<c, n>>
      /\ running'["architect_answers"].shown = running["architect_answers"].shown
  BY <1>1 DEF SameRow
<1>4. c <= cycle' /\ (c = cycle' => cycle' = cycle)  BY <1>1, <1>2 DEF AnswersAge
<1>5. c = cycle' /\ OpenCycle' => n <= Asking'  BY <1>1, <1>2, <1>4 DEF AnswersAge
<1>6. c = cycle' /\ n = Asking' /\ pending' => running'["architect_answers"].shown = Basis'
  BY <1>1, <1>2, <1>3, <1>4 DEF AnswersAge
<1> QED  BY <1>3, <1>4, <1>5, <1>6 DEF AnswersRow

LEMMA SteeringRowAges ==
    ASSUME PromptInv, Shapes', NotesAge, SameRow("steering"), IsRunning("steering")'
    PROVE  SteeringRow'
<1> USE DEF Phase
<1> DEFINE n0 == Len(assessments)
           n1 == Len(assessments')
<1>1. PICK loop \in Loop, scope \in Nat, n \in Nat :
        /\ running["steering"].request = <<loop, scope, n>>
        /\ loop = "tech_review" =>
             /\ scope <= cycle
             /\ scope = cycle /\ OpenCycle => n <= n0
             /\ scope = cycle /\ OpenCycle /\ borg.state # "tech_review_working"
                  /\ n = n0 /\ NoteDue => running["steering"].shown = Basis
        /\ loop = "supervisor_review" =>
             /\ approval # 0
             /\ OpenBatch => n <= n0
             /\ OpenBatch /\ borg.state = "pm_working"
                  /\ n = n0 /\ NoteDue => running["steering"].shown = Basis
  BY DEF PromptInv, Prompted, RowOK, SteeringRow, SameRow
<1>2. cycle \in Nat /\ cycle' \in Nat /\ n0 \in Nat /\ n1 \in Nat
      /\ (assessments' = assessments => n1 = n0)
  BY DEF PromptInv, BudgetInv, Shapes
<1>3. running'["steering"].request = <<loop, scope, n>>
      /\ running'["steering"].shown = running["steering"].shown
  BY <1>1 DEF SameRow
<1>4. loop = "tech_review" => scope <= cycle' /\ (scope = cycle' => cycle' = cycle)
  BY <1>1, <1>2 DEF NotesAge
<1>5. loop = "tech_review" /\ scope = cycle' /\ OpenCycle' => n <= n1
  BY <1>1, <1>2, <1>4 DEF NotesAge
<1>6. loop = "tech_review" /\ scope = cycle' /\ OpenCycle'
        /\ borg'.state # "tech_review_working" /\ n = n1 /\ NoteDue'
        => running'["steering"].shown = Basis'
  BY <1>1, <1>2, <1>3, <1>4 DEF NotesAge
<1>7. loop = "supervisor_review" =>
        /\ approval' # 0
        /\ OpenBatch' => n <= n1
        /\ OpenBatch' /\ borg'.state = "pm_working" /\ n = n1 /\ NoteDue'
             => running'["steering"].shown = Basis'
  BY <1>1, <1>2, <1>3 DEF NotesAge
<1> QED  BY <1>3, <1>4, <1>5, <1>6, <1>7 DEF SteeringRow

\* A move of the Borg, after which no row stands where it is.
LEMMA MovesLeaveRowsBehind ==
    ASSUME PromptInv, Shapes', AnswersAge, NotesAge,
           \A p \in Standing : ~IsRunning(p)',
           SameRow("architect_answers"), SameRow("steering"),
           doing'.at \notin {"agent", "result"}, noted' <= Len(assessments')
    PROVE  Prompted'
<1>1. ~AtWork' /\ NoteFirst'  BY DEF AtWork, NoteFirst
<1>2. \A p \in Phase : RowOK(p)'
  <2>1. SUFFICES ASSUME NEW p \in Phase, IsRunning(p)'  PROVE RowOK(p)'  BY DEF RowOK
  <2>2. p = "architect_answers" \/ p = "steering"  BY <2>1 DEF Phase, Standing
  <2>3. CASE p = "architect_answers"
    BY <2>1, <2>3, AnswersRowAges DEF RowOK, Standing
  <2>4. CASE p = "steering"
    BY <2>1, <2>4, SteeringRowAges DEF RowOK, Standing
  <2> QED  BY <2>2, <2>3, <2>4
<1> QED  BY <1>1, <1>2 DEF Prompted

\* Where a turn ends, no row that stands is left.
LEMMA EndingLeavesNone ==
    ASSUME PromptInv, AtWork, NEW p \in Phase, doing.phase = p, p # "steering", Complete(p)
    PROVE  /\ \A q \in Standing : ~IsRunning(q)'
           /\ SameRow("architect_answers") /\ SameRow("steering")
<1> USE DEF Phase
<1>1. IsRunning(p) /\ Fits(p, borg.state)
  BY DEF AtWork, PromptInv, BudgetInv, Held, IInv, Working
<1>2. (\A q \in Phase \ {p} : running'[q] = running[q]) /\ ~IsRunning(p)'
  BY EndTouches DEF PromptInv, BudgetInv
<1>3. ASSUME NEW q \in Standing \ {p}  PROVE ~IsRunning(q)
  <2>1. SUFFICES ASSUME IsRunning(q)  PROVE FALSE  OBVIOUS
  <2>2. Stands(q) /\ (p \in Standing => Stands(p))
    BY <1>1, <2>1 DEF PromptInv, Prompted, RowOK, Standing
  <2> QED  BY <1>1, <2>2 DEF Stands, Fits, Standing
<1>4. \A q \in Standing : ~IsRunning(q)'
  BY <1>2, <1>3 DEF Standing, IsRunning
<1> QED  BY <1>2, <1>4 DEF SameRow, IsRunning

\* Where no phase has a turn, no row stands.
LEMMA NobodyStands ==
    ASSUME PromptInv, \A p \in Standing : ~Stands(p),
           \A p \in Standing \cup {"steering"} : running'[p] = running[p],
           SameRow("architect_answers")
    PROVE  /\ \A q \in Standing : ~IsRunning(q)'
           /\ SameRow("architect_answers") /\ SameRow("steering")
<1>1. ASSUME NEW p \in Standing  PROVE ~IsRunning(p)'
  BY <1>1 DEF PromptInv, Prompted, RowOK, Standing, Phase, IsRunning
<1> QED  BY <1>1 DEF SameRow, IsRunning, Standing

---------------------------------------------------------------------------------
\* The drafting.  What the lemmas below start from.
LEMMA Known ==
    ASSUME PromptInv
    PROVE  /\ cycle \in Nat /\ Len(assessments) \in Nat /\ noted \in Nat /\ Asking \in Nat
           /\ spent \in Spending /\ doing \in DoingType /\ running \in [Phase -> Attempt]
           /\ IInv /\ Shapes /\ BudgetInv /\ noted <= Len(assessments)
  BY DEF PromptInv, BudgetInv, Shapes, IInv, TypesOK, Spending, Asking, Prompted

\* A question follows the others.
LEMMA QuestionsMove ==
    ASSUME PromptInv, BudgetInv', SameDecomposition,
           \/ StoreOpenPlan
           \/ StoreQuestions /\ doing.payload \in {"ask_more", "ready_to_plan"}
    PROVE  Prompted'
<1> USE DEF Phase
<1>0. /\ cycle \in Nat /\ Len(assessments) \in Nat /\ Asking \in Nat /\ spent \in Spending
      /\ doing \in DoingType /\ noted <= Len(assessments) /\ IInv /\ TypesOK
  BY Known DEF IInv
<1>1. PICK p \in {"architect_questions", "architect_plan"} :
        doing.at = "result" /\ doing.phase = p /\ Complete(p)
  BY DEF StoreQuestions, StoreOpenPlan, WithResult
<1>2. (\A q \in Standing : ~IsRunning(q)') /\ SameRow("architect_answers") /\ SameRow("steering")
  BY <1>1, EndingLeavesNone DEF AtWork
<1>3. UNCHANGED <<cycle, approval, approved, batch, assessments, noted>>
  BY DEF StoreQuestions, StoreOpenPlan, loopVars, gateVars, SameDecomposition, graphVars
<1>4. borg.state = "architect_working"
  BY <1>0, <1>1 DEF IInv, Working, Fits
<1>5. borg'.state \in Architecting
  <2>1. borg' = borg \/ Transition("architect_awaiting_answers")
    BY DEF StoreQuestions, StoreOpenPlan
  <2>2. Transition("architect_awaiting_answers") => borg'.state = "architect_awaiting_answers"
    BY <1>0, TransitionMoves DEF State
  <2> QED  BY <1>4, <2>1, <2>2 DEF Architecting
<1>6. OpenCycle /\ ~OpenBatch'
  BY <1>4, <1>5 DEF OpenCycle, OpenBatch, Architecting
<1>7. Asking <= Asking' /\ Asking < Asking'
  <2> DEFINE n == spent.questions
             m == spent.opened
  <2>1. n \in Nat /\ m \in Nat  BY <1>0 DEF Spending
  <2>2. \/ spent'.questions = n + 1 /\ spent'.opened = m
        \/ spent'.questions = n /\ spent'.opened = m + 1
    BY <1>0 DEF StoreQuestions, StoreOpenPlan, Spending
  <2> HIDE DEF n, m
  <2>3. n + m <= spent'.questions + spent'.opened /\ n + m < spent'.questions + spent'.opened
    BY <2>1, <2>2
  <2> QED  BY <2>3 DEF Asking, n, m
<1>8. ~NoteDue'
  <2>1. ~NoteDue  BY <1>1 DEF AtWork, PromptInv, Prompted, NoteFirst
  <2> QED  BY <1>3, <2>1 DEF NoteDue, StuckRound
<1>9. doing'.at = "choosing"
  <2>1. Again  BY DEF StoreQuestions, StoreOpenPlan
  <2> QED  BY <1>0, <2>1 DEF Again, DoingType
<1>10. AnswersAge  BY <1>0, <1>3, <1>6, <1>7 DEF AnswersAge
<1>11. NotesAge  BY <1>0, <1>3, <1>6, <1>8 DEF NotesAge
<1> QED  BY <1>0, <1>2, <1>3, <1>9, <1>10, <1>11, MovesLeaveRowsBehind DEF BudgetInv

\* An answer ends its question, whoever gives it.
LEMMA AnswersMove ==
    ASSUME PromptInv, BudgetInv', SameDecomposition, pending, ~NoteDue,
           NEW answers \in {0, 1}, Answered(answers),
           \A p \in Standing \cup {"steering"} : running'[p] = running[p],
           SameRow("architect_answers"),
           doing'.at \notin {"agent", "result"}
    PROVE  Prompted'
<1> USE DEF Phase
<1>0. /\ cycle \in Nat /\ Len(assessments) \in Nat /\ Asking \in Nat /\ spent \in Spending
      /\ noted <= Len(assessments) /\ IInv /\ TypesOK
  BY Known DEF IInv
<1>1. borg.state = "architect_awaiting_answers"  BY <1>0 DEF IInv, StateFollowsTheRecord
<1>2. (\A q \in Standing : ~IsRunning(q)') /\ SameRow("architect_answers") /\ SameRow("steering")
  BY <1>1, NobodyStands DEF Stands, Fits, Standing
<1>3. UNCHANGED <<cycle, approval, approved, batch, assessments, noted>> /\ pending' = FALSE
  BY DEF Answered, loopVars, gateVars, SameDecomposition, graphVars
<1>4. borg'.state = "architect_working"
  BY <1>0, TransitionMoves DEF Answered, State
<1>5. OpenCycle /\ ~OpenBatch'
  BY <1>1, <1>4 DEF OpenCycle, OpenBatch, Architecting
<1>6. Asking' = Asking
  <2>1. spent' = [spent EXCEPT !.answers = @ + answers]  BY DEF Answered
  <2> QED  BY <1>0, <2>1 DEF Asking, Spending
<1>7. ~NoteDue'  BY <1>3 DEF NoteDue, StuckRound
<1>8. AnswersAge  BY <1>0, <1>3, <1>5, <1>6 DEF AnswersAge
<1>9. NotesAge  BY <1>0, <1>3, <1>5, <1>7 DEF NotesAge
<1> QED  BY <1>0, <1>2, <1>3, <1>8, <1>9, MovesLeaveRowsBehind DEF BudgetInv

LEMMA OperatorAnswersSafely ==
    ASSUME PromptInv, BudgetInv', SameDecomposition, OperatorAnswers
    PROVE  Prompted'
<1> USE DEF Phase
<1>1. CASE Answered(0) /\ Abandon("architect_answers", "answers") /\ UNCHANGED doing
  <2>1. "answers" \in Payload["architect_answers"]  BY DEF Payload, AnswersPayload
  <2>2. /\ \A q \in Phase \ {"architect_answers"} : running'[q] = running[q]
        /\ SameRow("architect_answers")
    BY <1>1, <2>1, AbandonTouches, Known DEF SameRow
  <2> QED
    BY <1>1, <2>2, AnswersMove DEF OperatorAnswers, ArchitectAtWork, Choosing, Standing
<1>2. CASE Exit /\ UNCHANGED <<running, borg, draftVars, loopVars, gateVars>>
  BY <1>2, LeavingShowsNothing DEF Exit, Idle, Stage, draftVars, loopVars, gateVars,
                                   SameDecomposition, graphVars
<1> QED  BY <1>1, <1>2 DEF OperatorAnswers

LEMMA StoredAnswersMove ==
    ASSUME PromptInv, BudgetInv', SameDecomposition, StoreAnswers, doing.payload = "answers"
    PROVE  Prompted'
<1> USE DEF Phase
<1>1. Answered(1) /\ Again /\ Complete("architect_answers")
      /\ AtWork /\ doing.phase = "architect_answers"
  BY DEF StoreAnswers, WithResult, AtWork
<1>2. pending /\ ~NoteDue
  BY <1>1, Known DEF IInv, Working, Fits, AtWork, StateFollowsTheRecord, PromptInv, Prompted,
                        NoteFirst
<1>3. /\ \A q \in Phase \ {"architect_answers"} : running'[q] = running[q]
      /\ SameRow("architect_answers")
  BY <1>1, EndTouches, Known DEF SameRow
<1>4. doing'.at = "choosing"  BY <1>1, Known DEF Again, DoingType
<1> QED  BY <1>1, <1>2, <1>3, <1>4, AnswersMove DEF Standing

\* The drafting begins, and a plan goes to its review.
LEMMA PlansMove ==
    ASSUME PromptInv, BudgetInv', SameDecomposition, BeginArchitect \/ AcceptPlan
    PROVE  Prompted'
<1> USE DEF Phase
<1>0. /\ cycle \in Nat /\ Len(assessments) \in Nat /\ Asking \in Nat
      /\ noted <= Len(assessments) /\ IInv /\ TypesOK
  BY Known DEF IInv
<1>1. UNCHANGED <<cycle, spent, pending, approval, approved, batch, assessments, noted>>
  BY DEF BeginArchitect, AcceptPlan, draftVars, loopVars, gateVars, SameDecomposition, graphVars
<1>2. Basis' = Basis /\ Asking' = Asking /\ NoteDue' = NoteDue
  BY <1>1 DEF Basis, Question, Asking, NoteDue, StuckRound
<1>3. CASE BeginArchitect
  <2>1. borg.state = "draft" /\ UNCHANGED <<running, doing>> /\ doing.at = "choosing"
    BY <1>3 DEF BeginArchitect, Choosing
  <2>2. borg'.state = "architect_working"
    BY <1>0, <1>3, TransitionMoves DEF BeginArchitect, State
  <2>3. (\A q \in Standing : ~IsRunning(q)') /\ SameRow("architect_answers") /\ SameRow("steering")
    BY <2>1, NobodyStands DEF Stands, Fits, Standing, SameRow, IsRunning
  <2>4. OpenCycle /\ ~OpenBatch'
    BY <2>1, <2>2 DEF OpenCycle, OpenBatch, Architecting
  <2>5. ~pending'  BY <1>0, <1>1, <2>1 DEF IInv, StateFollowsTheRecord
  <2>6. AnswersAge  BY <1>0, <1>1, <1>2, <2>4, <2>5 DEF AnswersAge
  <2>7. NotesAge  BY <1>0, <1>1, <1>2, <2>1, <2>4 DEF NotesAge
  <2> QED  BY <1>0, <1>1, <2>1, <2>3, <2>6, <2>7, MovesLeaveRowsBehind DEF BudgetInv
<1>4. CASE AcceptPlan
  <2>1. AtWork /\ doing.phase = "architect_plan" /\ Complete("architect_plan")
    BY <1>4 DEF AcceptPlan, WithResult, AtWork
  <2>2. borg.state = "architect_working" /\ ~pending
    BY <1>0, <2>1 DEF IInv, Working, Fits, AtWork, StateFollowsTheRecord
  <2>3. borg'.state = "tech_review_working"
    BY <1>0, <1>4, TransitionMoves DEF AcceptPlan, State
  <2>4. (\A q \in Standing : ~IsRunning(q)') /\ SameRow("architect_answers") /\ SameRow("steering")
    BY <2>1, EndingLeavesNone
  <2>5. OpenCycle /\ ~OpenBatch'
    BY <2>2, <2>3 DEF OpenCycle, OpenBatch, Architecting
  <2>6. doing'.at = "choosing"  BY <1>4 DEF AcceptPlan, Afresh, Idle
  <2>7. AnswersAge  BY <1>0, <1>1, <1>2, <2>2, <2>5 DEF AnswersAge
  <2>8. NotesAge  BY <1>0, <1>1, <2>3, <2>5 DEF NotesAge
  <2> QED  BY <1>0, <1>1, <2>4, <2>6, <2>7, <2>8, MovesLeaveRowsBehind DEF BudgetInv
<1> QED  BY <1>3, <1>4

\* A review, and the approval that follows it.
LEMMA ReviewsMove ==
    ASSUME PromptInv, BudgetInv', SameDecomposition, StoreReview
    PROVE  Prompted'
<1> USE DEF Phase
<1>0. /\ cycle \in Nat /\ Len(assessments) \in Nat /\ Asking \in Nat
      /\ noted <= Len(assessments) /\ noted \in Nat /\ IInv /\ TypesOK /\ Shapes
  BY Known DEF IInv
<1>1. AtWork /\ doing.phase = "tech_review" /\ Complete("tech_review")
  BY DEF StoreReview, WithResult, AtWork
<1>2. borg.state = "tech_review_working" /\ ~pending
  BY <1>0, <1>1 DEF IInv, Working, Fits, AtWork, StateFollowsTheRecord
<1>3. (\A q \in Standing : ~IsRunning(q)') /\ SameRow("architect_answers") /\ SameRow("steering")
  BY <1>1, EndingLeavesNone
<1>4. UNCHANGED <<cycle, pending, approval, approved>>
  BY DEF StoreReview, gateVars, SameDecomposition, graphVars
<1>5. doing'.at \in {"idle", "choosing"}
  BY <1>0, WaysOn DEF StoreReview
<1>6. OpenCycle /\ (approval = 0 \/ ~OpenBatch')
  BY <1>0, <1>2, <1>4 DEF OpenCycle, OpenBatch, IInv, Bound
<1>7. CASE doing.payload = "approve"
  <2>1. CloseLoop /\ Transition("plan_approval_pending")  BY <1>7 DEF StoreReview
  <2>2. borg'.state = "plan_approval_pending"  BY <1>0, <2>1, TransitionMoves DEF State
  <2>3. noted' <= Len(assessments')  BY <2>1 DEF CloseLoop
  <2>4. ~OpenCycle' /\ ~OpenBatch'  BY <2>2 DEF OpenCycle, OpenBatch, Architecting
  <2>5. AnswersAge /\ NotesAge  BY <1>0, <1>2, <1>4, <2>4 DEF AnswersAge, NotesAge
  <2> QED  BY <1>3, <1>5, <2>3, <2>5, MovesLeaveRowsBehind DEF BudgetInv
<1>8. CASE doing.payload = "request_changes"
  <2>1. PICK assessment : /\ assessments' = Append(assessments, assessment)
                          /\ UNCHANGED <<noted, spent>>
    BY <1>8 DEF StoreReview
  <2>2. Len(assessments') = Len(assessments) + 1  BY <1>0, <2>1 DEF Shapes
  <2>3. Asking' = Asking  BY <2>1 DEF Asking
  <2>4. noted' <= Len(assessments') /\ Len(assessments) < Len(assessments')
        /\ Len(assessments) <= Len(assessments')
    BY <1>0, <2>1, <2>2
  <2>5. AnswersAge  BY <1>0, <1>2, <1>4, <1>6, <2>3 DEF AnswersAge
  <2>6. NotesAge  BY <1>0, <1>4, <1>6, <2>4 DEF NotesAge
  <2> QED  BY <1>3, <1>5, <2>4, <2>5, <2>6, MovesLeaveRowsBehind DEF BudgetInv
<1>9. doing.payload \in {"approve", "request_changes"}  BY DEF StoreReview
<1> QED  BY <1>7, <1>8, <1>9

\* A change of the plan, and an approval, which closes the drafting.
LEMMA OperatorMoves ==
    ASSUME PromptInv, BudgetInv', SameDecomposition,
           \/ \E unattended \in BOOLEAN : PlanChange(unattended)
           \/ BindCommit /\ ~UNCHANGED <<borg, approval, running>>
    PROVE  Prompted'
<1> USE DEF Phase
<1>0. /\ cycle \in Nat /\ Len(assessments) \in Nat /\ Asking \in Nat
      /\ noted <= Len(assessments) /\ IInv /\ TypesOK
  BY Known DEF IInv
<1>1. /\ borg.state = "plan_approval_pending"
      /\ UNCHANGED <<approved, assessments, noted, spent, pending>>
  BY DEF PlanChange, BindCommit, Unchanged, SameDecomposition, graphVars, loopVars
<1>2. ~pending /\ approval = 0  BY <1>0, <1>1 DEF IInv, StateFollowsTheRecord, Bound
<1>3. ~OpenCycle /\ \A q \in Standing : ~Stands(q)
  BY <1>1 DEF OpenCycle, Architecting, Stands, Fits, Standing
<1>4. CASE \E unattended \in BOOLEAN : PlanChange(unattended)
  <2>1. UNCHANGED running /\ cycle' = cycle + 1 /\ doing'.at = "choosing"
    BY <1>4 DEF PlanChange, Idle
  <2>2. (\A q \in Standing : ~IsRunning(q)') /\ SameRow("architect_answers") /\ SameRow("steering")
    BY <1>3, <2>1, NobodyStands DEF SameRow, IsRunning
  <2>3. AnswersAge /\ NotesAge  BY <1>0, <1>2, <2>1 DEF AnswersAge, NotesAge
  <2> QED  BY <1>0, <1>1, <2>1, <2>2, <2>3, MovesLeaveRowsBehind DEF BudgetInv
<1>5. CASE BindCommit /\ ~UNCHANGED <<borg, approval, running>>
  <2>1. Transition("pm_working") /\ Complete("architect_answers") /\ UNCHANGED <<doing, cycle>>
    BY <1>5 DEF BindCommit, draftVars
  <2>2. borg'.state = "pm_working"  BY <1>0, <2>1, TransitionMoves DEF State
  <2>3. /\ \A q \in Phase \ {"architect_answers"} : running'[q] = running[q]
        /\ ~IsRunning("architect_answers")'
    BY <1>0, <2>1, EndTouches DEF PromptInv, BudgetInv
  <2>4. (\A q \in Standing : ~IsRunning(q)') /\ SameRow("architect_answers") /\ SameRow("steering")
    BY <1>3, <2>3, NobodyStands DEF SameRow, Standing
  <2>5. doing'.at \notin {"agent", "result"}
    BY <1>0, <1>1, <2>1 DEF IInv, Working, Fits
  <2>6. ~OpenCycle'  BY <2>2 DEF OpenCycle, Architecting
  <2>7. AnswersAge /\ NotesAge  BY <1>0, <1>1, <1>2, <2>1, <2>6 DEF AnswersAge, NotesAge
  <2> QED  BY <1>0, <1>1, <2>4, <2>5, <2>7, MovesLeaveRowsBehind DEF BudgetInv
<1> QED  BY <1>4, <1>5

---------------------------------------------------------------------------------
\* The decomposition.
LEMMA BatchesMove ==
    ASSUME PromptInv, BudgetInv', StoreBatch \/ RejectBatch \/ ApproveBatch
    PROVE  Prompted'
<1> USE DEF Phase
<1>0. /\ cycle \in Nat /\ Len(assessments) \in Nat /\ Asking \in Nat /\ noted \in Nat
      /\ noted <= Len(assessments) /\ IInv /\ TypesOK /\ Shapes
      /\ batch \in Nat /\ rejected \in Nat
  BY Known DEF IInv, TypesOK
<1>1. PICK p \in {"pm_tasks", "supervisor_review"} :
        AtWork /\ doing.phase = p /\ Complete(p)
  BY DEF StoreBatch, RejectBatch, ApproveBatch, WithResult, AtWork
<1>2. /\ borg.state \in {"pm_working", "supervisor_working"} /\ ~pending
      /\ StoreBatch => borg.state = "pm_working"
      /\ ~StoreBatch => borg.state = "supervisor_working"
  BY <1>0, <1>1 DEF IInv, Working, Fits, AtWork, StateFollowsTheRecord,
                    StoreBatch, RejectBatch, ApproveBatch, WithResult
<1>3. approved = 0 /\ OpenBatch
  <2>1. RejectBatch \/ ApproveBatch => approved = 0
    BY <1>0 DEF RejectBatch, ApproveBatch, WithResult, IInv, Supervising
  <2>2. approved # 0 => borg.state # "pm_working"  BY <1>0 DEF IInv, Supervising
  <2> QED  BY <1>2, <2>1, <2>2 DEF OpenBatch
<1>4. (\A q \in Standing : ~IsRunning(q)') /\ SameRow("architect_answers") /\ SameRow("steering")
  BY <1>1, EndingLeavesNone
<1>5. UNCHANGED <<cycle, pending, approval>>
  BY DEF StoreBatch, RejectBatch, ApproveBatch, draftVars, gateVars
<1>6. doing'.at \in {"idle", "choosing"}
  BY <1>0, WaysOn DEF StoreBatch, RejectBatch, ApproveBatch
<1>7. borg'.state \in {"pm_working", "supervisor_working", "blocked"}
  <2>1. ASSUME NEW s \in {"pm_working", "supervisor_working", "blocked"}, Transition(s)
        PROVE  borg'.state = s
    BY <1>0, <2>1, TransitionMoves DEF State
  <2> QED  BY <1>2, <2>1 DEF StoreBatch, RejectBatch, ApproveBatch
<1>8. ~OpenCycle'  BY <1>7 DEF OpenCycle, Architecting
<1>9. AnswersAge  BY <1>0, <1>2, <1>5, <1>8 DEF AnswersAge
<1>10. CASE StoreBatch
  <2>1. borg'.state = "supervisor_working"  BY <1>0, <1>10, TransitionMoves DEF StoreBatch, State
  <2>2. UNCHANGED <<assessments, noted>>  BY <1>10 DEF StoreBatch, loopVars
  <2>3. NotesAge  BY <1>0, <1>3, <1>5, <1>8, <2>1, <2>2 DEF NotesAge
  <2> QED  BY <1>0, <1>4, <1>6, <1>9, <2>2, <2>3, MovesLeaveRowsBehind DEF BudgetInv
<1>11. CASE RejectBatch
  <2>1. PICK assessment : assessments' = Append(assessments, assessment) /\ noted' = noted
    BY <1>11 DEF RejectBatch
  <2>2. Len(assessments') = Len(assessments) + 1  BY <1>0, <2>1 DEF Shapes
  <2>3. noted' <= Len(assessments') /\ Len(assessments) < Len(assessments')
        /\ Len(assessments) <= Len(assessments')
    BY <1>0, <2>1, <2>2
  <2>4. NotesAge  BY <1>0, <1>3, <1>5, <1>8, <2>3 DEF NotesAge
  <2> QED  BY <1>4, <1>6, <1>9, <2>3, <2>4, MovesLeaveRowsBehind DEF BudgetInv
<1>12. CASE ApproveBatch
  <2>1. CloseLoop /\ approved' = batch /\ borg' = borg  BY <1>12 DEF ApproveBatch
  <2>2. batch # 0
    BY <1>0, <1>2, <1>12 DEF IInv, StateFollowsTheRecord, ApproveBatch, RejectBatch, StoreBatch,
                             WithResult
  <2>3. noted' <= Len(assessments') /\ ~OpenBatch'
    BY <2>1, <2>2 DEF CloseLoop, OpenBatch
  <2>4. NotesAge  BY <1>0, <1>5, <1>8, <2>3 DEF NotesAge
  <2> QED  BY <1>4, <1>6, <1>9, <2>3, <2>4, MovesLeaveRowsBehind DEF BudgetInv
<1> QED  BY <1>10, <1>11, <1>12

\* The tasks are published: nothing is asked any more.
LEMMA ReadinessMoves ==
    ASSUME PromptInv, BudgetInv', BecomeReady
    PROVE  Prompted'
<1> USE DEF Phase
<1>0. /\ cycle \in Nat /\ Len(assessments) \in Nat /\ Asking \in Nat
      /\ noted <= Len(assessments) /\ IInv /\ TypesOK
  BY Known DEF IInv
<1>1. /\ UNCHANGED <<running, cycle, spent, pending, approval, approved, assessments, noted>>
      /\ doing'.at = "idle"
  BY DEF BecomeReady, SameRecord, draftVars, loopVars, gateVars, graphVars, Exit, Idle
<1>2. approved # 0 /\ borg.state \in {"supervisor_working", "ready_to_execute"} /\ ~pending
  BY <1>0 DEF BecomeReady, At, IInv, Publishing, Supervising, StateFollowsTheRecord
<1>3. borg'.state = "ready_to_execute"  BY <1>0, TransitionMoves DEF BecomeReady, State
<1>4. (\A q \in Standing : ~IsRunning(q)') /\ SameRow("architect_answers") /\ SameRow("steering")
  BY <1>1, <1>2, NobodyStands DEF Stands, Fits, Standing, SameRow, IsRunning
<1>5. ~OpenCycle' /\ ~OpenBatch'  BY <1>3 DEF OpenCycle, OpenBatch, Architecting
<1>6. AnswersAge /\ NotesAge  BY <1>0, <1>1, <1>2, <1>5 DEF AnswersAge, NotesAge
<1> QED  BY <1>0, <1>1, <1>4, <1>6, MovesLeaveRowsBehind DEF BudgetInv

\* A note, written or assembled: none is due for its round any more.
LEMMA NotesMove ==
    ASSUME PromptInv, BudgetInv', UNCHANGED <<graphVars>>, StoreNote \/ SteerWithoutAgent
    PROVE  Prompted'
<1> USE DEF Phase
<1>0. /\ cycle \in Nat /\ Len(assessments) \in Nat /\ Asking \in Nat
      /\ noted <= Len(assessments) /\ doing \in DoingType /\ Shapes /\ Graded
  BY Known DEF BudgetInv
<1>1. /\ UNCHANGED <<borg, cycle, spent, pending, approval, approved, batch, assessments>>
      /\ noted' = Len(assessments)
      /\ doing'.at = "choosing"
  BY <1>0 DEF StoreNote, SteerWithoutAgent, draftVars, gateVars, graphVars, Again, DoingType
<1>2. /\ Basis' = Basis /\ Asking' = Asking /\ OpenCycle' = OpenCycle /\ OpenBatch' = OpenBatch
      /\ \A p \in Phase : Stands(p)' = Stands(p)
  BY <1>1 DEF Basis, Question, Asking, OpenCycle, OpenBatch, Stands, Fits, ReadyToPlan
<1>3. ~NoteDue'
  <2>1. CASE assessments = <<>>  BY <1>1, <2>1 DEF NoteDue, StuckRound
  <2>2. CASE assessments # <<>>
    <3>1. Len(assessments) \in DOMAIN assessments  BY <1>0, <2>2 DEF Shapes
    <3>2. assessments[Len(assessments)].round = Len(assessments)  BY <1>0, <3>1 DEF Graded
    <3> QED  BY <1>1, <3>2 DEF NoteDue
  <2> QED  BY <2>1, <2>2
<1>4. AnswersAge /\ NotesAge  BY <1>0, <1>1, <1>2, <1>3 DEF AnswersAge, NotesAge
<1>5. (\A q \in Phase \ {"steering"} : running'[q] = running[q]) /\ SameRow("steering")
  <2>1. CASE Complete("steering")  BY <1>0, <2>1, EndTouches DEF SameRow, IsRunning
  <2>2. CASE Abandon("steering", "note")
    <3>1. "note" \in Payload["steering"]  BY DEF Payload, NotePayload
    <3> QED  BY <1>0, <2>2, <3>1, AbandonTouches DEF SameRow
  <2> QED  BY <2>1, <2>2 DEF StoreNote, SteerWithoutAgent, TurnGivesNothing
<1>6. \A p \in Phase : RowOK(p)'
  <2>1. SUFFICES ASSUME NEW p \in Phase, IsRunning(p)'  PROVE RowOK(p)'  BY DEF RowOK
  <2>2. CASE p \in Standing
    <3>1. running'[p] = running[p]  BY <1>5, <2>2 DEF Standing
    <3>2. Stands(p) /\ running[p].shown = Basis
      BY <2>1, <2>2, <3>1 DEF PromptInv, Prompted, RowOK, IsRunning
    <3> QED  BY <1>2, <2>2, <3>1, <3>2 DEF RowOK, Standing
  <2>3. CASE p = "architect_answers"
    BY <1>4, <1>5, <2>1, <2>3, AnswersRowAges DEF RowOK, Standing, SameRow, IsRunning, BudgetInv
  <2>4. CASE p = "steering"
    BY <1>4, <1>5, <2>1, <2>4, SteeringRowAges DEF RowOK, Standing, BudgetInv
  <2> QED  BY <2>2, <2>3, <2>4 DEF Standing
<1> QED  BY <1>0, <1>1, <1>6 DEF Prompted, NoteFirst, AtWork

---------------------------------------------------------------------------------
\* Turns are begun for the row that stands, or for what is asked now.
LEMMA DraftingShowsTheBasis ==
    ASSUME PromptInv, SameDecomposition,
           \/ borg.state \in Architecting /\ SteeringTurn("tech_review", cycle)
           \/ QuestionTurn \/ PlanTurn \/ ReviewTurn \/ AssumeAnswers
    PROVE  Prompted'
<1> USE DEF Phase
<1>0. /\ cycle \in Nat /\ Len(assessments) \in Nat /\ Asking \in Nat /\ IInv /\ <<>> \in Request
      /\ running \in [Phase -> Attempt] /\ BudgetInv
  BY Known DEF Request
<1>1. UNCHANGED Stage /\ UNCHANGED approval /\ Choosing
  BY DEF Stage, SteeringTurn, QuestionTurn, PlanTurn, ReviewTurn, AssumeAnswers, ArchitectAtWork,
         draftVars, loopVars, gateVars, SameDecomposition, graphVars
<1>2. \A p \in Phase : RowOK(p)  BY DEF PromptInv, Prompted
<1>3. \A p \in Phase : Stands(p)' = Stands(p)  BY <1>1, StageHolds
<1>4. Basis' = Basis  BY <1>1, StageHolds
<1>5. ASSUME NEW p \in Standing \cap Phase, BeginTurn(p, <<>>, Basis), Stands(p),
             p \in {"architect_questions", "architect_plan"} => ~NoteDue, p # "pm_tasks"
      PROVE  Prompted'
  <2>1. IsRunning(p) => running[p].shown = Basis  BY <1>2, <1>5 DEF RowOK
  <2>2. running'[p].shown = Basis => RowOK(p)'
    BY <1>3, <1>4, <1>5 DEF RowOK, Standing
  <2> QED  BY <1>0, <1>1, <1>5, <2>1, <2>2, BeginShowsTheBasis DEF Standing
<1>6. CASE QuestionTurn
  <2>1. Stands("architect_questions")
    BY <1>0, <1>6 DEF QuestionTurn, ArchitectAtWork, Architecting, Stands, Fits, IInv,
                      StateFollowsTheRecord
  <2> QED  BY <1>5, <1>6, <2>1 DEF QuestionTurn, ArchitectAtWork, Standing
<1>7. CASE PlanTurn
  <2>1. Stands("architect_plan")
    BY <1>0, <1>7 DEF PlanTurn, ArchitectAtWork, Architecting, Stands, Fits, IInv,
                      StateFollowsTheRecord
  <2> QED  BY <1>5, <1>7, <2>1 DEF PlanTurn, ArchitectAtWork, Standing
<1>8. CASE ReviewTurn
  <2>1. CASE BeginTurn("tech_review", <<>>, Basis)
    <3>1. Stands("tech_review")  BY <1>8 DEF ReviewTurn, Stands, Fits
    <3> QED  BY <1>5, <2>1, <3>1 DEF Standing
  <2>2. CASE Exit /\ UNCHANGED running
    BY <1>1, <2>2, LeavingShowsNothing DEF Exit, Idle
  <2> QED  BY <1>8, <2>1, <2>2 DEF ReviewTurn
<1>9. CASE AssumeAnswers
  <2>1. CASE Exit /\ UNCHANGED running
    BY <1>1, <2>1, LeavingShowsNothing DEF Exit, Idle
  <2>2. CASE BeginTurn("architect_answers", Question, Basis)
    <3>1. Question = <<cycle, Asking>> /\ Question \in Request
      BY <1>0, BasisIsShown DEF Question, Asking, Request, BudgetInv
    <3>2. pending /\ ~NoteDue  BY <1>9 DEF AssumeAnswers, ArchitectAtWork
    <3>3. ASSUME IsRunning("architect_answers"), running["architect_answers"].request = Question
          PROVE  running["architect_answers"].shown = Basis
      <4>1. PICK c \in Nat, n \in Nat :
              /\ running["architect_answers"].request = <<c, n>>
              /\ c = cycle /\ n = Asking /\ pending => running["architect_answers"].shown = Basis
        BY <1>2, <3>3 DEF RowOK, AnswersRow
      <4> QED  BY <3>1, <3>2, <3>3, <4>1
    <3>4. ASSUME running'["architect_answers"].request = Question,
                 running'["architect_answers"].shown = Basis
          PROVE  RowOK("architect_answers")'
      <4>1. cycle' = cycle /\ Asking' = Asking  BY <1>1, StageHolds DEF Stage
      <4>2. AnswersRow'  BY <1>0, <1>4, <3>1, <3>4, <4>1 DEF AnswersRow
      <4> QED  BY <4>2 DEF RowOK, Standing
    <3> QED  BY <1>1, <2>2, <3>1, <3>2, <3>3, <3>4, BeginShowsTheBasis
  <2> QED  BY <1>9, <2>1, <2>2 DEF AssumeAnswers
<1>10. CASE borg.state \in Architecting /\ SteeringTurn("tech_review", cycle)
  <2> DEFINE request == <<"tech_review", cycle, Len(assessments)>>
  <2>1. request \in Request  BY <1>0 DEF Request, Loop
  <2>2. NoteDue /\ BeginTurn("steering", request, Basis) /\ OpenCycle
        /\ borg.state # "tech_review_working"
    BY <1>10 DEF SteeringTurn, OpenCycle, Architecting
  <2>3. ASSUME IsRunning("steering"), running["steering"].request = request
        PROVE  running["steering"].shown = Basis
    <3>1. PICK loop \in Loop, scope \in Nat, n \in Nat :
            /\ running["steering"].request = <<loop, scope, n>>
            /\ loop = "tech_review" =>
                 (scope = cycle /\ OpenCycle /\ borg.state # "tech_review_working"
                   /\ n = Len(assessments) /\ NoteDue => running["steering"].shown = Basis)
      BY <1>2, <2>3 DEF RowOK, SteeringRow
    <3>2. loop = "tech_review" /\ scope = cycle /\ n = Len(assessments)  BY <2>3, <3>1
    <3> QED  BY <2>2, <3>1, <3>2
  <2>4. ASSUME running'["steering"].request = request, running'["steering"].shown = Basis
        PROVE  RowOK("steering")'
    <3>1. UNCHANGED <<cycle, assessments>>  BY <1>1 DEF Stage
    <3>2. "tech_review" \in Loop  BY DEF Loop
    <3>3. SteeringRow'
      BY <1>0, <1>4, <2>4, <3>1, <3>2 DEF SteeringRow
    <3> QED  BY <3>3 DEF RowOK, Standing
  <2> HIDE DEF request
  <2> QED  BY <1>1, <2>1, <2>2, <2>3, <2>4, BeginShowsTheBasis
<1> QED  BY <1>6, <1>7, <1>8, <1>9, <1>10

LEMMA DecompositionShowsTheBasis ==
    ASSUME PromptInv, DecompositionTurn
    PROVE  Prompted'
<1> USE DEF Phase
<1>0. /\ approval \in Nat /\ batch \in Nat /\ Len(assessments) \in Nat /\ IInv
      /\ running \in [Phase -> Attempt] /\ BudgetInv
  BY Known DEF IInv, TypesOK
<1>1. UNCHANGED Stage /\ UNCHANGED approval /\ Choosing
  BY DEF Stage, DecompositionTurn, SteeringTurn, PmTurn, PmAtWork, SupervisorTurn, draftVars,
         loopVars, gateVars, graphVars
<1>2. \A p \in Phase : RowOK(p)  BY DEF PromptInv, Prompted
<1>3. Basis' = Basis /\ \A p \in Phase : Stands(p)' = Stands(p)  BY <1>1, StageHolds
<1>4. ASSUME NEW p \in {"pm_tasks", "supervisor_review"}, NEW request \in Request,
             BeginTurn(p, request, Basis), Stands(p), p = "pm_tasks" => ~NoteDue
      PROVE  Prompted'
  <2>1. IsRunning(p) => running[p].shown = Basis  BY <1>2, <1>4 DEF RowOK, Standing
  <2>2. running'[p].shown = Basis => RowOK(p)'
    BY <1>3, <1>4 DEF RowOK, Standing
  <2> QED  BY <1>1, <1>4, <2>1, <2>2, BeginShowsTheBasis
<1>5. CASE PmTurn
  <2>1. CASE Exit /\ UNCHANGED running
    BY <1>1, <2>1, LeavingShowsNothing DEF Exit, Idle
  <2>2. CASE BeginTurn("pm_tasks", <<approval, batch>>, Basis)
    <3>1. <<approval, batch>> \in Request  BY <1>0 DEF Request
    <3>2. Stands("pm_tasks") /\ ~NoteDue  BY <1>5 DEF PmTurn, PmAtWork, Stands, Fits
    <3> QED  BY <1>4, <2>2, <3>1, <3>2
  <2> QED  BY <1>5, <2>1, <2>2 DEF PmTurn
<1>6. CASE SupervisorTurn
  <2>1. <<approval, batch, Len(assessments) + 1>> \in Request  BY <1>0 DEF Request
  <2>2. Stands("supervisor_review")  BY <1>6 DEF SupervisorTurn, Stands, Fits
  <2> QED  BY <1>4, <1>6, <2>1, <2>2 DEF SupervisorTurn
<1>7. CASE borg.state = "pm_working" /\ SteeringTurn("supervisor_review", approval)
  <2> DEFINE request == <<"supervisor_review", approval, Len(assessments)>>
  <2>1. request \in Request  BY <1>0 DEF Request, Loop
  <2>2. /\ NoteDue /\ BeginTurn("steering", request, Basis)
        /\ approval # 0 /\ OpenBatch /\ borg.state = "pm_working"
    BY <1>0, <1>7 DEF SteeringTurn, OpenBatch, IInv, Supervising
  <2>3. ASSUME IsRunning("steering"), running["steering"].request = request
        PROVE  running["steering"].shown = Basis
    <3>1. PICK loop \in Loop, scope \in Nat, n \in Nat :
            /\ running["steering"].request = <<loop, scope, n>>
            /\ loop = "supervisor_review" =>
                 (OpenBatch /\ borg.state = "pm_working" /\ n = Len(assessments) /\ NoteDue
                    => running["steering"].shown = Basis)
      BY <1>2, <2>3 DEF RowOK, SteeringRow
    <3>2. loop = "supervisor_review" /\ n = Len(assessments)  BY <2>3, <3>1
    <3> QED  BY <2>2, <3>1, <3>2
  <2>4. ASSUME running'["steering"].request = request, running'["steering"].shown = Basis
        PROVE  RowOK("steering")'
    <3>1. UNCHANGED <<approval, assessments>>  BY <1>1 DEF Stage
    <3>2. "supervisor_review" \in Loop /\ "supervisor_review" # "tech_review"  BY DEF Loop
    <3>3. SteeringRow'
      BY <1>0, <1>3, <2>2, <2>4, <3>1, <3>2 DEF SteeringRow
    <3> QED  BY <3>3 DEF RowOK, Standing
  <2> HIDE DEF request
  <2> QED  BY <1>1, <2>1, <2>2, <2>3, <2>4, BeginShowsTheBasis
<1> QED  BY <1>5, <1>6, <1>7 DEF DecompositionTurn

---------------------------------------------------------------------------------
\* Turns whose results are refused, or that give none.
LEMMA RefusalsShowNothing ==
    ASSUME PromptInv,
           \/ /\ SameDecomposition
              /\ \/ RejectPlan \/ AskForAssumptions \/ RefuseReview
                 \/ StoreQuestions /\ doing.payload \notin {"ask_more", "ready_to_plan"}
                 \/ StoreAnswers /\ doing.payload # "answers"
           \/ PmUnparsable \/ PmGivesUp \/ PmNoProgress \/ PmInvalidGraph
           \/ RefuseDecision \/ InterruptReview \/ GiveUp
    PROVE  Prompted'
<1> USE DEF draftVars, loopVars, gateVars, graphVars, SameDecomposition, SameDraft, PmFails
<1>0. doing \in DoingType /\ IInv  BY Known
<1>1. UNCHANGED Stage
  BY DEF Stage, RejectPlan, AskForAssumptions, RefuseReview, StoreQuestions, StoreAnswers,
         PmUnparsable, PmGivesUp, PmNoProgress, PmInvalidGraph, RefuseDecision, InterruptReview,
         GiveUp
<1>2. \E p \in Phase : Complete(p)
  BY <1>0 DEF Phase, RejectPlan, AskForAssumptions, RefuseReview, StoreQuestions, StoreAnswers,
         PmUnparsable, PmGivesUp, PmNoProgress, PmInvalidGraph, RefuseDecision, InterruptReview,
         GiveUp, TurnGivesNothing, IInv, Working
<1>3. doing'.at \notin {"agent", "result"}
  <2>1. \/ \E cap : Exit \/ Again \/ Afresh \/ Refuse(cap)
        \/ doing' = [doing EXCEPT !.at = "choosing", !.phase = "none",
                                  !.payload = "none", !.told = TRUE]
    BY DEF RejectPlan, AskForAssumptions, RefuseReview, StoreQuestions, StoreAnswers,
         PmUnparsable, PmGivesUp, PmNoProgress, PmInvalidGraph, RefuseDecision, InterruptReview,
         GiveUp
  <2>2. ASSUME NEW cap, Exit \/ Again \/ Afresh \/ Refuse(cap)
        PROVE  doing'.at \notin {"agent", "result"}
    BY <1>0, <2>2, WaysOn
  <2> QED  BY <1>0, <2>1, <2>2 DEF DoingType
<1> QED  BY <1>1, <1>2, <1>3, LeavingShowsNothing

\* Agents that return or die with their process, and power that is lost.
LEMMA AgentsShowNothing ==
    ASSUME PromptInv, Return \/ Crash \/ PowerLoss
    PROVE  Prompted'
<1> USE DEF draftVars, loopVars, gateVars, graphVars, SameDecomposition, SameDraft
<1>0. doing \in DoingType /\ IInv /\ Shapes /\ BudgetInv  BY Known
<1>1. UNCHANGED Stage  BY DEF Stage, Return, Crash, PowerLoss
<1>2. doing.at = "agent" => doing.phase \in Phase /\ IsRunning(doing.phase)
  BY <1>0 DEF IInv, Working, BudgetInv, Held, AtWork
<1>3. CASE Return
  <2>1. PICK result \in Payloads(doing.phase) :
          /\ running' = [running EXCEPT ![doing.phase].file = result]
          /\ doing' = [doing EXCEPT !.at = "result", !.payload = result]
    BY <1>3 DEF Return, AgentReturns
  <2>2. doing.at = "agent" /\ doing'.phase = doing.phase  BY <1>0, <1>3, <2>1 DEF Return, DoingType
  <2>3. result \in Output  BY <1>2, <2>2, PayloadsAreOutputs DEF Payloads
  <2> QED
    BY <1>0, <1>1, <1>2, <2>1, <2>2, <2>3, WritingTouches, WritingShowsNothing DEF AtWork
<1>4. CASE Crash \/ PowerLoss
  <2>1. doing'.at = "idle"  BY <1>4 DEF Crash, PowerLoss, Die, Exit, Idle
  <2>2. CASE doing.at = "agent"
    <3>1. PICK file \in {"none", "unusable"} :
            running' = [running EXCEPT ![doing.phase].file = file]
      BY <1>4, <2>2 DEF Crash, PowerLoss, Die, TurnRaises
    <3> QED
      BY <1>0, <1>1, <1>2, <2>1, <2>2, <3>1, WritingTouches, WritingShowsNothing DEF AtWork
  <2>3. CASE doing.at # "agent"
    BY <1>1, <1>4, <2>1, <2>3, LeavingShowsNothing DEF Crash, PowerLoss, Die
  <2> QED  BY <2>2, <2>3
<1> QED  BY <1>3, <1>4

\* What happens beside the turns.
LEMMA OthersShowNothing ==
    ASSUME PromptInv, UNCHANGED <<Stage, running>>,
           UNCHANGED doing \/ doing'.at \notin {"agent", "result"}
    PROVE  Prompted'
<1>1. CASE doing'.at \notin {"agent", "result"}  BY <1>1, LeavingShowsNothing
<1>2. CASE UNCHANGED doing
  <2>1. Basis' = Basis /\ NoteDue' = NoteDue  BY StageHolds
  <2>2. \A p \in Phase : RowOK(p)'
    BY RowStays DEF PromptInv, Prompted, IsRunning
  <2> QED  BY <1>2, <2>1, <2>2 DEF PromptInv, Prompted, NoteFirst, AtWork, Stage
<1> QED  BY <1>1, <1>2

LEMMA CommandsShowNothing ==
    ASSUME PromptInv, BudgetInv', Command \/ Approving
    PROVE  Prompted'
<1> USE DEF draftVars, loopVars, gateVars, graphVars, SameDecomposition, Idle, Stage
<1>1. ASSUME NEW unattended \in BOOLEAN, PlanStart(unattended), SameDecomposition
      PROVE  Prompted'
  BY <1>1, OthersShowNothing DEF PlanStart
<1>2. ASSUME NEW unattended \in BOOLEAN, PlanChange(unattended), SameDecomposition
      PROVE  Prompted'
  BY <1>2, OperatorMoves
<1>3. ASSUME ResumeApproval
      PROVE  Prompted'
  BY <1>3, OthersShowNothing DEF ResumeApproval
<1>4. CASE Approving
  <2>1. CASE BindCommit /\ ~UNCHANGED <<borg, approval, running>>
    BY <1>4, <2>1, OperatorMoves DEF Approving
  <2>2. CASE UNCHANGED <<borg, approval, running>>
    <3>1. UNCHANGED <<doing, cycle, spent, pending, assessments, noted, batch, approved>>
      BY <1>4 DEF Approving, Bind, BindRead, BindPublish, BindCommit, BindDies, turnVars
    <3> QED  BY <2>2, <3>1, OthersShowNothing
  <2> QED
    BY <1>4, <2>1, <2>2 DEF Approving, Bind, BindRead, BindPublish, BindDies, turnVars
<1> QED  BY <1>1, <1>2, <1>3, <1>4 DEF Command

LEMMA PublicationShowsNothing ==
    ASSUME PromptInv, BudgetInv', PublicationStep \/ TreeDrifts \/ UNCHANGED planningVars
    PROVE  Prompted'
<1> USE DEF SameRecord, draftVars, loopVars, gateVars, graphVars, turnVars, Stage
<1>0. doing \in DoingType  BY Known
<1>1. CASE BecomeReady  BY <1>1, ReadinessMoves
<1>2. CASE PublicationStep /\ ~BecomeReady
  <2>1. UNCHANGED <<Stage, running>>
    BY <1>2 DEF PublicationStep, BeginPublication, Restage, StageFiles, Rename, VerifyExisting,
                SyncParent, VerifySynced, Promote, CleanUp
  <2>2. Exit \/ \E label \in Place \ {"agent", "result"} : Step(label)
    BY <1>2 DEF PublicationStep, BeginPublication, Restage, StageFiles, Rename, VerifyExisting,
                SyncParent, VerifySynced, Promote, CleanUp, Place
  <2>3. doing'.at \notin {"agent", "result"}
    BY <1>0, <2>2 DEF Exit, Idle, Step, DoingType
  <2> QED  BY <2>1, <2>3, OthersShowNothing
<1>3. CASE TreeDrifts \/ UNCHANGED planningVars
  BY <1>3, OthersShowNothing DEF TreeDrifts, planningVars
<1> QED  BY <1>1, <1>2, <1>3

---------------------------------------------------------------------------------
LEMMA PromptInitial == Init => PromptInv
<1> SUFFICES ASSUME Init  PROVE PromptInv  OBVIOUS
<1>1. /\ running = [p \in Phase |-> NoAttempt] /\ doing = Idle
      /\ noted = 0 /\ assessments = <<>>
  BY DEF Init, InitDrafting
<1>2. Prompted
  BY <1>1 DEF Prompted, NoteFirst, AtWork, Idle, RowOK, IsRunning
<1> QED  BY <1>2, BudgetInitial DEF PromptInv

LEMMA PromptStep == PromptInv /\ [Next]_planningVars => PromptInv'
<1> SUFFICES ASSUME PromptInv, [Next]_planningVars  PROVE PromptInv'  OBVIOUS
<1>0. BudgetInv'  BY BudgetStep DEF PromptInv
<1>1. SUFFICES Prompted'  BY <1>0 DEF PromptInv
<1>2. CASE Work
  <2>1. CASE BeginArchitect /\ SameDecomposition  BY <1>0, <2>1, PlansMove
  <2>2. CASE OperatorAnswers /\ SameDecomposition  BY <1>0, <2>2, OperatorAnswersSafely
  <2>3. CASE DraftingTurn /\ SameDecomposition
    BY <2>3, DraftingShowsTheBasis DEF DraftingTurn
  <2>4. CASE StoreDraft /\ SameDecomposition
    <3>1. CASE StoreNote \/ SteerWithoutAgent
      BY <1>0, <2>4, <3>1, NotesMove DEF SameDecomposition
    <3>2. CASE StoreQuestions \/ StoreOpenPlan
      BY <1>0, <2>4, <3>2, QuestionsMove, RefusalsShowNothing
    <3>3. CASE StoreAnswers
      BY <1>0, <2>4, <3>3, StoredAnswersMove, RefusalsShowNothing
    <3>4. CASE AcceptPlan \/ StoreReview
      BY <1>0, <2>4, <3>4, PlansMove, ReviewsMove
    <3>5. CASE RejectPlan \/ AskForAssumptions \/ RefuseReview
      BY <2>4, <3>5, RefusalsShowNothing
    <3> QED  BY <2>4, <3>1, <3>2, <3>3, <3>4, <3>5 DEF StoreDraft
  <2>5. CASE DecompositionTurn  BY <2>5, DecompositionShowsTheBasis
  <2>6. CASE StoreDecomposition
    BY <1>0, <2>6, BatchesMove, RefusalsShowNothing DEF StoreDecomposition
  <2>7. CASE PublicationStep  BY <1>0, <2>7, PublicationShowsNothing
  <2>8. CASE Return \/ GiveUp  BY <2>8, AgentsShowNothing, RefusalsShowNothing
  <2> QED  BY <1>2, <2>1, <2>2, <2>3, <2>4, <2>5, <2>6, <2>7, <2>8 DEF Work
<1>3. CASE Command \/ Approving  BY <1>0, <1>3, CommandsShowNothing
<1>4. CASE Crash \/ PowerLoss  BY <1>4, AgentsShowNothing
<1>5. CASE TreeDrifts \/ UNCHANGED planningVars  BY <1>0, <1>5, PublicationShowsNothing
<1> QED  BY <1>2, <1>3, <1>4, <1>5 DEF Next

\* In every reachable state an attempt that is still RUNNING was shown the record
\* as it stands, or is of a request that no turn will make again (the requests
\* of planning/turns.py, compared by _stale_context).
THEOREM PromptsAreCurrent == Spec => []PromptInv
BY PromptInitial, PromptStep, PTL DEF Spec

\* For any budgets, caps and bounds, a turn's result is only used for the Borg
\* its agent was shown, however often the turn was interrupted and whoever took
\* it up (planning/turns.py, run and _recover_payload).
THEOREM TurnsAlwaysFitTheirPrompt == Spec => []TurnsFitTheirPrompt
<1>1. PromptInv => TurnsFitTheirPrompt
  BY DEF PromptInv, Prompted, AtWork, TurnsFitTheirPrompt
<1> QED  BY PromptsAreCurrent, <1>1, PTL
=================================================================================
