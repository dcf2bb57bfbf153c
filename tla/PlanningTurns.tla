---------------------------- MODULE PlanningTurns ----------------------------
(***************************************************************************)
(* Durable planning turns (planning/turns.py): how one process runs the    *)
(* agent of a phase so that a turn interrupted anywhere is taken up again. *)
(*                                                                         *)
(* A turn is a row: it is appended RUNNING with the request it answers,    *)
(* its agent leaves a result file, and the caller completes the row in the *)
(* transaction that writes what the result means.  A row is named by its   *)
(* phase: rows that have ended are kept by the modules that read them      *)
(* again, as what they say.                                                *)
(***************************************************************************)
EXTENDS Integers, Sequences, FiniteSets

Phase == {"architect_questions", "architect_answers", "architect_plan",
          "tech_review", "steering", "pm_tasks", "supervisor_review"}

\* What the agent of a phase may return.  "malformed" and the bad ones satisfy
\* the schema and fail the checks their caller makes; what fails the schema is a
\* turn that gives nothing.
QuestionsPayload == {"ask_more", "ready_to_plan", "malformed"}
AnswersPayload == {"answers", "malformed"}
PlanPayload == {"plan", "silent_plan", "open_plan", "bad_plan"}
ReviewPayload == {"approve", "request_changes", "malformed"}
NotePayload == {"note"}
TasksPayload == {"batch", "same_batch", "bad_graph"}
DecisionPayload == {"approve", "request_changes", "malformed"}

Payload == [
    architect_questions |-> QuestionsPayload,
    architect_answers   |-> AnswersPayload,
    architect_plan      |-> PlanPayload,
    tech_review         |-> ReviewPayload,
    steering            |-> NotePayload,
    pm_tasks            |-> TasksPayload,
    supervisor_review   |-> DecisionPayload]

VARIABLES
    running,  \* per phase, its RUNNING attempt, or NoAttempt
    doing     \* the planning process: where it is and what it holds in memory

turnVars == <<running, doing>>

\* request: planning_attempts.request; file: the result file the attempt names;
\* shown: the record its prompt was rendered from, as the properties read it.
NoAttempt == [request |-> <<>>, shown |-> <<>>, file |-> "no attempt"]
IsRunning(p) == running[p] # NoAttempt

\* at: "idle" without a process, "choosing" between turns or, with a phase,
\* within one that has no attempt yet, "agent" while the agent of a phase runs,
\* "result" with its payload, else a step of the task publisher.  failures: outputs refused so far by this loop; told: it has asked
\* once for unnamed assumptions; unattended: nobody answers questions.
Idle == [at |-> "idle", phase |-> "none", payload |-> "none", failures |-> 0,
         told |-> FALSE, unattended |-> FALSE]

IsIdle == doing.at = "idle"
Choosing == doing.at = "choosing"
WithAgent(p) == doing.at = "agent" /\ doing.phase = p
WithResult(p) == doing.at = "result" /\ doing.phase = p

Exit == doing' = Idle
\* Back to the loop, in the same loop object or in a fresh one.
Again == doing' = [doing EXCEPT !.at = "choosing", !.phase = "none", !.payload = "none"]
Afresh == doing' = [Idle EXCEPT !.at = "choosing", !.unattended = doing.unattended]
\* Mutant: the same loop asks again however often it was refused.
RefuseForEver(cap) == Again

\* An output refused: the same loop asks again, up to its cap.
Refuse(cap) ==
    IF doing.failures + 1 < cap
    THEN doing' = [doing EXCEPT !.at = "choosing", !.phase = "none",
                                !.payload = "none", !.failures = @ + 1]
    ELSE Exit

\* complete_planning_attempt
Complete(p) == running' = [running EXCEPT ![p] = NoAttempt]

(***************************************************************************)
(* DurablePlanningTurns.run, asked to answer a request.  now is what its    *)
(* prompt would be rendered from.                                          *)
(***************************************************************************)
\* Mutant: an open attempt is taken up whatever it was asked.
AnyRequest(attempt, request) == TRUE

\* stale_context is empty
SameRequest(attempt, request) == attempt.request = request

\* An open attempt that answers another request, or left an unusable file.
DiscardAttempt(p, request) ==
    /\ IsRunning(p)
    /\ \/ ~SameRequest(running[p], request)
       \/ running[p].file = "unusable"
    /\ Complete(p)
    /\ doing' = [doing EXCEPT !.phase = p]

\* _recover_payload: the result of the interrupted turn is used as it stands.
RecoverResult(p, request) ==
    /\ IsRunning(p) /\ SameRequest(running[p], request)
    /\ running[p].file \in Payload[p]
    /\ doing' = [doing EXCEPT !.at = "result", !.phase = p, !.payload = running[p].file]
    /\ UNCHANGED running

\* _start_attempt, or the same attempt invoked again.
InvokeAgent(p, request, now) ==
    /\ IsRunning(p) => SameRequest(running[p], request) /\ running[p].file = "none"
    /\ running' = [running EXCEPT ![p] = [request |-> request, shown |-> now, file |-> "none"]]
    /\ doing' = [doing EXCEPT !.at = "agent", !.phase = p]

BeginTurn(p, request, now) ==
    \/ DiscardAttempt(p, request)
    \/ RecoverResult(p, request)
    \/ InvokeAgent(p, request, now)

AgentReturns(payloads) ==
    /\ doing.at = "agent"
    /\ \E result \in payloads :
         /\ running' = [running EXCEPT ![doing.phase].file = result]
         /\ doing' = [doing EXCEPT !.at = "result", !.payload = result]

\* The turn raises: the agent or its worktree fails, and the attempt stays open.
\* A file that holds a result is a turn that returned and was not completed.
TurnRaises(p) ==
    \E file \in {"none", "unusable"} : running' = [running EXCEPT ![p].file = file]

\* The turn ends without a usable payload: its status or schema is refused
\* (FAILED), or it was cancelled (CANCELLED).  Either way its row has ended.
TurnGivesNothing(p) == Complete(p)

\* An attempt left open that no request will fit again is discarded whatever its
\* file holds: let it be a result.
Abandon(p, result) ==
    running' = IF IsRunning(p) THEN [running EXCEPT ![p].file = result] ELSE running

\* The process dies.  An agent at work may have written part of its file.
Die ==
    /\ ~IsIdle
    /\ IF doing.at = "agent" THEN TurnRaises(doing.phase) ELSE UNCHANGED running
    /\ Exit
=============================================================================
