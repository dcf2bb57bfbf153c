------------------------------- MODULE AgentTurn -------------------------------
(***************************************************************************)
(* One turn of an agent that is a native command line tool                  *)
(* (agent_runtime/native_cli.py, retry.py, codex.py, claude.py): transient  *)
(* errors are waited out, a result that misses its schema is sent back with *)
(* what was wrong, and every attempt is paid for.                           *)
(*                                                                         *)
(* A script lists what the processes of the turn do, in their order.  An    *)
(* attempt is                                                              *)
(*   starts    whether the process could be started                         *)
(*   exit      its exit code, Killed if the token stopped it                *)
(*   cancel    when the token is set: "before" the attempt is begun,        *)
(*             "after" its process ended, or "no"                           *)
(*   answer    the kind of result it leaves: "none", "bad" (against the     *)
(*             schema) or "good"                                            *)
(*   envelope  what the last record of the log says of the run: "success",  *)
(*             "error" or "none"                                            *)
(*   transient whether the log has a marker of a passing fault              *)
(*   events    the commands of the log, see LauncherFailed                  *)
(*   usage     what it reports of its costs, or None                        *)
(* and Refusal says when a turn ends before its first attempt.              *)
(***************************************************************************)
EXTENDS Integers, Sequences, FiniteSets, SequencesExt

CONSTANTS
    None,
    MaxAttempts,   \* transient_max_attempts
    MaxTries       \* SchemaRetry.max_attempts

Killed == -1

(***************************************************************************)
(* Evidence                                                                *)
(***************************************************************************)
\* _sandbox_for: an operator who declared the host isolated gets no second boundary.
Sandboxed(spec) == spec.setting # "host" /\ spec.readOnly

\* _sandbox_launcher_failure: the launcher speaks before the command it denies, so
\* only the first line that is not blank can be its own.
FirstLine(output) == SelectSeq(output, LAMBDA line : line # "blank")
LauncherFailed(events) ==
    \E i \in DOMAIN events :
        /\ events[i].failed
        /\ FirstLine(events[i].output) # <<>>
        /\ Head(FirstLine(events[i].output)) = "launcher"

SandboxFailed(spec, attempt) == Sandboxed(spec) /\ LauncherFailed(attempt.events)

\* What load_payload finds: Codex in a file of its own, Claude in its log.
Loaded(spec, attempt, file) ==
    CASE spec.provider = "codex"  -> IF SandboxFailed(spec, attempt) THEN None ELSE file
      [] spec.provider = "claude" -> IF attempt.envelope = "success" THEN file ELSE None

AcceptsNonzeroExit(spec) == spec.provider = "codex"

\* A boundary that cannot be built will not be built by the next attempt either.
CodexTransient(spec, attempt, file) ==
    LET left == Loaded(spec, attempt, file)
    IN  /\ attempt.exit # 0
        /\ left = None \/ ~left.valid
        /\ ~SandboxFailed(spec, attempt)
        /\ attempt.transient

\* What the envelope says goes before the words of the log.
ClaudeTransient(attempt) ==
    CASE attempt.envelope = "error"   -> attempt.transient
      [] attempt.envelope = "success" -> FALSE
      [] attempt.envelope = "none"    -> attempt.exit # 0 /\ attempt.transient

IsTransient(spec, attempt, file) ==
    IF spec.provider = "codex" THEN CodexTransient(spec, attempt, file) ELSE ClaudeTransient(attempt)

(***************************************************************************)
(* Usage                                                                   *)
(***************************************************************************)
Fields == {"input", "output", "cached"}

\* combine_agent_usage: what nobody reported stays unknown.
Total(reports, field) ==
    LET known == SelectSeq(reports, LAMBDA u : u[field] # None)
    IN  IF known = <<>> THEN None ELSE FoldLeft(LAMBDA n, u : n + u[field], 0, known)
Combined(reports) ==
    LET told == SelectSeq(reports, LAMBDA u : u # None)
    IN  IF told = <<>> THEN None ELSE [f \in Fields |-> Total(told, f)]

\* Codex counts cached tokens within its input: the buckets must not overlap.
Fresh(turn) == LET rest == turn.input - turn.cached - turn.written IN IF rest > 0 THEN rest ELSE 0
CodexUsage(turns) ==
    LET Sum(Of(_)) == FoldLeft(LAMBDA n, t : n + Of(t), 0, turns)
    IN  IF turns = <<>> THEN None
        ELSE [input |-> Sum(Fresh), cached |-> Sum(LAMBDA t : t.cached),
              written |-> Sum(LAMBDA t : t.written), output |-> Sum(LAMBDA t : t.output)]

(***************************************************************************)
(* The turn                                                                *)
(***************************************************************************)
\* `spent' are the attempts since the last correction, `tries' the rejected results.
Begin ==
    [status |-> "running", attempts |-> 0, spent |-> 0, tries |-> 0, file |-> None,
     payload |-> None, exit |-> None, reports |-> <<>>, usage |-> None,
     retryable |-> FALSE, resultFile |-> None]

\* run: the checks before anything is started.
Refusal(spec, cancelled) ==
    CASE spec.billing # "subscription"                              -> "failed"
      [] spec.billing = "subscription" /\ cancelled                 -> "cancelled"
      [] spec.billing = "subscription" /\ ~cancelled /\ ~spec.found -> "failed"
      [] OTHER                                                      -> None

End(turn, status, exit) ==
    [turn EXCEPT !.status = status, !.exit = exit, !.usage = Combined(turn.reports),
                 !.retryable = status = "cancelled"]

\* A process that cannot be started ends the turn without the usage of the others.
NotStarted(turn) == [turn EXCEPT !.status = "failed"]

\* run_once: what an earlier attempt left is removed, then the process runs.
RunOnce(turn, attempt) ==
    LET cleared == None
        n == turn.attempts + 1
    IN  [turn EXCEPT
            !.attempts = n,
            !.spent = @ + 1,
            !.file = IF attempt.answer = "none" THEN cleared
                     ELSE [valid |-> attempt.answer = "good", of |-> n],
            !.reports = IF attempt.starts THEN Append(@, attempt.usage) ELSE @]

\* The part of _run_native that reads the outcome of a process that was not retried.
Read(turn, spec, attempt) ==
    LET payload == IF attempt.exit = 0 \/ AcceptsNonzeroExit(spec)
                   THEN Loaded(spec, attempt, turn.file) ELSE None
        rejected == turn.tries + 1
    IN  CASE payload = None -> End(turn, "failed", attempt.exit)
          [] payload # None /\ payload.valid /\ spec.writable ->
                [End(turn, "completed", attempt.exit) EXCEPT
                    !.payload = payload, !.resultFile = payload]
          [] payload # None /\ payload.valid /\ ~spec.writable ->
                [End(turn, "failed", attempt.exit) EXCEPT !.payload = payload]
          [] payload # None /\ ~payload.valid /\ rejected < MaxTries ->
                [turn EXCEPT !.tries = rejected, !.spent = 0]
          [] payload # None /\ ~payload.valid /\ rejected >= MaxTries ->
                End(turn, "failed", attempt.exit)

\* run_with_transient_retry, and what is made of its outcome.
Attempt(turn, spec, attempt) ==
    LET ran == RunOnce(turn, attempt)
        again == IsTransient(spec, attempt, ran.file)
    IN  CASE turn.status # "running" -> turn
          [] turn.status = "running" /\ attempt.cancel = "before" -> End(turn, "cancelled", Killed)
          [] turn.status = "running" /\ attempt.cancel # "before" ->
                CASE ~attempt.starts -> NotStarted(ran)
                  [] attempt.starts /\ (attempt.exit = Killed \/ attempt.cancel = "after") ->
                        End(ran, "cancelled", Killed)
                  [] attempt.starts /\ attempt.exit # Killed /\ attempt.cancel = "no" ->
                        CASE again /\ ran.spent = MaxAttempts -> End(ran, "cancelled", attempt.exit)
                          [] again /\ ran.spent < MaxAttempts -> ran
                          [] ~again -> Read(ran, spec, attempt)

Turn(spec, script) ==
    LET refused == Refusal(spec, script # <<>> /\ Head(script).cancel = "before")
    IN  IF refused # None THEN [Begin EXCEPT !.status = refused, !.retryable = refused = "cancelled"]
        ELSE FoldLeft(LAMBDA turn, attempt : Attempt(turn, spec, attempt), Begin, script)
=================================================================================
