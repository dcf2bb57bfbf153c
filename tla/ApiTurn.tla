-------------------------------- MODULE ApiTurn --------------------------------
(***************************************************************************)
(* One turn of an agent that is called over its provider's API              *)
(* (agent_runtime/api_adapter.py, anthropic.py, openai.py): a conversation   *)
(* of requests, each repeated while its fault may pass, that ends when the   *)
(* agent submits a result.                                                  *)
(*                                                                         *)
(* A script lists the attempts of the requests in their order.  An attempt  *)
(* is [cancel, fault, reply]: cancel says whether the token is set "before" *)
(* or "during" it, or "no"; fault is None or [kind, status, type]; a reply   *)
(* is [status, stop, sound, id, usage, calls], where sound says whether its  *)
(* content is well formed and usage is [total, cached, written], None when  *)
(* that is malformed.  A call is [name, id, input, cancel]: its input is "good",   *)
(* "bad" (against the schema of a result) or "malformed", and cancel says    *)
(* when the token is set around its execution.                              *)
(***************************************************************************)
EXTENDS Integers, Sequences, FiniteSets, SequencesExt

CONSTANTS
    None,
    MaxAttempts,   \* transient_max_attempts, of each request
    MaxTries,      \* SchemaRetry.max_attempts, of the turn
    MaxTurns,      \* max_turns
    Available      \* the tools granted by role and trust

(***************************************************************************)
(* Faults                                                                  *)
(***************************************************************************)
TransientStatus(provider) ==
    {408, 409, 429, 500, 502, 503, 504} \cup (IF provider = "anthropic" THEN {529} ELSE {})
TransientTypes(provider) ==
    {"api_error", "rate_limit_error"}
    \cup {IF provider = "anthropic" THEN "overloaded_error" ELSE "server_error"}

\* _transport_error and _decode_response: what the transport reports becomes a
\* status or a type; a body that cannot be decoded becomes neither.
Error(fault) ==
    CASE fault.kind \in {"http", "body"} -> [status |-> fault.status, type |-> fault.type]
      [] fault.kind \in {"timeout", "network", "broken"} -> [status |-> None, type |-> "api_error"]
      [] fault.kind \in {"cancelled", "undecodable"} -> [status |-> None, type |-> None]

Transient(provider, error) ==
    error.status \in TransientStatus(provider) \/ error.type \in TransientTypes(provider)

\* _ClassifiedOpenAIRequest: a response that failed with a passing fault is an error.
Failure(provider, attempt) ==
    IF attempt.fault # None THEN Error(attempt.fault)
    ELSE LET error == [status |-> None, type |-> attempt.reply.error]
         IN  IF /\ provider = "openai" /\ attempt.reply.status = "failed"
                /\ Transient(provider, error)
             THEN error ELSE None

(***************************************************************************)
(* Replies                                                                 *)
(***************************************************************************)
Allowed(spec) == IF spec.tools = {} THEN Available ELSE Available \cap spec.tools

\* _response_usage: OpenAI counts cached tokens within its input, Anthropic beside it.
Usage(provider, usage) ==
    CASE usage = None -> None
      [] usage # None /\ provider = "anthropic" ->
            [input |-> usage.total, cached |-> usage.cached, written |-> usage.written]
      [] usage # None /\ provider = "openai" ->
            IF usage.cached + usage.written > usage.total THEN None
            ELSE [input |-> usage.total - usage.cached - usage.written,
                  cached |-> usage.cached, written |-> usage.written]

Submissions(reply) == SelectSeq(reply.calls, LAMBDA c : c.name = "submit")

\* What makes a reply unusable before its usage is recorded, and after.
Unreadable(provider, reply) ==
    \/ provider = "openai" /\ reply.status = "failed"
    \/ ~reply.sound
    \/ Usage(provider, reply.usage) = None
Unusable(provider, reply) ==
    CASE provider = "anthropic" -> reply.calls # <<>> /\ reply.stop # "tool_use"
      [] provider = "openai"    -> ~reply.id \/ reply.status # "completed"

(***************************************************************************)
(* The turn                                                                *)
(***************************************************************************)
Begin ==
    [status |-> "running", attempts |-> 0, spent |-> 0, turns |-> 0, tries |-> 0,
     usage |-> <<>>, executed |-> 0, answers |-> <<>>, payload |-> None, retryable |-> FALSE]

End(turn, status) == [turn EXCEPT !.status = status, !.retryable = status = "cancelled"]

Refusal(spec, cancelled) ==
    CASE spec.billing # "api"                               -> "failed"
      [] spec.billing = "api" /\ cancelled                  -> "cancelled"
      [] spec.billing = "api" /\ ~cancelled /\ ~spec.usable -> "failed"   \* no key, or no directory
      [] OTHER                                              -> None

\* The next request answers the calls of this reply; after max_turns there is none.
Continue(turn) == IF turn.turns = MaxTurns THEN End(turn, "failed") ELSE turn

\* complete: the payload is checked, and sent back while the budget lasts.
Complete(turn, call) ==
    LET rejected == turn.tries + 1
    IN  CASE call.input = "good" -> [End(turn, "completed") EXCEPT !.payload = turn.turns]
          [] call.input = "bad" /\ rejected >= MaxTries -> End(turn, "failed")
          [] call.input = "bad" /\ rejected < MaxTries ->
                IF call.id THEN Continue([turn EXCEPT !.tries = rejected, !.answers = <<"rejected">>])
                ELSE End(turn, "failed")

\* One tool after the other, the token looked at before and after each.  A call
\* that may not be made, or that fails, is answered all the same.
Execute(turn, spec, call) ==
    LET runs == call.name \in Allowed(spec) /\ call.input # "malformed"
        done == [turn EXCEPT !.executed = IF runs THEN @ + 1 ELSE @]
    IN  CASE turn.status # "running" -> turn
          [] turn.status = "running" /\ call.cancel = "before" -> End(turn, "cancelled")
          [] turn.status = "running" /\ call.cancel # "before" /\ ~call.id -> End(turn, "failed")
          [] turn.status = "running" /\ call.cancel # "before" /\ call.id ->
                IF call.cancel = "during" THEN End(done, "cancelled")
                ELSE [done EXCEPT !.answers = Append(@, IF runs THEN "value" ELSE "refused")]

Reply(turn, spec, reply) ==
    LET read == [turn EXCEPT !.spent = 0, !.turns = @ + 1, !.answers = <<>>]
        submitted == Submissions(reply)
        paid == [read EXCEPT !.usage = Append(@, Usage(spec.provider, reply.usage))]
        ran == FoldLeft(LAMBDA t, call : Execute(t, spec, call), paid, reply.calls)
    IN  IF Unreadable(spec.provider, reply) THEN End(read, "failed")
        ELSE IF Unusable(spec.provider, reply) \/ reply.calls = <<>> THEN End(paid, "failed")
        ELSE IF submitted = <<>> THEN IF ran.status = "running" THEN Continue(ran) ELSE ran
        ELSE IF Len(reply.calls) # 1 \/ Head(submitted).input = "malformed" THEN End(paid, "failed")
        ELSE Complete(paid, Head(submitted))

\* ApiRunContext.request: a reply that arrives with the token set is not read.
Attempt(turn, spec, attempt) ==
    LET sent == [turn EXCEPT !.attempts = @ + 1, !.spent = @ + 1]
        error == Failure(spec.provider, attempt)
    IN  CASE turn.status # "running" -> turn
          [] turn.status = "running" /\ attempt.cancel = "before" -> End(turn, "cancelled")
          [] turn.status = "running" /\ attempt.cancel = "during" -> End(sent, "cancelled")
          [] turn.status = "running" /\ attempt.cancel = "no" ->
                CASE error = None -> Reply(sent, spec, attempt.reply)
                  [] error # None /\ ~Transient(spec.provider, error) -> End(sent, "failed")
                  [] error # None /\ Transient(spec.provider, error) ->
                        IF sent.spent = MaxAttempts THEN End(sent, "cancelled") ELSE sent

Turn(spec, script) ==
    LET refused == Refusal(spec, script # <<>> /\ Head(script).cancel = "before")
    IN  IF refused # None THEN End(Begin, refused)
        ELSE FoldLeft(LAMBDA turn, attempt : Attempt(turn, spec, attempt), Begin, script)
=================================================================================
