----------------------------- MODULE MCAgentRuntime -----------------------------
(***************************************************************************)
(* What the agent runtime promises of a turn, over bounded scripts of what   *)
(* the processes and services of the turn do.                               *)
(***************************************************************************)
EXTENDS Integers, Sequences, FiniteSets

LOCAL INSTANCE SequencesExt

CONSTANTS Nothing, Broken

Native == INSTANCE AgentTurn WITH None <- Nothing, MaxAttempts <- 2, MaxTries <- 2
Api == INSTANCE ApiTurn WITH
    None <- Nothing, MaxAttempts <- 2, MaxTries <- 2, MaxTurns <- 3, Available <- {"read", "patch"}

Contract == INSTANCE StrictSchema WITH None <- Nothing, Malformed <- Broken

Estimates == INSTANCE ExecutionEstimate WITH None <- Nothing, BlendCount <- 3, Levels <- {"small", "large"}

(***************************************************************************)
(* Turns of a command line tool                                            *)
(***************************************************************************)
Denied == [failed |-> TRUE, output |-> <<"blank", "launcher">>]
Printed == [failed |-> TRUE, output |-> <<"text", "launcher">>]

Process(exit, answer, envelope, transient, events) ==
    [starts |-> TRUE, exit |-> exit, cancel |-> "no", answer |-> answer, envelope |-> envelope,
     transient |-> transient, events |-> events, usage |-> [input |-> 1, output |-> 2, cached |-> Nothing]]
Good == Process(0, "good", "success", FALSE, <<Printed>>)
Bad == Process(0, "bad", "success", FALSE, <<>>)
Limited == Process(1, "none", "error", TRUE, <<>>)
Mute == Process(0, "none", "success", FALSE, <<>>)
Processes ==
    {Good, Bad, Limited, Mute, Process(1, "good", "none", TRUE, <<>>), Process(1, "bad", "none", TRUE, <<>>),
     Process(0, "good", "success", TRUE, <<Denied>>), Process(1, "none", "none", TRUE, <<Denied>>),
     Process(Native!Killed, "good", "success", FALSE, <<>>),
     [Limited EXCEPT !.cancel = "before"], [Good EXCEPT !.cancel = "after"],
     [Limited EXCEPT !.usage = Nothing], [Good EXCEPT !.starts = FALSE]}
Scripts == UNION {[1..n -> Processes] : n \in 0..3} \cup {p \o <<x>> : p \in [1..3 -> {Bad, Limited}], x \in Processes}

Specs ==
    [provider : {"codex", "claude"}, setting : {"auto", "host"}, readOnly : {TRUE}, writable : {TRUE},
     billing : {"subscription"}, found : {TRUE}]
    \cup {[provider |-> "codex", setting |-> "auto", readOnly |-> FALSE, writable |-> FALSE,
           billing |-> b, found |-> f] : b \in {"subscription", "api"}, f \in BOOLEAN}

Ran(script, n) == SubSeq(script, 1, n)

\* The result of a turn that completed is what its last process wrote, valid against
\* the schema, and what is sent back for correction was written by the process before:
\* the file an earlier attempt left behind is never taken for an answer.
ASSUME CompletedTurnsReturnTheirLastAnswer ==
    \A spec \in Specs, script \in Scripts :
        LET turn == Native!Turn(spec, script)
        IN  /\ turn.status = "completed" =>
                  /\ turn.payload.valid /\ turn.payload.of = turn.attempts
                  /\ script[turn.attempts].answer = "good"
                  /\ turn.resultFile = turn.payload
            /\ turn.status # "completed" => turn.resultFile = Nothing
            /\ turn.tries <= Cardinality({i \in 1..turn.attempts : script[i].answer = "bad"})
            /\ turn.status = "running" /\ turn.attempts > 0 => script[turn.attempts] # Mute

\* A turn stopped by the token or by a fault that did not pass can be taken up again
\* and has no result, even when its process had finished one; nothing else can.
ASSUME OnlyStoppedTurnsCanBeResumed ==
    \A spec \in Specs, script \in Scripts :
        LET turn == Native!Turn(spec, script)
        IN  /\ turn.retryable <=> turn.status = "cancelled"
            /\ turn.status = "cancelled" => turn.payload = Nothing
            /\ turn.status = "completed" => \A i \in 1..turn.attempts : script[i].cancel = "no"

\* Corrections and waits are bounded, and neither spends the budget of the other.
ASSUME TurnsEnd ==
    \A spec \in Specs, script \in Scripts :
        LET turn == Native!Turn(spec, script)
        IN  /\ turn.attempts <= 4
            /\ turn.status = "running" => turn.attempts = Len(script)
            /\ turn.status = "cancelled" /\ turn.exit # Native!Killed /\ turn.attempts > 0 =>
                  turn.spent = 2

\* Codex run without the boundary it asked for never answers and is never retried,
\* and on a host declared isolated the same text of a command is only text.
ASSUME NoAnswerWithoutTheSandbox ==
    \A spec \in Specs, script \in Scripts :
        LET turn == Native!Turn(spec, script)
            denied == {i \in 1..turn.attempts : script[i].events = <<Denied>>}
        IN  spec.provider = "codex" /\ spec.billing = "subscription" /\ spec.found =>
              /\ spec.readOnly /\ spec.setting = "auto" =>
                    /\ denied # {} => turn.status # "completed" /\ denied = {turn.attempts}
              /\ spec.setting = "host" /\ turn.attempts > 0 /\ turn.status = "failed" =>
                    script[turn.attempts] \notin {Good, Process(0, "good", "success", TRUE, <<Denied>>)}

\* Every process that ran is paid for, the rejected and the limited ones too, and a
\* cost that nobody reported is unknown and not zero.
ASSUME EveryAttemptIsPaidFor ==
    \A spec \in Specs, script \in Scripts :
        LET turn == Native!Turn(spec, script)
            told == {i \in 1..turn.attempts : script[i].starts /\ script[i].usage # Nothing}
        IN  turn.status \in {"completed", "cancelled"} =>
              IF told = {} THEN turn.usage = Nothing
              ELSE turn.usage = [input |-> Cardinality(told), output |-> 2 * Cardinality(told),
                                 cached |-> Nothing]

\* The buckets of Codex's usage are disjoint: they add up to what each turn reported.
ASSUME BucketsDoNotOverlap ==
    LET Reports == [input : 0..3, cached : 0..2, written : 0..1, output : {1}]
        Fits(t) == t.cached + t.written <= t.input
    IN  \A turns \in UNION {[1..n -> Reports] : n \in 1..2} :
            LET u == Native!CodexUsage(turns)
                whole == FoldLeft(LAMBDA n, t : n + t.input, 0, turns)
            IN  /\ u.input >= 0
                /\ (\A i \in DOMAIN turns : Fits(turns[i])) => u.input + u.cached + u.written = whole

(***************************************************************************)
(* Turns over an API                                                       *)
(***************************************************************************)
Call(name, input) == [name |-> name, id |-> TRUE, input |-> input, cancel |-> "no"]
Submit(input) == Call("submit", input)
Use == [total |-> 3, cached |-> 1, written |-> 1]
Answer(calls) ==
    [status |-> "completed", stop |-> "tool_use", sound |-> TRUE, id |-> TRUE, usage |-> Use,
     error |-> Nothing, calls |-> calls]
Sent(reply) == [cancel |-> "no", fault |-> Nothing, reply |-> reply]
Fault(kind, status, type) ==
    [cancel |-> "no", fault |-> [kind |-> kind, status |-> status, type |-> type], reply |-> Nothing]

Reads == Sent(Answer(<<Call("read", "good"), Call("write", "good"), Call("patch", "malformed")>>))
Outage == Fault("timeout", Nothing, Nothing)
Turns ==
    {Sent(Answer(<<Submit("good")>>)), Sent(Answer(<<Submit("bad")>>)), Reads, Outage,
     Sent([Answer(<<>>) EXCEPT !.status = "failed", !.error = "server_error"])}
Endings ==
    Turns \cup
    {Sent(Answer(<<Submit("good"), Call("read", "good")>>)),
     Sent(Answer(<<[Submit("bad") EXCEPT !.id = FALSE]>>)),
     Sent(Answer(<<[Call("read", "good") EXCEPT !.cancel = "during"], Call("patch", "good")>>)),
     Sent(Answer(<<Call("read", "good"), [Call("patch", "good") EXCEPT !.cancel = "before"]>>)),
     Sent([Answer(<<Submit("good")>>) EXCEPT !.stop = "max_tokens", !.status = "incomplete"]),
     Sent([Answer(<<Submit("good")>>) EXCEPT !.usage = [total |-> 1, cached |-> 1, written |-> 1]]),
     Fault("http", 529, "overloaded_error"), Fault("body", 400, Nothing),
     [Sent(Answer(<<Submit("good")>>)) EXCEPT !.cancel = "during"],
     [Sent(Answer(<<Submit("good")>>)) EXCEPT !.cancel = "before"]}
Talks == {p \o <<e>> : p \in UNION {[1..n -> Turns] : n \in 0..3}, e \in Endings}

ApiSpecs ==
    [provider : {"anthropic", "openai"}, billing : {"api"}, usable : {TRUE}, tools : {{}, {"read"}}]
    \cup {[provider |-> "openai", billing |-> "subscription", usable |-> TRUE, tools |-> {}],
          [provider |-> "openai", billing |-> "api", usable |-> FALSE, tools |-> {}]}

\* The replies that the turn has read, and the calls it may have made.
ReadReplies(spec, talk, turn) ==
    LET read == SelectSeq(SubSeq(talk, 1, turn.attempts), LAMBDA a : Api!Failure(spec.provider, a) = Nothing)
    IN  [i \in 1..turn.turns |-> read[i].reply]

\* A conversation goes on only with an answer to every call of the last reply, the
\* refused and the malformed ones included.
ASSUME EveryCallIsAnswered ==
    \A spec \in ApiSpecs, talk \in Talks :
        LET turn == Api!Turn(spec, talk)
            read == ReadReplies(spec, talk, turn)
        IN  turn.status = "running" /\ turn.turns > 0 =>
              Len(turn.answers) = Len(read[turn.turns].calls)

\* A turn completes with the one result its last reply submitted, whole and alone;
\* never with a result that arrived as the token was set, or was cut short.
ASSUME ResultsAreSubmittedAlone ==
    \A spec \in ApiSpecs, talk \in Talks :
        LET turn == Api!Turn(spec, talk)
            read == ReadReplies(spec, talk, turn)
        IN  turn.status = "completed" =>
              /\ turn.payload = turn.turns
              /\ read[turn.turns].calls = <<Submit("good")>>
              /\ IF spec.provider = "openai" THEN read[turn.turns].status = "completed"
                 ELSE read[turn.turns].stop = "tool_use"
              /\ \A i \in 1..turn.attempts : talk[i].cancel = "no"
              /\ \A i \in 1..turn.turns : \A k \in DOMAIN read[i].calls : read[i].calls[k].cancel = "no"

\* No tool is run once the token is set, and none that the role was not granted.
ASSUME ToolsStopWithTheToken ==
    \A spec \in ApiSpecs, talk \in Talks :
        LET turn == Api!Turn(spec, talk)
            read == ReadReplies(spec, talk, turn)
            granted == IF spec.tools = {} THEN {"read", "patch"} ELSE spec.tools
            Before(i, k) == \A m \in 1..k :
                read[i].calls[m].cancel = "no" \/ (m = k /\ read[i].calls[m].cancel = "during")
            Due(i) == {k \in DOMAIN read[i].calls :
                         /\ Before(i, k)
                         /\ read[i].calls[k].name \in granted
                         /\ read[i].calls[k].input = "good"}
            due == UNION {{<<i, k>> : k \in Due(i)} : i \in 1..turn.turns}
        IN  turn.executed <= Cardinality(due)

\* A conversation ends: waits, corrections and turns are bounded together.
ASSUME ConversationsEnd ==
    \A spec \in ApiSpecs, talk \in Talks :
        LET turn == Api!Turn(spec, talk)
        IN  /\ turn.attempts <= 6 /\ turn.turns <= 3 /\ turn.tries < 2 /\ turn.spent <= 2
            /\ turn.status = "running" => turn.turns < 3 /\ turn.attempts = Len(talk)
            /\ turn.retryable <=> turn.status = "cancelled"

\* Every reply that was read is paid for once, whatever became of it, and its cached
\* tokens are not counted twice.
ASSUME RepliesArePaidForOnce ==
    \A spec \in ApiSpecs, talk \in Talks :
        LET turn == Api!Turn(spec, talk)
            read == ReadReplies(spec, talk, turn)
            Paid(u) == IF spec.provider = "openai" THEN u.input + u.cached + u.written ELSE u.input
        IN  /\ \/ Len(turn.usage) = turn.turns
               \/ turn.status = "failed" /\ Len(turn.usage) = turn.turns - 1
            /\ \A i \in DOMAIN turn.usage : Paid(turn.usage[i]) = read[i].usage.total

(***************************************************************************)
(* Result contracts                                                        *)
(***************************************************************************)
Str(c) == <<"str", <<c>>>>
Num(n) == <<"num", 2 * n>>
Obj(r) == <<"obj", r>>
Arr(s) == <<"arr", s>>
Empty == Obj(<<>>)

Text == [type |-> {"string"}]
Closed(properties, required) ==
    [type |-> {"object"}, properties |-> properties, required |-> required,
     additionalProperties |-> <<"forbidden">>]
Ref(name) == "$ref" :> name
Leaves ==
    {Text, [type |-> {"string"}, minLength |-> 2], [type |-> {"string", "null"}],
     [type |-> {"string"}, enum |-> {Str("a"), Str("b")}], [enum |-> {Str("a"), Contract!Null}],
     [const |-> Num(1)], [description |-> "anything"], [type |-> {"integer"}, minimum |-> 2],
     Closed([c |-> Text], {}), Ref("d"),
     [type |-> {"array"}, items |-> Closed([c |-> Ref("d")], {}), maxItems |-> 1]}
Defs == {Text, [type |-> {"null", "integer"}], [const |-> Contract!Null], Closed([c |-> Text], {"c"})}
Rooted(leaf, required, def) ==
    Closed([a |-> leaf, b |-> Text], required) @@ ("$defs" :> [d |-> def])
ContractShapes == {Rooted(leaf, r, def) : leaf \in Leaves, r \in SUBSET {"a", "b"}, def \in Defs}

Inner == {Empty, Obj([c |-> Str("a")]), Obj([c |-> Contract!Null])}
Held == {Contract!Null, Str("a"), Str("z"), Num(0), Num(1), <<"num", 1>>} \cup Inner
        \cup {Arr(<<>>)} \cup {Arr(<<v>>) : v \in Inner} \cup {Arr(<<v, Empty>>) : v \in Inner}
ContractPayloads ==
    {Empty} \cup {Obj([a |-> v]) : v \in Held} \cup {Obj([b |-> v]) : v \in {Str("a"), Contract!Null}}
    \cup {Obj([a |-> v, b |-> w]) : v \in Held, w \in {Str("a"), Contract!Null}}

\* What Codex may answer under the schema it was given fits the contract once the
\* placeholders are gone, up to the bounds only the local validation knows.
ASSUME PlaceholdersLeaveNoTrace ==
    \A contract \in ContractShapes, payload \in ContractPayloads :
        LET sent == Contract!Normalize(contract)
        IN  Contract!Accepts(sent, payload) =>
              Contract!Accepts(Contract!Relaxed(contract), Contract!Strip(payload, contract, contract))

\* Every answer the contract allows can be given: padded with nulls it fits the schema
\* that is sent, and it comes back as an answer the contract allows, with all that was said in it.
ASSUME EveryAnswerCanBeGiven ==
    \A contract \in ContractShapes, payload \in ContractPayloads :
        LET padded == Contract!Padded(payload, contract, contract)
        IN  Contract!Accepts(contract, payload) =>
              /\ Contract!Accepts(Contract!Normalize(contract), padded)
              /\ Contract!Accepts(contract, Contract!Strip(padded, contract, contract))
              /\ DOMAIN payload[2] \subseteq DOMAIN Contract!Strip(padded, contract, contract)[2]

Unioned(leaf) ==
    {[anyOf |-> <<leaf, Text>>], [oneOf |-> <<leaf>>], [not |-> leaf], [allOf |-> <<leaf, Text>>],
     [type |-> {"object"}, additionalProperties |-> <<"schema", leaf>>], [items |-> leaf]}
Odd == ("format" :> "date") @@ Text

\* A contract with a keyword that is not supported accepts nothing, wherever the
\* keyword stands and whatever the value looks like.
ASSUME UnknownKeywordsRejectEverything ==
    \A value \in Held \cup ContractPayloads :
        /\ \A schema \in Unioned(Odd) : ~Contract!Accepts(schema, value)
        /\ ~Contract!Accepts(Rooted(Text, {}, Odd), value)
        /\ ~Contract!Accepts([type |-> Broken], value)

\* A reference that does not resolve accepts nothing by itself, and nothing more than
\* before within a schema that neither negates nor counts its branches; negated, it
\* accepts everything.
ASSUME LostReferencesAcceptNoMore ==
    \A value \in Held \cup ContractPayloads :
        /\ ~Contract!Accepts(Ref("lost"), value)
        /\ \A r \in SUBSET {"a", "b"}, leaf \in Leaves :
              Contract!Accepts(Rooted(Ref("lost"), r, Text), value) =>
                  Contract!Accepts(Rooted(leaf, r, Text), value)
        /\ Contract!Accepts([anyOf |-> <<Ref("lost"), Text>>], value) => Contract!Accepts(Text, value)
        /\ Contract!Accepts([not |-> Ref("lost")], value)

\* A number is no Boolean: TRUE and 1 are told apart by constants and enumerations.
ASSUME BooleansAreNotNumbers ==
    \A value \in {<<"bool", TRUE>>, Num(1)}, other \in {<<"bool", TRUE>>, Num(1)} :
        /\ Contract!Accepts([const |-> value], other) <=> value = other
        /\ Contract!Accepts([enum |-> {value}], other) <=> value = other
        /\ Contract!Accepts([type |-> {"integer"}], other) <=> other = Num(1)

\* The result read from an answer is a whole value of it and no part of one, and a
\* fenced value is preferred to what stands before it.
ASSUME AnswersAreTakenWhole ==
    LET Parts == {[fenced |-> f, value |-> v] : f \in BOOLEAN, v \in {Str("a"), Obj([c |-> Arr(<<Empty>>)]), Arr(<<Empty>>)}}
    IN  \A text \in [1..2 -> Parts], prose \in BOOLEAN :
          LET taken == Contract!ExtractJson(text, prose)
              values == {text[i].value : i \in {k \in 1..2 : Contract!Brackets(text[k].value) # <<>>}}
              fenced == {i \in 1..2 : text[i].fenced /\ text[i].value \in values}
          IN  /\ taken \in values \cup {Nothing}
              /\ taken = Nothing <=> values = {}
              /\ fenced # {} => taken \in {text[i].value : i \in fenced}

(***************************************************************************)
(* Estimates                                                               *)
(***************************************************************************)
Tokens(n) == [f \in Estimates!Fields |-> n]
Everywhere(usage) == [phase \in Estimates!Phases |-> usage]
Prior(time, n) ==
    [time |-> [p50 |-> time, p80 |-> 2 * time],
     usage |-> Everywhere([p50 |-> Tokens(n), p80 |-> Tokens(2 * n)])]
Priors ==
    {[small |-> Prior(2, 4), large |-> Prior(4, 8)], [small |-> Prior(2, 4), large |-> Nothing],
     [small |-> Nothing, large |-> Prior(4, 8)]}

Sample(level, duration, usage) == [level |-> level, duration |-> duration, usage |-> Everywhere(usage)]
Untold == [Tokens(1) EXCEPT !.cache_read = Nothing]
Measured ==
    {Sample("small", 1, Tokens(1)), Sample("small", 9, Tokens(9)), Sample("small", Nothing, Untold),
     Sample("large", 3, Untold), Sample("large", Nothing, Tokens(3))}
Histories == UNION {[1..n -> Measured] : n \in 0..2}
LongHistories == [1..3 -> Measured]
Mixes == UNION {[1..n -> {"small", "large", "unsized"}] : n \in 0..2}

Rates == [input |-> 2, cache_read |-> 1, cache_write |-> Nothing, output |-> 5]
Bill(adapter, price) == [mode |-> Estimates!Mode(adapter), price |-> price]
Billings ==
    {Everywhere(Bill("openai", Rates)), Everywhere(Bill("codex", Nothing)),
     [Everywhere(Bill("claude", Nothing)) EXCEPT !.merge = Bill("anthropic", Rates)],
     [Everywhere(Bill("openai", Rates)) EXCEPT !.review = Bill("openai", Nothing)],
     [Everywhere(Bill("openai", Rates)) EXCEPT !.review = Bill("other", Nothing)]}

Ordered(range) == range # Nothing => range.p50 <= range.p80
NoLess(before, after) ==
    before # Nothing /\ after # Nothing => before.p50 <= after.p50 /\ before.p80 <= after.p80

\* The pessimistic figure is never below the likely one, and planning more work never
\* makes the estimate smaller or an unknown one known.
ASSUME EstimatesGrowWithTheWork ==
    \A history \in Histories, billing \in Billings, priors \in Priors :
        \A tasks \in Mixes :
            LET now == Estimates!Estimate(tasks, history, billing, priors)
            IN  /\ Ordered(now.time) /\ Ordered(now.api)
                /\ \A more \in {"small", "large", "unsized"} :
                      LET next == Estimates!Estimate(Append(tasks, more), history, billing, priors)
                      IN  /\ NoLess(now.time, next.time) /\ NoLess(now.api, next.api)
                          /\ now.time = Nothing => next.time = Nothing
                          /\ now.unknown => next.unknown

\* A price is named only when every task is sized and every phase that an API runs
\* has a known model and known usage: what is unknown is never counted as free.
ASSUME UnknownIsNeverFree ==
    \A tasks \in Mixes, history \in Histories, billing \in Billings, priors \in Priors :
        LET now == Estimates!Estimate(tasks, history, billing, priors)
            unsized == \E i \in DOMAIN tasks : tasks[i] = "unsized"
        IN  /\ now.api # Nothing =>
                  /\ ~unsized
                  /\ \A phase \in Estimates!Phases :
                        billing[phase].mode = "subscription" \/ billing[phase].price # Nothing
                  /\ now.api.p50 > 0
            /\ now.time # Nothing => ~unsized /\ now.estimable = Len(tasks)
            /\ \A i \in DOMAIN tasks :
                  /\ tasks[i] = "large" /\ priors["large"] = Nothing
                  /\ \A k \in DOMAIN history : history[k] # Sample("large", 3, Untold)
                  => now.time = Nothing

\* The percentile is the smallest measurement that is enough for its part of them.
ASSUME PercentilesAreReached ==
    \A values \in UNION {[1..n -> 0..2] : n \in 1..5}, tenths \in {5, 8} :
        LET chosen == Estimates!Percentile(values, tenths)
            Enough(v) == 10 * Cardinality({i \in DOMAIN values : values[i] <= v}) >= tenths * Len(values)
        IN  \E i \in DOMAIN values :
              /\ values[i] = chosen /\ Enough(chosen)
              /\ \A k \in DOMAIN values : values[k] < chosen => ~Enough(values[k])

\* An estimate lies between the prior and what was measured, and once enough was
\* measured the prior is forgotten; the order of the measurements is not a fact.
ASSUME MeasurementsTakeOver ==
    \A history \in Histories \cup LongHistories :
        LET Small(priors) == Estimates!LevelTime("small", history, priors)
            known == {history[i].duration : i \in {k \in DOMAIN history : history[k].level = "small"}} \ {Nothing}
            count == Cardinality({k \in DOMAIN history : history[k].level = "small" /\ history[k].duration # Nothing})
            swapped == [i \in DOMAIN history |-> history[Len(history) + 1 - i]]
            with == [small |-> Prior(2, 4), large |-> Nothing]
            without == [small |-> Nothing, large |-> Nothing]
        IN  /\ count >= 3 => Small(with) = Small(without)
            /\ \A p \in {"p50", "p80"} :
                  /\ \E low, high \in known \cup {with.small.time[p]} :
                        3 * low <= Small(with)[p] /\ Small(with)[p] <= 3 * high
                  /\ count = 1 => 3 * Small(with)[p] = 6 * with.small.time[p] + Small(without)[p]
            /\ Estimates!LevelTime("small", swapped, with) = Small(with)
            /\ Estimates!LevelUsage("small", "merge", swapped, with) = Estimates!LevelUsage("small", "merge", history, with)
=================================================================================
