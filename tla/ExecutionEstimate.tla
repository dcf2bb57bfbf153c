--------------------------- MODULE ExecutionEstimate ---------------------------
(***************************************************************************)
(* What a plan's execution is expected to take before it is approved        *)
(* (execution_estimate.py, agent_runtime/pricing.py): priors that the       *)
(* completions of the repository replace, the more of them there are.       *)
(*                                                                         *)
(* A range is [p50, p80].  Times are counted in fifths, so that what is     *)
(* blended from whole numbers stays whole.  A usage gives the tokens of     *)
(* each field, None where they were not reported; a sample is [level,       *)
(* duration, usage], its usage a function from the phases to a usage or     *)
(* None; billing gives each phase its [mode, price], where price is None    *)
(* for a model the catalog does not know.                                   *)
(***************************************************************************)
EXTENDS Integers, Sequences, FiniteSets, SequencesExt, FiniteSetsExt

CONSTANTS
    None,
    BlendCount,   \* LOCAL_BLEND_SAMPLE_COUNT
    Levels        \* the complexities a task may be sized with

Fields == {"input", "cache_read", "cache_write", "output"}
Phases == {"coding", "review", "merge"}

(***************************************************************************)
(* Percentiles and blends                                                  *)
(***************************************************************************)
CeilDiv(a, b) == (a + b - 1) \div b

\* _percentile: the smallest sample that at least the given part does not exceed.
Percentile(values, tenths) ==
    LET rank == CeilDiv(tenths * Len(values), 10)
        ordered == SortSeq(values, <)
    IN  ordered[IF rank < 1 THEN 1 ELSE rank]

RangeOf(values) == [p50 |-> Percentile(values, 5), p80 |-> Percentile(values, 8)]

\* In units of 1/BlendCount.
Blend(prior, local, n) == prior * (BlendCount - n) + local * n

\* _blended_range
TimeRange(durations, prior) ==
    LET local == RangeOf(durations)
        n == Len(durations)
    IN  CASE n = 0 /\ prior = None -> None
          [] n = 0 /\ prior # None -> [p \in {"p50", "p80"} |-> BlendCount * prior[p]]
          [] n > 0 /\ (prior = None \/ n >= BlendCount) -> [p \in {"p50", "p80"} |-> BlendCount * local[p]]
          [] n > 0 /\ prior # None /\ n < BlendCount ->
                [p \in {"p50", "p80"} |-> Blend(prior[p], local[p], n)]

Complete(usage) == usage # None /\ \A f \in Fields : usage[f] # None

\* _usage_percentile: each field by itself.
UsageAt(usages, tenths) ==
    [f \in Fields |-> Percentile([i \in DOMAIN usages |-> usages[i][f]], tenths)]

Rounded(n) == (2 * n + BlendCount) \div (2 * BlendCount)
BlendUsage(prior, local, n) == [f \in Fields |-> Rounded(Blend(prior[f], local[f], n))]

\* _blended_usage
UsageRange(usages, prior) ==
    LET local == [p50 |-> UsageAt(usages, 5), p80 |-> UsageAt(usages, 8)]
        n == Len(usages)
    IN  CASE n = 0 -> prior
          [] n > 0 /\ (prior = None \/ n >= BlendCount) -> local
          [] n > 0 /\ prior # None /\ n < BlendCount ->
                [p50 |-> BlendUsage(prior.p50, local.p50, n), p80 |-> BlendUsage(prior.p80, local.p80, n)]

\* _source_for_samples
Source(n, prior) ==
    IF n = 0 THEN IF prior = None THEN "unknown" ELSE "prior"
    ELSE IF prior = None \/ n >= BlendCount THEN "local" ELSE "prior+local"

(***************************************************************************)
(* Prices                                                                  *)
(***************************************************************************)
\* estimate_api_cost_usd: a cache that has no price of its own is priced as input.
Rate(price, field) ==
    IF field \in {"cache_read", "cache_write"} /\ price[field] = None THEN price.input ELSE price[field]

Cost(price, usage) ==
    IF price = None \/ ~Complete(usage) THEN None
    ELSE MapThenSumSet(LAMBDA f : usage[f] * Rate(price, f), Fields)

(***************************************************************************)
(* The estimate                                                            *)
(***************************************************************************)
\* phase_billing_from_config: only an API is billed by what it is used for.
Mode(adapter) ==
    CASE adapter \in {"anthropic", "openai"} -> "api"
      [] adapter \in {"claude", "codex"}     -> "subscription"
      [] OTHER                               -> None

CountOf(tasks, level) == Len(SelectSeq(tasks, LAMBDA t : t = level))
Unsized(tasks) == Len(SelectSeq(tasks, LAMBDA t : t \notin Levels))

LevelTime(level, samples, priors) ==
    LET measured == SelectSeq(samples, LAMBDA s : s.level = level /\ s.duration # None)
        prior == priors[level]
    IN  TimeRange([i \in DOMAIN measured |-> measured[i].duration],
                  IF prior = None THEN None ELSE prior.time)

LevelUsage(level, phase, samples, priors) ==
    LET measured == SelectSeq(samples, LAMBDA s : s.level = level /\ Complete(s.usage[phase]))
        prior == priors[level]
    IN  UsageRange([i \in DOMAIN measured |-> measured[i].usage[phase]],
                   IF prior = None THEN None ELSE prior.usage[phase])

Used(tasks) == {level \in Levels : CountOf(tasks, level) > 0}

\* Nobody knows how long a task takes that has no size, no sample and no prior.
UntimedTasks(tasks, samples, priors) ==
    Unsized(tasks)
    + MapThenSumSet(LAMBDA level : CountOf(tasks, level),
                    {level \in Levels : LevelTime(level, samples, priors) = None})

Time(tasks, samples, priors) ==
    IF UntimedTasks(tasks, samples, priors) > 0 THEN None
    ELSE [p \in {"p50", "p80"} |->
            MapThenSumSet(LAMBDA level : CountOf(tasks, level) * LevelTime(level, samples, priors)[p],
                          Used(tasks))]

ApiPhases(billing) == {phase \in Phases : billing[phase].mode = "api"}

\* The price of one task of a level in one phase, or None.
PhaseCost(level, phase, p, samples, billing, priors) ==
    LET usage == LevelUsage(level, phase, samples, priors)
    IN  IF usage = None THEN None ELSE Cost(billing[phase].price, usage[p])

ApiPresent(tasks, billing) == tasks # <<>> /\ ApiPhases(billing) # {}
ApiUnknown(tasks, samples, billing, priors) ==
    \/ tasks # <<>> /\ \E phase \in Phases : billing[phase].mode = None
    \/ ApiPresent(tasks, billing) /\ Unsized(tasks) > 0
    \/ \E level \in Used(tasks), phase \in ApiPhases(billing), p \in {"p50", "p80"} :
          PhaseCost(level, phase, p, samples, billing, priors) = None

ApiCost(tasks, samples, billing, priors) ==
    IF ~ApiPresent(tasks, billing) \/ ApiUnknown(tasks, samples, billing, priors) THEN None
    ELSE [p \in {"p50", "p80"} |->
            MapThenSumSet(LAMBDA level : CountOf(tasks, level)
                * MapThenSumSet(LAMBDA phase : PhaseCost(level, phase, p, samples, billing, priors),
                                ApiPhases(billing)), Used(tasks))]

\* estimate_generation
Estimate(tasks, samples, billing, priors) ==
    [estimable |-> Len(tasks) - UntimedTasks(tasks, samples, priors),
     time |-> Time(tasks, samples, priors),
     unknown |-> ApiUnknown(tasks, samples, billing, priors),
     api |-> ApiCost(tasks, samples, billing, priors),
     subscription |-> {phase \in Phases : billing[phase].mode = "subscription"}]
=================================================================================
