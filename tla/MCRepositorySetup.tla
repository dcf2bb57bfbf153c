------------------------------ MODULE MCRepositorySetup ------------------------------
(***************************************************************************)
(* What setting up and analysing a repository promises.  The homes that     *)
(* processes can leave are few enough to be listed: Closure collects what   *)
(* every order of the steps, crashes and restarts of a scenario reaches.    *)
(***************************************************************************)
EXTENDS Integers, Sequences, FiniteSets

CONSTANTS Unset

PromptRoles == {"coding", "review"}
Inside == INSTANCE RepositorySetup WITH None <- Unset, Roles <- PromptRoles, Relocated <- FALSE
Raced == INSTANCE RepositorySetup WITH None <- Unset, Roles <- {"coding"}, Relocated <- FALSE
Moved == INSTANCE RepositorySetup WITH None <- Unset, Roles <- {"coding"}, Relocated <- TRUE

RECURSIVE Closure(_, _, _)
Closure(Next(_), seen, new) ==
    IF new = {} THEN seen
    ELSE LET next == UNION {Next(s) : s \in new} \ seen
         IN  Closure(Next, seen \cup next, next)

\* A scenario is [home, procs, faults]: faults bounds the crashes and restarts left.
Begin(home, procs, faults) == [home |-> home, procs |-> procs, faults |-> faults]
Gone(p) == p.at \in Inside!Ended
Idle(s) == \A i \in DOMAIN s.procs : Gone(s.procs[i])

Fresh == <<"f1", "f2", "f3", "f4">>
Stepped(s, i, outcomes, faults) ==
    {[home |-> o.home, procs |-> [s.procs EXCEPT ![i] = o.p], faults |-> faults] : o \in outcomes}
Moves(Step(_, _), s) == UNION {Stepped(s, i, Step(s.home, s.procs[i]), s.faults) : i \in DOMAIN s.procs}
Crashes(s) ==
    UNION {IF Gone(s.procs[i]) \/ s.faults = 0 THEN {}
           ELSE Stepped(s, i, Inside!Crash(s.home, s.procs[i]), s.faults - 1) : i \in DOMAIN s.procs}
Restarts(s, kinds) ==
    {Begin(s.home, <<Inside!Process(k, "r1", Fresh[s.faults])>>, s.faults - 1) :
        k \in IF Idle(s) /\ s.faults > 0 THEN kinds ELSE {}}
Losses(s, Lose(_)) == IF Idle(s) /\ s.faults > 0 THEN {[s EXCEPT !.home = Lose(@), !.faults = @ - 1]} ELSE {}

Initialiser == Inside!Process("init", "r1", "a")
Rival(root) == Inside!Process("init", root, "b")

From(Next(_), start) == Closure(Next, start, start)

\* One process at a time, interrupted anywhere, with the state directory or the prompts
\* of an unfinished initialisation thrown away.
AloneNext(s) ==
    Moves(Inside!Steps, s) \cup Crashes(s) \cup Restarts(s, {"init"}) \cup Losses(s, Inside!StateLost)
    \cup (IF s.home.recorded = {} THEN Losses(s, Inside!PromptsLost) ELSE {})
Alone == From(AloneNext, {Begin(Inside!Blank, <<Initialiser>>, 3)})

\* The same, with a checkout that takes the tracked files away.
SwitchedNext(s) == Moves(Raced!Steps, s) \cup Crashes(s) \cup Restarts(s, {"init"}) \cup Losses(s, Raced!TrackedLost)
Switched == From(SwitchedNext, {Begin(Raced!Blank, <<Initialiser>>, 2)})

\* Two processes at once, in one repository or, with a relocated directory, in two.
RaceNext(s) == Moves(Raced!Steps, s)
Race == From(RaceNext, {Begin(Raced!Blank, <<Initialiser, Rival("r1")>>, 0)})
SharedNext(s) == Moves(Moved!Steps, s) \cup Losses(s, Moved!StateLost) \cup Restarts(s, {"init"})
Shared == From(SharedNext, {Begin(Moved!Blank, <<Initialiser, Rival("r2")>>, 2)})

\* An initialised repository that is analysed again and again.
Initialised == {s.home : s \in {t \in From(RaceNext, {Begin(Raced!Blank, <<Initialiser>>, 0)}) : t.procs[1].at = "done"}}
AnalyzedNext(s) == Moves(Raced!Steps, s) \cup Crashes(s) \cup Restarts(s, {"analyze"})
Analyzed == From(AnalyzedNext, {Begin(home, <<Inside!Process("analyze", "r1", "c")>>, 2) : home \in Initialised})

\* Everything that was produced for one analysis.
Complete(home, n) ==
    /\ n # 0 /\ home.score = n /\ home.prds = {n}
    /\ \A role \in DOMAIN home.files : home.files[role] = n /\ home.latest[role] = n

\* A recorded initialisation has an analysis and all its outputs, however often it was
\* interrupted and whatever was left of an earlier one.
ASSUME InitializedMeansComplete ==
    \A s \in Alone :
        s.home.recorded # {} => s.home.recorded = {s.home.config} /\ Complete(s.home, Inside!Latest(s.home, s.home.config))

\* An interrupted initialisation can be finished by the next one, unless the analysis it
\* left names two files alike, which no later step replaces, or the tracked identity was
\* lost while the database still holds another one for this root.
ASSUME InterruptedSetupsResume ==
    \A home \in {s.home : s \in {t \in Switched : Idle(t)}} :
        LET start == {Begin(home, <<Inside!Process("init", "r1", "z")>>, 0)}
            finished == \E s \in From(RaceNext, start) : s.procs[1].at = "done"
            id == IF home.config = Unset THEN "z" ELSE home.config
            found == Inside!Latest(home, id)
            clashes == found # 0 /\ home.analyses[found].clashes /\ id \notin home.recorded
            other == \E row \in home.rows : row[1] # id
        IN  finished <=> ~clashes /\ ~other

\* One tracked directory serves one repository, however many processes begin at once
\* and even after the database that knew the repository is gone.
ASSUME HomesServeOneRepository ==
    \A s \in Shared :
        /\ \A row \in s.home.rows : row[2] = s.home.claim
        /\ \A i \in DOMAIN s.procs : s.procs[i].at \notin Inside!Ended \cup {"start"} => s.procs[i].root = s.home.claim
        /\ \A t \in Moves(Moved!Steps, s) : s.home.claim # Unset => t.home.claim = s.home.claim

\* Two initialisers of one repository agree on its identity: the file that was published
\* first.  Whoever finishes has all outputs when only one of them ran the analysis.
ASSUME RacesAgree ==
    \A s \in Race :
        /\ \A t \in RaceNext(s) : s.home.config # Unset => t.home.config = s.home.config
        /\ Cardinality(s.home.rows) <= 1 /\ s.home.recorded \subseteq {s.home.config}
        /\ \A i \in DOMAIN s.procs : s.procs[i].at = "done" => s.procs[i].id = s.home.config
        /\ Idle(s) /\ s.home.recorded # {} /\ Len(s.home.analyses) = 1 => s.home.score = 1 /\ s.home.prds = {1}

\* With two analyses the outputs may be mixed, and each may have removed the other's PRDs.
ASSUME RacesMayLosePrds ==
    \E s \in Race : (\A i \in DOMAIN s.procs : s.procs[i].at = "done") /\ s.home.prds = {}

\* An analysis that finishes refreshes every output, also those that an interrupted one
\* left half done; one that does not leaves the earlier analysis in place.
ASSUME AnalysesRefreshEverything ==
    \A s \in Analyzed :
        LET p == s.procs[1]
        IN  /\ p.at = "done" /\ p.kind = "analyze" => p.analysis = Len(s.home.analyses) /\ Complete(s.home, p.analysis)
            /\ \A t \in RaceNext(s) : SubSeq(t.home.analyses, 1, Len(s.home.analyses)) = s.home.analyses

(***************************************************************************)
(* Scores, themes and evidence                                             *)
(***************************************************************************)
Rubric == INSTANCE RepositoryAnalysis WITH None <- Unset, Dimension <- {"ci", "docs"}, Index <- "index"

Rubrics == {[p \in {"p", "q"} |-> [d \in {"ci", "docs"} |-> s[p]]] : s \in [{"p", "q"} -> {Unset, 3, 7}]}
Recommendations(id) ==
    [id : {id}, package : {"p", "q"}, dimension : {"ci", "docs"}, delta : {1, 4}, group : {Unset, "g"}]
Raised(rubrics, recs) ==
    [p \in DOMAIN rubrics |-> [d \in DOMAIN rubrics[p] |->
        Rubric!Score(rubrics, p, d)
        + (IF \E rec \in recs : rec.package = p /\ rec.dimension = d THEN Rubric!Effective(rubrics, recs, <<p, d>>) ELSE 0)]]

\* The impact a theme is ranked by is what the repository's score gains when the theme is
\* carried out, and two themes together never gain more than the sum of theirs.
ASSUME ImpactIsTheGain ==
    \A rubrics \in Rubrics : \A a \in Recommendations(1), b \in Recommendations(2), c \in Recommendations(3) :
        LET all == Rubric!Impact(rubrics, {a, b, c})
            pair == Rubric!Impact(rubrics, {a, b})
        IN  /\ Rubric!RepositoryPoints(Raised(rubrics, {a, b, c})) = Rubric!RepositoryPoints(rubrics) + all
            /\ pair <= all /\ all <= pair + Rubric!EffectiveDelta(rubrics, c)

\* Themes with different identities have one order.
ASSUME RankingIsTotal ==
    LET Entries == [id : 1..3, effort : {"S", "M", "L"}, impact : 0..4]
    IN  \A a, b \in Entries :
            /\ a.id # b.id => (Rubric!Precedes(a, b) <=> ~Rubric!Precedes(b, a))
            /\ Rubric!Precedes(a, b) => \A c \in Entries : Rubric!Precedes(b, c) => Rubric!Precedes(a, c)

Known == {"a", "b"}
Parts == [path : {"a", "b", "c", "index", ""}, rest : {"", "#", "#x", "/x", "/.."}]
Citations == [1..1 -> Parts] \cup [1..2 -> Parts]
Accepted(citation) == Rubric!UnknownParts(citation, Known) = {}

\* An accepted citation begins with a discovered file, but one that begins with an
\* anchor or a place below that file may go on with files nobody discovered.
ASSUME OnlyLaterPartsEscape ==
    /\ \A c \in Citations : Accepted(c) =>
        /\ c[1].path \in Known
        /\ c[1].rest = "" => \A i \in DOMAIN c : Accepted(<<c[i]>>)
    /\ \A rest \in {"#", "#x", "/x"} :
        \E c \in Citations : c[1].rest = rest /\ Accepted(c) /\ \E i \in DOMAIN c : ~Accepted(<<c[i]>>)

\* No claim of an accepted harness rests on the workspace index or on nothing.
Texts == {Unset} \cup {Rubric!Bare(path) : path \in {"a", "c", "index"}}
OneOf(S) == {{}} \cup {{x} : x \in S}
Harnesses ==
    LET none == [catalog |-> [own |-> Unset, commands |-> {}],
                 environment |-> [own |-> Unset, files |-> {}, records |-> {}, managers |-> FALSE],
                 compose |-> [own |-> Unset, file |-> Unset, files |-> {}], secrets |-> {}, services |-> {}]
    IN  {[none EXCEPT !.catalog = x] : x \in [own : Texts, commands : OneOf(Texts)]}
        \cup {[none EXCEPT !.environment = x] :
                x \in [own : Texts, files : OneOf({"a", "index"}), records : OneOf(Texts), managers : BOOLEAN]}
        \cup {[none EXCEPT !.compose = x] :
                x \in [own : Texts, file : {Unset, "a"}, files : OneOf([own : Texts, path : {Unset, "a", "c"}])]}
        \cup {[none EXCEPT !.secrets = x, !.services = y] :
                x \in OneOf(Texts), y \in OneOf([own : Texts, ports : OneOf(Texts)])}
ASSUME ClaimsRestOnDiscoveredFiles ==
    LET Real(citations) == \E c \in citations \ {Unset} : c[1].path \in Known
    IN  \A h \in {x \in Harnesses : Rubric!HarnessIsSupported(x, Known)} :
            LET named == {Rubric!Bare(path) : path \in h.environment.files}
            IN  /\ \A c \in h.catalog.commands : Real({c, h.catalog.own})
                /\ \A c \in h.environment.records : Real({c, h.environment.own} \cup named)
                /\ h.environment.managers => Real({h.environment.own} \cup named)
                /\ \A f \in h.compose.files : Real({f.own, h.compose.own}) \/ f.path \in Known
                /\ \A c \in h.secrets : Real({c})
                /\ \A s \in h.services : Real({s.own})
================================================================================
