------------------------------ MODULE RepositoryAnalysis ------------------------------
(***************************************************************************)
(* What an analysis must say to be kept (repo_analysis/analyzer.py) and     *)
(* how its recommendations are scored and ranked (repo_analysis/scoring.py).*)
(* Scores and deltas are integers and ratios are compared crosswise, where  *)
(* the code divides floats; texts are model values or small strings.        *)
(*                                                                         *)
(*   rubrics         [package -> [dimension -> reported score, or None]]    *)
(*   recommendation  [id, package, dimension, delta, group, evidence]       *)
(*   theme           [id, members, effort], members being identities        *)
(*   citation        a sequence of parts [path, rest], one for each text    *)
(*                   between semicolons; rest is "" after a bare path,      *)
(*                   "#" and "#x" for an empty and a named anchor, "/x" for *)
(*                   a place below the path and "/.." for one outside       *)
(***************************************************************************)
EXTENDS Integers, Sequences, FiniteSets, FiniteSetsExt, SequencesExt

CONSTANTS None, Dimension, Index

(***************************************************************************)
(* Scores                                                                  *)
(***************************************************************************)
Best == 5
EffortCost == [S |-> 1, M |-> 2, L |-> 3]

\* _dimension_score: what is missing or no number counts as zero.
Score(rubrics, package, dimension) ==
    LET reported == rubrics[package][dimension]
    IN  IF reported = None THEN 0 ELSE Max({0, Min({Best, reported})})

\* score_repository, before the division by the dimensions and the packages, which are
\* the same for every package and every theme.
RepositoryPoints(rubrics) ==
    MapThenSumSet(LAMBDA cell : Score(rubrics, cell[1], cell[2]), (DOMAIN rubrics) \X Dimension)

(***************************************************************************)
(* Themes                                                                  *)
(***************************************************************************)
Target(rec) == <<rec.package, rec.dimension>>
Group(rec) == IF rec.group = None THEN <<"recommendation", rec.id>> ELSE <<"overlap", rec.group>>

\* _score_recommendation
EffectiveDelta(rubrics, rec) == Min({rec.delta, Best - Score(rubrics, rec.package, rec.dimension)})

\* _theme_dimension_changes: of one group only the largest delta counts.
Proposed(recs, target) ==
    LET own == {rec \in recs : Target(rec) = target}
    IN  MapThenSumSet(LAMBDA group : Max({rec.delta : rec \in {r \in own : Group(r) = group}}),
                      {Group(rec) : rec \in own})
Effective(rubrics, recs, target) ==
    Min({Proposed(recs, target), Best - Score(rubrics, target[1], target[2])})

\* The normalised impact, before the same division.
Impact(rubrics, recs) ==
    MapThenSumSet(LAMBDA target : Effective(rubrics, recs, target), {Target(rec) : rec \in recs})

Members(recommendations, theme) == {rec \in ToSet(recommendations) : rec.id \in theme.members}

\* The sort key: the impact per effort, the impact, and the identity.
Precedes(a, b) ==
    LET left == a.impact * EffortCost[b.effort]
        right == b.impact * EffortCost[a.effort]
    IN  \/ left > right
        \/ left = right /\ a.impact > b.impact
        \/ left = right /\ a.impact = b.impact /\ a.id < b.id

Unique(items) == \A i, k \in DOMAIN items : items[i].id = items[k].id => i = k

\* rank_recommendation_themes raises, or orders the themes.
Rankable(rubrics, recommendations, themes) ==
    /\ DOMAIN rubrics # {}
    /\ Unique(recommendations) /\ Unique(themes)
    /\ \A rec \in ToSet(recommendations) : rec.package \in DOMAIN rubrics
    /\ \A theme \in ToSet(themes) : theme.members \subseteq {rec.id : rec \in ToSet(recommendations)}

Ranked(rubrics, recommendations, themes) ==
    SetToSortSeq({[id |-> theme.id, effort |-> theme.effort,
                   impact |-> Impact(rubrics, Members(recommendations, theme))] : theme \in ToSet(themes)},
                 Precedes)

\* validate_recommendation: the workspace index is dropped, the rest must be discovered.
Supported(rec, known) ==
    LET evidence == rec.evidence \ {Index} IN evidence # {} /\ evidence \subseteq known

(***************************************************************************)
(* Harness evidence                                                        *)
(***************************************************************************)
\* A bare name, such as that of a file, is a citation of one path.
Bare(path) == <<[path |-> path, rest |-> ""]>>

\* _source: a citation of the workspace index is none.
Source(citation) ==
    IF citation = None THEN None
    ELSE LET first == citation[1]
             indexed == first.path = Index /\ (first.rest \in {"#", "#x"} \/ citation = Bare(Index))
         IN  IF indexed THEN None ELSE citation
Sources(citations) == {Source(c) : c \in citations} \ {None}

\* _source_is_in_manifest looks at the whole text: what follows an anchor belongs to it,
\* and what follows a path's slash is only searched for parent directories.
InManifest(citation, known) ==
    LET first == citation[1]
    IN  /\ first.path \in known
        /\ CASE first.rest = "" -> Len(citation) = 1
             [] first.rest = "#" -> Len(citation) > 1
             [] first.rest = "#x" -> TRUE
             [] first.rest = "/x" -> \A i \in DOMAIN citation : citation[i].rest # "/.."
             [] first.rest = "/.." -> FALSE

\* _unknown_citation_parts: a list is tried part by part.
UnknownParts(citation, known) ==
    IF InManifest(citation, known) THEN {}
    ELSE IF Len(citation) < 2 \/ Bare("")[1] \in ToSet(citation) THEN {citation}
    ELSE {part \in {<<p>> : p \in ToSet(citation)} : ~InManifest(part, known)}

\* _validate_harness_evidence.  A harness is
\*   catalog      [own, commands]: its citation and those of its commands
\*   environment  [own, files, records, managers]: also the files it names
\*   compose      [own, file, files]: a file is [own, path]
\*   secrets      the citations of the required secrets
\*   services     [own, ports] for each service
Cited(h) ==
    Sources({h.catalog.own} \cup h.catalog.commands
            \cup {h.environment.own} \cup h.environment.records
            \cup {h.compose.own} \cup {file.own : file \in h.compose.files}
            \cup h.secrets \cup {s.own : s \in h.services} \cup UNION {s.ports : s \in h.services})
    \cup {Bare(path) : path \in h.environment.files}
    \cup {Bare(path) : path \in ({h.compose.file} \cup {file.path : file \in h.compose.files}) \ {None}}

Backed(citation, groups) == {Source(citation)} \cup groups # {None}

EnvironmentSources(h) == {Source(h.environment.own)} \cup {Bare(path) : path \in h.environment.files}

NothingUncited(h) ==
    /\ \A c \in h.catalog.commands : Backed(c, {Source(h.catalog.own)})
    /\ \A c \in h.environment.records : Backed(c, EnvironmentSources(h))
    /\ h.environment.managers => EnvironmentSources(h) # {None}
    /\ \A file \in h.compose.files : file.path # None \/ Backed(file.own, {Source(h.compose.own)})
    /\ \A c \in h.secrets : Source(c) # None
    /\ \A s \in h.services : Source(s.own) # None

HarnessIsSupported(h, known) ==
    NothingUncited(h) /\ \A citation \in Cited(h) : UnknownParts(citation, known) = {}

(***************************************************************************)
(* _persist_payload keeps an analysis only when all of it holds.           *)
(***************************************************************************)
Kept(payload, known) ==
    LET rubrics == [p \in ToSet(payload.packages) |-> payload.rubrics[p]]
    IN  /\ IsInjective(payload.packages)
        /\ payload.monorepo = (Len(payload.packages) > 1)
        /\ \A rec \in ToSet(payload.recommendations) : Supported(rec, known)
        /\ HarnessIsSupported(payload.harness, known)
        /\ Rankable(rubrics, payload.recommendations, payload.themes)
================================================================================
