---------------------------- MODULE MCPlanValidation ----------------------------
(***************************************************************************)
(* What the two validators promise, over bounded plans and task graphs: the *)
(* Architect's plan is refused or accepted by PlanContracts, its tasks by   *)
(* TaskValidation, and the second one must be able to accept something for  *)
(* whatever the first one accepts.                                         *)
(***************************************************************************)
EXTENDS Naturals, Sequences, FiniteSets

CONSTANTS None, R1, R2

LOCAL INSTANCE SequencesExt
Contracts == INSTANCE PlanContracts
Tasks == INSTANCE TaskValidation

(***************************************************************************)
(* Cycles                                                                  *)
(***************************************************************************)
\* What leads to what, in any number of steps.
RECURSIVE Beyond(_, _, _)
Beyond(next, S, steps) ==
    IF steps = 0 THEN S
    ELSE Beyond(next, S \cup UNION {ToSet(next[i]) : i \in S}, steps - 1)
Reached(next, i) == Beyond(next, ToSet(next[i]), Cardinality(DOMAIN next))

Knots(next) ==
    {c \in SUBSET DOMAIN next :
        \E i \in c : c = {j \in DOMAIN next : j \in Reached(next, i) /\ i \in Reached(next, j)}}

Neighbours == {<<>>, <<1>>, <<2>>, <<3>>, <<1, 2>>, <<2, 1>>, <<3, 1>>, <<2, 3>>, <<1, 3>>, <<1, 2, 3>>}

\* The two searches of _cycle_findings find the sets of tasks that need one
\* another, whatever the order in which the tasks and their edges come.
ASSUME SearchFindsTheKnots ==
    \A next \in [1 .. 3 -> Neighbours], roots \in {<<1, 2, 3>>, <<3, 1, 2>>} :
        Tasks!CyclicComponents(next, roots) = Knots(next)

(***************************************************************************)
(* Plans                                                                   *)
(***************************************************************************)
Checkout == [files |-> {<<"old", 0>>}, others |-> {}]
Path(name) == [shape |-> "plain", name |-> name, positions |-> 0]
File(r, role) == [repository |-> r, path |-> Path(IF role = "new" THEN "new" ELSE "old"), role |-> role]

PhaseOf(i) ==
    [number : {i}, slug : {"a"}, needs : {<<>>, << <<1, "a">> >>},
     repositories : {<<>>, <<R1>>, <<R1, R2>>},
     files : {<<File(None, "new")>>, <<File(R1, "read")>>},
     contracts : {<<>>, <<None>>, <<R1, R2>>}]

Plan(repositories, phases) ==
    [blank |-> FALSE, repositories |-> repositories, phases |-> phases, pointers |-> <<>>, open |-> 0]

Accepted ==
    {p \in {Plan(rs, phases) : rs \in {<<>>, <<R1>>, <<R1, R2>>},
                               phases \in {<<x>> : x \in PhaseOf(1)}
                                     \cup {<<x, y>> : x \in PhaseOf(1), y \in PhaseOf(2)}} :
        Contracts!ValidPlan(p, Checkout,
            [r \in IF Len(p.repositories) = 2 THEN {R2} ELSE {} |-> Checkout], FALSE)}

\* The plan as the validator of its tasks sees it.
Elements(phase) ==
    {[kind |-> k, number |-> 1, repository |-> None]
        : k \in {"deliverable", "acceptance", "test_strategy", "goal"}}
    \cup {[kind |-> "contract", number |-> k, repository |-> phase.contracts[k]]
            : k \in DOMAIN phase.contracts}

Approved(plan) ==
    [repositories |-> ToSet(plan.repositories), context |-> 1,
     phases |-> [i \in DOMAIN plan.phases |->
        [name |-> i, writes |-> ToSet(plan.phases[i].repositories),
         needs |-> {n[1] : n \in ToSet(plan.phases[i].needs)},
         elements |-> Elements(plan.phases[i])]]]

(***************************************************************************)
(* Decompositions                                                          *)
(***************************************************************************)
Task(id, stage, stem, repository, refs) ==
    [id |-> id, generation |-> 1, stage |-> stage, stem |-> stem, complexity |-> "small",
     declared |-> None, repository |-> repository, refs |-> refs]

\* A task for each repository that a phase writes: it owns what is in that
\* repository, the first one also what is in no particular one.
Homes(plan, i) ==
    IF plan.phases[i].writes # {} THEN SetToSeq(plan.phases[i].writes)
    ELSE IF plan.repositories # {} THEN <<CHOOSE r \in plan.repositories : TRUE>> ELSE <<None>>

Share(plan, i, k) ==
    {e.ref : e \in {x \in Tasks!Catalog(plan) :
        /\ x.phase = i /\ x.required
        /\ IF x.repository \in plan.phases[i].writes THEN x.repository = Homes(plan, i)[k] ELSE k = 1}}

Decomposition(plan) ==
    FlattenSeq([i \in DOMAIN plan.phases |->
        [k \in DOMAIN Homes(plan, i) |->
            Task(<<i, k>>, i, k, Homes(plan, i)[k],
                 SetToSeq(Share(plan, i, k) \cup {<<i, "goal", 1>>}))]])

\* Whatever the one validator accepts of the Architect, the other one accepts some
\* task graph for: no approved plan is beyond every Project Manager.
ASSUME ValidPlansCanBeDecomposed ==
    /\ Accepted # {}
    /\ \A p \in Accepted : Tasks!Findings(Approved(p), Decomposition(Approved(p)), <<>>) = {}

\* The phases that a phase of a valid plan builds on come before it, so that a
\* task which may cite them never waits for a later stage.
ASSUME AncestorsComeFirst ==
    \A p \in Accepted : \A i \in DOMAIN p.phases :
        \A a \in Tasks!Ancestors(Approved(p), i) : a < i

(***************************************************************************)
(* Task graphs for one plan of two repositories                            *)
(***************************************************************************)
Approved2 ==
    [repositories |-> {R1, R2}, context |-> 1,
     phases |-> << [name |-> 1, writes |-> {R1}, needs |-> {},
                    elements |-> {[kind |-> "deliverable", number |-> 1, repository |-> None]}],
                   [name |-> 2, writes |-> {R1, R2}, needs |-> {1},
                    elements |-> {[kind |-> "contract", number |-> 1, repository |-> R1],
                                  [kind |-> "contract", number |-> 2, repository |-> R2]}] >>]

D1 == <<1, "deliverable", 1>>
C1 == <<2, "contract", 1>>
C2 == <<2, "contract", 2>>

Proposed(id) ==
    {Task(id, stage, stem, repository, refs) :
        stage \in {1, 2}, stem \in {1, 2}, repository \in {None, R1, R2},
        refs \in {<<D1>>, <<C1>>, <<C2, D1>>}}
Graphs3 == {<<a, b, c>> : a \in {Task(1, 1, 1, R1, <<D1>>), Task(1, 2, 1, R1, <<C1>>)},
                          b \in Proposed(2), c \in {Task(3, 2, 2, R2, <<C2>>), Task(3, 1, 2, R1, <<D1>>),
                                                    Task(3, 2, 1, R2, <<C2, C2>>)}}
Dependency(task, on) == [generation |-> 1, task |-> task, on |-> on]
Edges3 == {<<>>} \cup {<<Dependency(x, y)>> : x, y \in 1 .. 4}
          \cup {<<Dependency(x, y), Dependency(y, x)>> : x, y \in 1 .. 3}

DependencyDefects(tasks, deps) ==
    Tasks!DependencyFindings(Approved2, tasks, deps)

Owned(tasks, element) == Cardinality(Tasks!Owners(Approved2, tasks, element)) = 1
Before(a, b) == a.stage < b.stage \/ (a.stage = b.stage /\ a.stem < b.stem)

\* A graph without findings can be executed: each required element of the plan
\* has one owner, each repository a stage writes is covered, and every
\* dependency leads to a task of this generation which comes before.
ASSUME CleanGraphsCanBeExecuted ==
    LET clean == {g \in Graphs3 \X Edges3 : Tasks!Findings(Approved2, g[1], g[2]) = {}}
    IN  /\ \E g \in clean : g[2] # <<>>
        /\ \A g \in clean :
             /\ \A e \in Tasks!Catalog(Approved2) : e.required => Owned(g[1], e)
             /\ \A k \in DOMAIN g[2] :
                  LET ends == Tasks!Ends(g[1], g[2][k])
                  IN  0 \notin {ends[1], ends[2]} /\ Before(g[1][ends[2]], g[1][ends[1]])

\* A cycle never comes alone: one of its edges is a defect of its own, so a graph
\* that keeps the order of stages and stems has none.
ASSUME OrderExcludesCycles ==
    \A tasks \in Graphs3, deps \in Edges3 :
        DependencyDefects(tasks, deps) = {} => Tasks!CycleFindings(tasks, deps) = {}

(***************************************************************************)
(* Repairs                                                                 *)
(***************************************************************************)
\* Findings with the identities 1 and 2, each at most twice.
Lists == {{f \in [at : 1 .. 2, identity : 1 .. 2] : f.at <= count[f.identity]}
            : count \in [1 .. 2 -> 0 .. 2]}

\* An accepted repair leaves fewer findings, so that a loop of repairs ends; and
\* one that removes a finding and brings no other is accepted.
ASSUME RepairsShrink ==
    \A before, after \in Lists :
        /\ Tasks!IsProgress(before, after) => Cardinality(after) < Cardinality(before)
        /\ after \subseteq before /\ after # before => Tasks!IsProgress(before, after)

\* A body that is cut fits the limit, and loses nothing when it already did.
ASSUME BodiesFit ==
    \A length \in {0, 1, 65535, 65536, 65537, 90000}, marker \in {100} :
        \A lineEnd \in {0, 1, Contracts!BodyLimit - marker - 1} :
            Contracts!KeptLength(length, lineEnd, marker) <= Contracts!BodyLimit
================================================================================
