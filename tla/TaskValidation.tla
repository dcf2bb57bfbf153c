----------------------------- MODULE TaskValidation -----------------------------
(***************************************************************************)
(* The deterministic validation of a decomposed task graph                 *)
(* (planning/task_validation.py): what it finds wrong with the tasks and    *)
(* dependencies that were proposed for an approved plan, and what it takes  *)
(* a repair for.                                                           *)
(*                                                                         *)
(* A plan is [repositories, phases, context]: a phase is [name, writes,     *)
(* needs, elements], an element [kind, number, repository], and context is  *)
(* the number of elements that belong to no phase.  A task is [id,          *)
(* generation, stage, stem, complexity, declared, repository, refs], and is *)
(* identified by its position; a dependency is [generation, task, on].      *)
(* Names are their rank in lexical order, and 0 is one that is not in the   *)
(* required form; None stands for what is not given, and for the project as *)
(* the phase of an element that has none.                                  *)
(***************************************************************************)
EXTENDS Naturals, Sequences, FiniteSets

CONSTANT None

Complexities == {"small", "medium", "large"}
Required == {"deliverable", "contract", "acceptance", "test_strategy"}
Located == {"deliverable", "contract", "acceptance", "file"}

Or(value, default) == IF value # None THEN value ELSE default
Sole(plan) ==
    IF Cardinality(plan.repositories) = 1 THEN CHOOSE r \in plan.repositories : TRUE ELSE None

(***************************************************************************)
(* The plan                                                                *)
(***************************************************************************)
\* build_plan_element_catalog
Catalog(plan) ==
    UNION {{[ref |-> <<i, e.kind, e.number>>, phase |-> plan.phases[i].name,
             repository |-> IF e.kind \in Located THEN Or(e.repository, Sole(plan)) ELSE None,
             required |-> e.kind \in Required] : e \in plan.phases[i].elements}
             : i \in DOMAIN plan.phases}
    \cup {[ref |-> <<0, "context", n>>, phase |-> None, repository |-> None,
           required |-> FALSE] : n \in 1 .. plan.context}

PhaseNames(plan) == {plan.phases[i].name : i \in DOMAIN plan.phases}

\* Of two phases with one name the later one counts.
PhaseOrder(plan, name) ==
    CHOOSE i \in DOMAIN plan.phases :
        /\ plan.phases[i].name = name
        /\ \A j \in DOMAIN plan.phases : plan.phases[j].name = name => j <= i
PhaseOf(plan, name) == plan.phases[PhaseOrder(plan, name)]

Writes(plan, stage) == IF stage \in PhaseNames(plan) THEN PhaseOf(plan, stage).writes ELSE {}

\* _phase_ancestors: a worklist of the phases that are needed, directly or not.
RECURSIVE Gather(_, _, _, _)
Gather(plan, name, pending, found) ==
    LET new == (pending \cap PhaseNames(plan)) \ (found \cup {name})
    IN  IF new = {} THEN found
        ELSE Gather(plan, name, UNION {PhaseOf(plan, p).needs : p \in new}, found \cup new)

Ancestors(plan, stage) ==
    IF stage \in PhaseNames(plan) THEN Gather(plan, stage, PhaseOf(plan, stage).needs, {}) ELSE {}

(***************************************************************************)
(* Findings.  Two of them are the same defect when their identities agree;  *)
(* at tells those apart that a list holds more than once.                  *)
(***************************************************************************)
Finding(at, rule, tasks, refs, edge) ==
    [at |-> at, identity |-> [rule |-> rule, tasks |-> tasks, refs |-> refs, edge |-> edge]]
About(rule, i) == Finding(<<i>>, rule, {i}, {}, <<>>)

If(condition, found) == IF condition THEN {found} ELSE {}

(***************************************************************************)
(* Tasks                                                                   *)
(***************************************************************************)
\* The tasks before i that have the same value of a field.
Earlier(values, i) == {j \in 1 .. i - 1 : values[j] = values[i]}
RecordIds(tasks) == [i \in DOMAIN tasks |-> tasks[i].id]
TaskNames(tasks) == [i \in DOMAIN tasks |-> <<tasks[i].stage, tasks[i].stem>>]
FirstOf(S) == CHOOSE j \in S : \A k \in S : j <= k
LastOf(S) == CHOOSE j \in S : \A k \in S : k <= j

\* A record ID is compared with the last task that had it, a name with the first.
IdentityFindings(plan, tasks, i) ==
    LET sameId == Earlier(RecordIds(tasks), i)
        sameName == Earlier(TaskNames(tasks), i)
        Pair(rule, j) == Finding(<<i>>, rule, {i, j}, {}, <<>>)
    IN  UNION { If(tasks[i].stage = 0, About("task.stage.invalid", i)),
                If(tasks[i].stem = 0, About("task.stem.invalid", i)),
                If(tasks[i].stage \notin PhaseNames(plan), About("task.stage.unknown", i)),
                IF sameId = {} THEN {} ELSE {Pair("task.record_id.duplicate", LastOf(sameId))},
                IF sameName = {} THEN {}
                ELSE {Pair("task.id.duplicate", FirstOf(sameName)),
                      Pair("task.ref.duplicate", FirstOf(sameName))} }

ComplexityFindings(task, i) ==
    If(task.complexity \notin Complexities \/ task.declared \notin {None, task.complexity},
       About("task.complexity.invalid", i))

\* The repository a task writes, and what is wrong with it.
RepositoryOf(plan, task) == Or(task.repository, Sole(plan))
RepositoryRule(plan, task) ==
    LET repository == RepositoryOf(plan, task)
        written == Writes(plan, task.stage)
    IN  CASE repository = None /\ Cardinality(plan.repositories) > 1 -> "task.repository.missing"
          [] repository # None /\ repository \notin plan.repositories -> "task.repository.unknown"
          [] repository # None /\ repository \in plan.repositories /\ written # {}
             /\ repository \notin written -> "task.repository.boundary"
          [] OTHER -> None

RepositoryFindings(plan, task, i) ==
    If(RepositoryRule(plan, task) # None, About(RepositoryRule(plan, task), i))

Covered(plan, tasks, stage) ==
    {RepositoryOf(plan, tasks[i]) : i \in {k \in DOMAIN tasks :
        tasks[k].stage = stage /\ RepositoryRule(plan, tasks[k]) = None}}

(***************************************************************************)
(* Who owns which element of the plan                                      *)
(***************************************************************************)
Known(plan, ref) == \E e \in Catalog(plan) : e.ref = ref
Element(plan, ref) == CHOOSE e \in Catalog(plan) : e.ref = ref

Conflicts(plan, task, element) ==
    \/ RepositoryRule(plan, task) # None
    \/ /\ element.phase = task.stage
       /\ element.repository \in Writes(plan, task.stage)
       /\ RepositoryOf(plan, task) # element.repository

\* An element of the own stage is owned; one of the project or of an earlier
\* stage may be cited.
Owns(plan, task, element) == element.phase = task.stage /\ ~Conflicts(plan, task, element)
MayCite(plan, task, element) ==
    /\ ~Conflicts(plan, task, element)
    /\ element.phase = None \/ element.phase \in Ancestors(plan, task.stage)

RefFindings(plan, task, i) ==
    IF task.refs = <<>> THEN {About("task.traceability.missing", i)}
    ELSE UNION {LET ref == task.refs[k]
                    Wrong(rule) == {Finding(<<i, k>>, rule, {i}, {ref}, <<>>)}
                IN  CASE ~Known(plan, ref) -> Wrong("task.traceability.unknown_ref")
                      [] Known(plan, ref) /\ \E j \in 1 .. k - 1 : task.refs[j] = ref ->
                            Wrong("task.traceability.duplicate_ref")
                      [] OTHER ->
                            IF \/ Owns(plan, task, Element(plan, ref))
                               \/ MayCite(plan, task, Element(plan, ref))
                            THEN {} ELSE Wrong("task.traceability.boundary")
                : k \in DOMAIN task.refs}

Owners(plan, tasks, element) ==
    {i \in DOMAIN tasks : /\ \E k \in DOMAIN tasks[i].refs : tasks[i].refs[k] = element.ref
                          /\ Owns(plan, tasks[i], element)}

CoverageFindings(plan, tasks) ==
    UNION {{Finding(<<>>, "task.repository.uncovered", {}, {}, <<p, r>>)
            : r \in Writes(plan, p) \ Covered(plan, tasks, p)} : p \in PhaseNames(plan)}
    \cup UNION {LET owners == Owners(plan, tasks, e)
                IN  If(owners = {}, Finding(<<>>, "task.traceability.unowned", {}, {e.ref}, <<>>))
                    \cup If(Cardinality(owners) > 1,
                            Finding(<<>>, "task.traceability.duplicate_owner", owners, {e.ref}, <<>>))
                : e \in {x \in Catalog(plan) : x.required}}

(***************************************************************************)
(* Dependencies                                                            *)
(***************************************************************************)
Edge(d) == <<d.task, d.on>>

\* The task that an ID stands for, or 0: the last one that has it.
Position(tasks, id) ==
    IF \E i \in DOMAIN tasks : tasks[i].id = id
    THEN LastOf({i \in DOMAIN tasks : tasks[i].id = id}) ELSE 0
Ends(tasks, d) == <<Position(tasks, d.task), Position(tasks, d.on)>>
Dangling(tasks, d) == 0 \in {Ends(tasks, d)[1], Ends(tasks, d)[2]}

IsFirst(deps, k) == \A j \in 1 .. k - 1 : Edge(deps[j]) # Edge(deps[k])

\* Edges that dangle alike are told apart by their occurrence.
EdgeIdentity(tasks, deps, k) ==
    LET first == FirstOf({j \in 1 .. k : Edge(deps[j]) = Edge(deps[k])})
        alike == {j \in 1 .. first : IsFirst(deps, j) /\ Ends(tasks, deps[j]) = Ends(tasks, deps[k])}
    IN  IF Dangling(tasks, deps[k]) THEN Append(Ends(tasks, deps[k]), Cardinality(alike))
        ELSE Ends(tasks, deps[k])

CrossesGenerations(tasks, d) ==
    \E i \in {Ends(tasks, d)[1], Ends(tasks, d)[2]} : tasks[i].generation # d.generation

DependencyRule(plan, tasks, deps, k) ==
    LET d == deps[k]  from == tasks[Ends(tasks, d)[1]]  to == tasks[Ends(tasks, d)[2]]
    IN  CASE ~IsFirst(deps, k) -> "task.dependency.duplicate"
          [] IsFirst(deps, k) /\ Dangling(tasks, d) -> "task.dependency.dangling"
          [] OTHER ->
               IF CrossesGenerations(tasks, d) THEN "task.dependency.generation_mismatch"
               ELSE IF Ends(tasks, d)[1] = Ends(tasks, d)[2] THEN "task.dependency.self"
               ELSE IF /\ {from.stage, to.stage} \subseteq PhaseNames(plan)
                       /\ PhaseOrder(plan, to.stage) > PhaseOrder(plan, from.stage)
                    THEN "task.dependency.phase_inversion"
               ELSE IF from.stage = to.stage /\ to.stem >= from.stem
                    THEN "task.dependency.same_stage_order"
               ELSE None

DependencyFindings(plan, tasks, deps) ==
    UNION {LET rule == DependencyRule(plan, tasks, deps, k)
               ends == Ends(tasks, deps[k])
               shown == IF rule = "task.dependency.duplicate" THEN {ends[1]} ELSE {ends[1], ends[2]}
               named == rule \in {"task.dependency.duplicate", "task.dependency.dangling"}
           IN  If(rule # None, Finding(<<k>>, rule, shown \ {0}, {},
                    IF named THEN EdgeIdentity(tasks, deps, k) ELSE <<>>))
           : k \in DOMAIN deps}

\* The prerequisites of each task, in the order of their declaration.
Resolved(tasks, deps) ==
    SelectSeq([k \in DOMAIN deps |-> [first |-> IsFirst(deps, k), dep |-> deps[k]]],
              LAMBDA x : /\ x.first /\ ~Dangling(tasks, x.dep)
                         /\ ~CrossesGenerations(tasks, x.dep))
Prerequisites(tasks, deps, i) ==
    LET of == SelectSeq(Resolved(tasks, deps), LAMBDA x : Ends(tasks, x.dep)[1] = i)
    IN  [k \in DOMAIN of |-> Ends(tasks, of[k].dep)[2]]

(***************************************************************************)
(* _cycle_findings: the order in which a first depth-first search leaves    *)
(* the tasks, then a search against the edges in the reverse of that order. *)
(***************************************************************************)
RECURSIVE Leave(_, _, _, _)
Leave(next, frames, visited, finished) ==
    IF frames = <<>> THEN [visited |-> visited, finished |-> finished]
    ELSE LET top == frames[Len(frames)]
             rest == SubSeq(frames, 1, Len(frames) - 1)
             advanced == Append(rest, [top EXCEPT !.index = @ + 1])
         IN  IF top.index > Len(next[top.task])
             THEN Leave(next, rest, visited, Append(finished, top.task))
             ELSE LET on == next[top.task][top.index]
                  IN  IF on \in visited THEN Leave(next, advanced, visited, finished)
                      ELSE Leave(next, Append(advanced, [task |-> on, index |-> 1]),
                                 visited \cup {on}, finished)

RECURSIVE LeaveAll(_, _, _)
LeaveAll(next, roots, search) ==
    IF roots = <<>> THEN search.finished
    ELSE LeaveAll(next, Tail(roots),
             IF Head(roots) \in search.visited THEN search
             ELSE Leave(next, <<[task |-> Head(roots), index |-> 1]>>,
                        search.visited \cup {Head(roots)}, search.finished))

RECURSIVE Against(_, _, _)
Against(next, pending, assigned) ==
    LET dependents == {i \in DOMAIN next : \E k \in DOMAIN next[i] : next[i][k] \in pending}
    IN  IF pending = {} THEN assigned
        ELSE Against(next, dependents \ assigned, assigned \cup dependents)

RECURSIVE Components(_, _, _)
Components(next, finished, assigned) ==
    IF finished = <<>> THEN {}
    ELSE LET root == finished[Len(finished)]
             others == SubSeq(finished, 1, Len(finished) - 1)
             reached == Against(next, {root}, assigned \cup {root})
         IN  IF root \in assigned THEN Components(next, others, assigned)
             ELSE {reached \ assigned} \cup Components(next, others, reached)

\* next maps each task to its prerequisites, roots is the order of the tasks.
CyclicComponents(next, roots) ==
    {c \in Components(next, LeaveAll(next, roots, [visited |-> {}, finished |-> <<>>]), {}) :
        \/ Cardinality(c) > 1
        \/ \E i \in c : \E k \in DOMAIN next[i] : next[i][k] = i}

\* The tasks that an ID stands for, in the order in which the IDs came first.
Current(tasks) == {i \in DOMAIN tasks : Position(tasks, tasks[i].id) = i}
Roots(tasks) ==
    LET IsNew(i) == Earlier(RecordIds(tasks), i) = {}
        firsts == SelectSeq([i \in DOMAIN tasks |-> i], IsNew)
    IN  [k \in DOMAIN firsts |-> Position(tasks, tasks[firsts[k]].id)]

CycleFindings(tasks, deps) ==
    {Finding(<<>>, "task.dependency.cycle", c, {}, <<>>)
        : c \in CyclicComponents([i \in Current(tasks) |-> Prerequisites(tasks, deps, i)],
                                 Roots(tasks))}

(***************************************************************************)
(* task_graph_findings, and what counts as a repair                        *)
(***************************************************************************)
Findings(plan, tasks, deps) ==
    UNION {If(Cardinality({tasks[i].generation : i \in DOMAIN tasks}) > 1,
              Finding(<<>>, "task.generation.mismatch", DOMAIN tasks, {}, <<>>)),
           UNION {UNION {IdentityFindings(plan, tasks, i), ComplexityFindings(tasks[i], i),
                         RepositoryFindings(plan, tasks[i], i), RefFindings(plan, tasks[i], i)}
                  : i \in DOMAIN tasks},
           CoverageFindings(plan, tasks),
           DependencyFindings(plan, tasks, deps),
           CycleFindings(tasks, deps)}

\* How often a list of findings names each defect.
Identities(findings) == {f.identity : f \in findings}
Count(findings, identity) == Cardinality({f \in findings : f.identity = identity})

\* validate_task_repair_progress
IsProgress(previous, repaired) ==
    /\ \A x \in Identities(repaired) : Count(repaired, x) <= Count(previous, x)
    /\ \E x \in Identities(previous) : Count(repaired, x) < Count(previous, x)
================================================================================
