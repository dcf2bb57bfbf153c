------------------------------ MODULE PlanContracts ------------------------------
(***************************************************************************)
(* What makes an Architect's plan one that may be reviewed                 *)
(* (planning/plan_contracts.py): its sequence, its dependencies, and its    *)
(* paths against the checkouts it is about.                                *)
(*                                                                         *)
(* A plan is [blank, repositories, phases, pointers, open]: blank says that *)
(* some text which must say something does not, repositories is the list of *)
(* its repository IDs, open the number of its open questions.  A phase is   *)
(* [number, slug, needs, repositories, files, contracts], where needs names *)
(* phases by <<number, slug>>; a file is [repository, path, role], a        *)
(* contract a repository or None.  A path is [shape, name, positions]:      *)
(* "plain", or "malformed" (absolute, not normalised, with a backslash), or *)
(* "outside" (through a link), followed by as many `:line' positions.       *)
(* A checkout is [files, others], the names of the files and of what else   *)
(* is there, or None for a directory that does not exist.                  *)
(***************************************************************************)
EXTENDS Naturals, Sequences, FiniteSets, Functions

CONSTANT None

Ids(plan) == Range(plan.repositories)
Name(phase) == <<phase.number, phase.slug>>

(***************************************************************************)
(* Repositories                                                            *)
(***************************************************************************)
\* _repository_roots: the checkout of each repository; None stands for one that
\* was not supplied, and as an ID for the only one of a plan that names none.
Roots(plan, primary, supplied) ==
    [r \in IF Ids(plan) = {} THEN {None} ELSE Ids(plan) |->
        IF r \in DOMAIN supplied THEN supplied[r]
        ELSE IF Len(plan.repositories) <= 1 THEN primary ELSE None]

RootsAreKnown(plan, supplied) ==
    /\ IsInjective(plan.repositories)
    /\ DOMAIN supplied \subseteq Ids(plan)
    /\ \A r \in DOMAIN supplied : supplied[r] # None

\* _entry_repository_id: an entry may leave its repository out when there is one.
NamesRepository(given, roots) ==
    IF given = None THEN Cardinality(DOMAIN roots) = 1 ELSE given \in DOMAIN roots
RepositoryOf(given, roots) ==
    IF given = None THEN CHOOSE r \in DOMAIN roots : TRUE ELSE given

(***************************************************************************)
(* Paths                                                                   *)
(***************************************************************************)
\* A name with its positions, as a name in the file system: `f:3' may be a file.
Entry(path, positions) == <<path.name, positions>>
IsThere(root, entry) == entry \in root.files \cup root.others

\* _validate_planned_path
PlannedPath(root, file) ==
    /\ root # None /\ file.path.shape = "plain"
    /\ IF file.role = "new" THEN ~IsThere(root, Entry(file.path, file.path.positions))
       ELSE Entry(file.path, file.path.positions) \in root.files

\* _grounded_path: positions are taken off until what is left exists.
Grounded(root, path) ==
    /\ path.shape = "plain"
    /\ \E n \in 0 .. path.positions : IsThere(root, Entry(path, n))

(***************************************************************************)
(* Phases                                                                  *)
(***************************************************************************)
\* Every phase depends on earlier ones only.
InSequence(plan, i) ==
    LET phase == plan.phases[i]
    IN  /\ phase.number = i /\ phase.slug # None
        /\ IsInjective(phase.needs)
        /\ Range(phase.needs) \subseteq {Name(plan.phases[j]) : j \in 1 .. i - 1}

FileKey(file, roots) == <<RepositoryOf(file.repository, roots), file.path>>

FilesAreSound(phase, roots, checked) ==
    /\ \A k \in DOMAIN phase.files :
         LET file == phase.files[k]
             repository == RepositoryOf(file.repository, roots)
         IN  /\ NamesRepository(file.repository, roots)
             /\ file.role # "read" /\ phase.repositories # <<>> =>
                    repository \in Range(phase.repositories)
             /\ IF checked THEN PlannedPath(roots[repository], file)
                ELSE file.path.shape # "malformed"
    /\ \A j, k \in DOMAIN phase.files :
         FileKey(phase.files[j], roots) = FileKey(phase.files[k], roots) => j = k

PhaseIsSound(plan, i, roots, checked) ==
    LET phase == plan.phases[i]
    IN  /\ InSequence(plan, i)
        /\ IsInjective(phase.repositories) /\ Range(phase.repositories) \subseteq DOMAIN roots
        /\ FilesAreSound(phase, roots, checked)
        /\ \A k \in DOMAIN phase.contracts : NamesRepository(phase.contracts[k], roots)

(***************************************************************************)
(* validate_plan; checked says whether the state of the checkouts counts.   *)
(***************************************************************************)
ValidPlan(plan, primary, supplied, checked) ==
    LET roots == Roots(plan, primary, supplied)
    IN  /\ ~plan.blank /\ plan.phases # <<>> /\ primary # None
        /\ RootsAreKnown(plan, supplied)
        /\ \A i \in DOMAIN plan.phases : PhaseIsSound(plan, i, roots, checked)
        /\ \A k \in DOMAIN plan.pointers :
             IF checked THEN Grounded(primary, plan.pointers[k])
             ELSE plan.pointers[k].shape # "malformed"
        /\ plan.open = 0

(***************************************************************************)
(* build_project_pr_body: the length of the text that is kept of a body     *)
(* whose last line break before the budget is at lineEnd, or is not there.  *)
(***************************************************************************)
BodyLimit == 65536
KeptLength(length, lineEnd, marker) ==
    IF length <= BodyLimit THEN length
    ELSE (IF lineEnd > 0 THEN lineEnd ELSE BodyLimit - marker) + marker
================================================================================
