------------------------------ MODULE RepositorySetup ------------------------------
(***************************************************************************)
(* Initialising and analysing a repository (repository_service.py), with    *)
(* the binding of its tracked directory (repository_config.py), the role    *)
(* prompts (repo_analysis/prompts_manager.py) and the improvement PRDs      *)
(* (repo_analysis/improvement_prds.py).                                     *)
(*                                                                         *)
(* A home is what is on disk, a record of                                  *)
(*   claim      the root the relocated directory is bound to, or None       *)
(*   config     the identity in config.toml, or None                       *)
(*   rows       the pairs <<identity, root>> that SQLite holds             *)
(*   analyses   the persisted analyses, oldest first, as [id, clashes]:     *)
(*              clashes when two themes resolve to one file name, or one    *)
(*              resolves to none                                           *)
(*   files, latest   for each role, the analysis whose prompt the file and  *)
(*              the newest row hold, or 0                                  *)
(*   score      the analysis of the score report, or 0                     *)
(*   prds       the analyses whose improvement PRDs are there              *)
(*   recorded   the identities whose initialisation is recorded            *)
(* and a process is a record of its own; Steps(home, p) is the set of what  *)
(* its next step may leave, as [home, p].  A step is one transaction or one *)
(* atomic publication, and a failing agent, Git or file is one of its       *)
(* outcomes.                                                               *)
(***************************************************************************)
EXTENDS Integers, Sequences, FiniteSets, SequencesExt

CONSTANTS None, Roles, Relocated

Ended == {"done", "refused", "failed"}

Process(kind, root, fresh) ==
    [kind |-> kind, root |-> root, fresh |-> fresh, at |-> "start", id |-> None, analysis |-> 0,
     pending |-> {}, incomplete |-> FALSE]

To(home, p, place) == {[home |-> home, p |-> [p EXCEPT !.at = place]]}
Failing(home, p) == To(home, p, "failed")

\* get_prior_ready_analysis, as a position in the analyses, or 0.
Latest(home, id) ==
    LET own == {i \in DOMAIN home.analyses : home.analyses[i].id = id}
    IN  IF own = {} THEN 0 ELSE CHOOSE i \in own : \A k \in own : k <= i

\* get_durable_role_prompt: the file holds what the newest row says.
Durable(home, role) == home.latest[role] # 0 /\ home.files[role] = home.latest[role]

(***************************************************************************)
(* Identity                                                                *)
(***************************************************************************)
\* bind_tracked_directory: os.link claims the name for one process.
Bind(home, p) ==
    IF ~Relocated \/ home.claim = p.root THEN To(home, p, "look")
    ELSE IF home.claim = None THEN To([home EXCEPT !.claim = p.root], p, "look")
    ELSE To(home, p, "refused")

\* _registered_repository
Registered(home, p) ==
    IF /\ home.config # None
       /\ <<home.config, p.root>> \in home.rows
       /\ home.config \in home.recorded
       /\ Latest(home, home.config) # 0
    THEN To(home, [p EXCEPT !.id = home.config], "analyze")
    ELSE To(home, p, "refused")

Start(home, p) == IF p.kind = "init" THEN Bind(home, p) ELSE Registered(home, p)

Look(home, p) == To(home, p, IF home.config = None THEN "choose" ELSE "load")

\* _write_initial_config, once the agent of the configuration was found; the identity
\* of whoever published first is the one that counts.
Choose(home, p) ==
    Failing(home, p)
    \cup To([home EXCEPT !.config = IF @ = None THEN p.fresh ELSE @], p, "load")

\* load_repository_config and get_repository
Load(home, p) ==
    LET rows == {row \in home.rows : row[1] = home.config}
        named == [p EXCEPT !.id = home.config]
    IN  IF home.config = None THEN Failing(home, p)
        ELSE IF rows = {} THEN To(home, named, "register")
        ELSE To(home, named, IF <<home.config, p.root>> \in rows THEN "seed" ELSE "refused")

\* add_repository: the identity and the root are unique.
Register(home, p) ==
    IF \E row \in home.rows : row[1] = p.id \/ row[2] = p.root THEN Failing(home, p)
    ELSE To([home EXCEPT !.rows = @ \cup {<<p.id, p.root>>}], p, "seed")

(***************************************************************************)
(* Outputs                                                                 *)
(***************************************************************************)
Seed(home, p) ==
    LET found == Latest(home, p.id)
        seeded == [p EXCEPT !.analysis = found, !.pending = {r \in Roles : ~Durable(home, r)}]
    IN  IF p.id \in home.recorded THEN To(home, seeded, IF found = 0 THEN "failed" ELSE "done")
        ELSE Failing(home, seeded) \cup To(home, seeded, IF found = 0 THEN "analyze" ELSE "score")

\* run_analyzer appends one analysis, or nothing.
Analyze(home, p) ==
    LET next == [p EXCEPT !.analysis = Len(home.analyses) + 1,
                          !.pending = IF p.kind = "init" THEN @ ELSE Roles]
    IN  Failing(home, p)
        \cup UNION {To([home EXCEPT !.analyses = Append(@, [id |-> p.id, clashes |-> c])], next, "score") :
                      c \in BOOLEAN}

Score(home, p) == Failing(home, p) \cup To([home EXCEPT !.score = p.analysis], p, "prompts")

\* _generate_one_role for one of the roles, whose threads run in any order.  The file
\* is replaced inside the transaction that appends the row; a fault after both, such as
\* a backup that stays, counts as a failure all the same.
Published(home, p, role) == [home EXCEPT !.files[role] = p.analysis, !.latest[role] = p.analysis]
Prompts(home, p) ==
    LET Next(h, role, missed) ==
            To(h, [p EXCEPT !.pending = @ \ {role}, !.incomplete = @ \/ missed], "prompts")
    IN  IF p.pending = {} THEN To(home, p, IF p.incomplete THEN "failed" ELSE "prds")
        ELSE UNION {Next(Published(home, p, role), role, FALSE) \cup Next(Published(home, p, role), role, TRUE)
                    \cup Next(home, role, TRUE) : role \in p.pending}

\* A process that dies within the publication leaves the new file without its row, or
\* has just moved the old file away.
TornPrompts(home, p) ==
    IF p.at # "prompts" THEN {}
    ELSE {[home EXCEPT !.files[role] = file] : role \in p.pending, file \in {0, p.analysis}}

\* generate_improvement_prds: every theme is named before a file is written, the PRDs
\* are written, and then whatever Markdown is not of this analysis is removed.
WritePrds(home, p) ==
    IF home.analyses[p.analysis].clashes THEN Failing(home, p)
    ELSE LET written == [home EXCEPT !.prds = @ \cup {p.analysis}]
         IN  Failing(home, p) \cup Failing(written, p) \cup To(written, p, "prune")
Prune(home, p) ==
    LET pruned == [home EXCEPT !.prds = @ \cap {p.analysis}]
    IN  Failing(home, p) \cup Failing(pruned, p)
        \cup To(pruned, p, IF p.kind = "init" THEN "record" ELSE "done")

Record(home, p) == To([home EXCEPT !.recorded = @ \cup {p.id}], p, "done")

Steps(home, p) ==
    CASE p.at = "start" -> Start(home, p)
      [] p.at = "look" -> Look(home, p)
      [] p.at = "choose" -> Choose(home, p)
      [] p.at = "load" -> Load(home, p)
      [] p.at = "register" -> Register(home, p)
      [] p.at = "seed" -> Seed(home, p)
      [] p.at = "analyze" -> Analyze(home, p)
      [] p.at = "score" -> Score(home, p)
      [] p.at = "prompts" -> Prompts(home, p)
      [] p.at = "prds" -> WritePrds(home, p)
      [] p.at = "prune" -> Prune(home, p)
      [] p.at = "record" -> Record(home, p)
      [] p.at \in Ended -> {}

(***************************************************************************)
(* What may happen between and within the processes.                       *)
(***************************************************************************)
\* A crash or an interrupt ends the process where it is.
Crash(home, p) == To(home, p, "failed") \cup UNION {To(torn, p, "failed") : torn \in TornPrompts(home, p)}

\* The ignored state directory is disposable.
StateLost(home) ==
    [home EXCEPT !.rows = {}, !.analyses = <<>>, !.latest = [r \in Roles |-> 0], !.recorded = {},
                 !.files = [r \in Roles |-> IF @[r] = 0 THEN 0 ELSE -1],
                 !.score = IF @ = 0 THEN 0 ELSE -1,
                 !.prds = IF @ = {} THEN {} ELSE {-1}]

\* The prompts are plain files, which anyone may delete.
PromptsLost(home) == [home EXCEPT !.files = [r \in Roles |-> 0]]

\* A checkout of a branch from before the initialisation takes the tracked files away.
TrackedLost(home) ==
    [home EXCEPT !.config = None, !.files = [r \in Roles |-> 0], !.score = 0, !.prds = {}]

Blank ==
    [claim |-> None, config |-> None, rows |-> {}, analyses |-> <<>>, files |-> [r \in Roles |-> 0],
     latest |-> [r \in Roles |-> 0], score |-> 0, prds |-> {}, recorded |-> {}]
================================================================================
