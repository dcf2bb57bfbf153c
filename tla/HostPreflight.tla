------------------------------ MODULE HostPreflight ------------------------------
(***************************************************************************)
(* What a run is given before it claims a task                             *)
(* (host_execution/preflight.py), and how each command then gets its        *)
(* secrets (environment.py, service.py).                                   *)
(*                                                                         *)
(* An analysis is [catalog, prepare, materialize, secrets].  The first      *)
(* three are lists of records [program, cwd, verifies, stage, names]: the   *)
(* program is [by, name], where by is "path" or "bare", or None for an argv *)
(* that is no argv; cwd is a directory; names are the secrets the record    *)
(* asks for.  A declared secret is [name, scope, usedBy], in which any      *)
(* value that is not one is {} or not a scope.                             *)
(*                                                                         *)
(* A host is [trusted, inside, dirs, programs, tracked, onPath]: the        *)
(* directories inside the repository and those of them that exist, the      *)
(* executables of the checkout by directory and name, those of them that    *)
(* Git tracks, and the programs found on PATH.                             *)
(***************************************************************************)
EXTENDS Naturals, Sequences, FiniteSets, SequencesExt

CONSTANT None

Scopes == {"all", "build", "agent"}

(***************************************************************************)
(* Commands                                                                *)
(***************************************************************************)
\* _repository_path: where a check that the gate does not run would be run need
\* not exist.
CwdIsSound(record, group, host) ==
    /\ record.cwd \in host.inside
    /\ record.verifies \/ group # "catalog" => record.cwd \in host.dirs

IsSound(record, group, host) == record.program # None /\ CwdIsSound(record, group, host)

CommandFailures(records, group, host) ==
    {<<"command", group, i>> : i \in {k \in DOMAIN records : ~IsSound(records[k], group, host)}}

\* _commands: of the catalog, only what shows that a change broke nothing.
Commands(records, group, host) ==
    SelectSeq(records, LAMBDA r : IsSound(r, group, host) /\ (group = "catalog" => r.verifies))

\* selected_preparation_commands: two lists are declared and one of them is run.
Selected(prepare, materialize) == IF materialize # <<>> THEN materialize ELSE prepare

(***************************************************************************)
(* Programs                                                                *)
(***************************************************************************)
\* _command_executable_key
Key(command) == <<command.program, IF command.program.by = "path" THEN command.cwd ELSE ".">>

\* _unavailable_reason: a program named by its path runs in a task's worktree,
\* which holds what Git tracks.
Unavailable(key, host) ==
    LET place == <<key[2], key[1].name>>
    IN  CASE key[1].by = "bare" -> IF key[1].name \in host.onPath THEN None ELSE "missing"
          [] key[1].by = "path" /\ place \notin host.programs -> "missing"
          [] key[1].by = "path" /\ place \in host.programs ->
                IF place \in host.tracked THEN None ELSE "untracked"

\* _unrunnable_programs: a check that cannot be run is dropped, a preparation
\* that is required and cannot be run refuses the run.
RequiredKeys(prepare, materialize, preparation) ==
    IF preparation = "required" THEN {Key(c) : c \in ToSet(Selected(prepare, materialize))} ELSE {}

Unresolved(keys, host) == {k \in keys : Unavailable(k, host) # None}

ProgramFailures(required, host) ==
    {<<"program", Unavailable(k, host), k[1].name>> : k \in Unresolved(required, host)}

Running(commands, host) == SelectSeq(commands, LAMBDA c : Unavailable(Key(c), host) = None)
Dropped(commands, host) == SelectSeq(commands, LAMBDA c : Unavailable(Key(c), host) # None)

\* A run whose gate is on and which has no check left could publish nothing.
NoCheckFailures(commands, others, host, sanity) ==
    IF sanity /\ Running(commands, host) = <<>> /\ others = {}
    THEN {<<"no check", IF Dropped(commands, host) = <<>> THEN "none declared" ELSE "all dropped">>}
    ELSE {}

(***************************************************************************)
(* Secrets                                                                 *)
(***************************************************************************)
\* Records of one secret that agree on its scope add up to one requirement.
Declared(records) == {records[i].name : i \in DOMAIN records}
FirstRecord(records, name) ==
    records[CHOOSE i \in DOMAIN records :
        records[i].name = name /\ \A j \in 1 .. i - 1 : records[j].name # name]
Secret(records, name) ==
    LET first == FirstRecord(records, name)
        agreeing == {r \in ToSet(records) : r.name = name /\ r.scope = first.scope}
    IN  [name |-> name, scope |-> first.scope, usedBy |-> UNION {r.usedBy : r \in agreeing}]

\* _secret_disagreements
Ambiguous(records) ==
    {r.name : r \in {x \in ToSet(records) : x.scope # FirstRecord(records, x.name).scope}}

Asking(running, name) == {c.stage : c \in {r \in ToSet(running) : name \in r.names}}

Valid(secret) == secret.scope \in Scopes /\ secret.usedBy # {}

\* Whether something that the run will execute consumes the secret.
ReachesRun(secret, running, stages) ==
    \/ secret.scope \in {"all", "agent"}
    \/ Asking(running, secret.name) # {}
    \/ stages \cap secret.usedBy # {}

\* _required_secrets
SecretFailures(records, running, stages, available) ==
    LET valid == {s \in {Secret(records, n) : n \in Declared(records)} : Valid(s)}
        named == UNION {c.names : c \in ToSet(running)}
    IN  {<<"ambiguous", n>> : n \in Ambiguous(records)}
        \cup {<<"undeclared", n>> : n \in named \ Declared(records)}
        \cup {<<"invalid", n>> : n \in Declared(records) \ {s.name : s \in valid}}
        \cup {<<"agents only", s.name>> : s \in {x \in valid :
                x.scope = "agent" /\ Asking(running, x.name) # {}}}
        \cup {<<"not configured", s.name>> : s \in {x \in valid :
                ReachesRun(x, running, stages) /\ x.name \notin available}}

SecretRequirements(records, running) ==
    {[s EXCEPT !.usedBy = @ \cup Asking(running, s.name)]
        : s \in {x \in {Secret(records, n) : n \in Declared(records)} : Valid(x)}}

(***************************************************************************)
(* validate: the failures, or a plan when there are none.                  *)
(***************************************************************************)
Stages(commands) == {c.stage : c \in ToSet(commands)}

Validate(analysis, host, available, sanity, preparation) ==
    LET checks == Commands(analysis.catalog, "catalog", host)
        prepare == Commands(analysis.prepare, "prepare", host)
        materialize == Commands(analysis.materialize, "materialize", host)
        running == Running(checks, host)
        first == UNION { CommandFailures(analysis.catalog, "catalog", host),
                         CommandFailures(analysis.prepare, "prepare", host),
                         CommandFailures(analysis.materialize, "materialize", host),
                         ProgramFailures(RequiredKeys(prepare, materialize, preparation), host) }
        stages == UNION {Stages(running), Stages(prepare), Stages(materialize)}
    IN  [failures |->
            IF ~host.trusted THEN {<<"untrusted">>}
            ELSE UNION { first, NoCheckFailures(checks, first, host, sanity),
                         SecretFailures(analysis.secrets, running, stages, available) },
         commands |-> running, prepare |-> prepare, materialize |-> materialize,
         secrets |-> SecretRequirements(analysis.secrets, running),
         dropped |-> Dropped(checks, host)]

(***************************************************************************)
(* command_secret_environment and _agent_secrets: the names that are set    *)
(* for a stage, and None when one of them has no value.                    *)
(***************************************************************************)
SetFor(names, values) == IF names \subseteq values THEN names ELSE None

CommandSecrets(plan, stage, values) ==
    SetFor({s.name : s \in {x \in plan.secrets : x.scope \in {"all", "build"} /\ stage \in x.usedBy}},
           values)

AgentSecrets(plan, values) ==
    SetFor({s.name : s \in {x \in plan.secrets : x.scope \in {"all", "agent"}}}, values)
================================================================================
