------------------------------ MODULE AgentSelection ------------------------------
(***************************************************************************)
(* Which adapter runs a stage, and what a run must be granted first        *)
(* (agent_runtime/selection.py, workspace_trust.py).                       *)
(*                                                                         *)
(* A workspace is [root, common], its top level and its Git storage; it is  *)
(* its own identity, whose fingerprint has no collisions.  The paths of a   *)
(* repository are a workspace and managed, the roots below the directory of *)
(* the worktrees it mints.  The trust file is [state, workspaces, within]:  *)
(* state is "absent", "ok", "exposed" (mode or owner) or "corrupt", and     *)
(* within holds the roots that contain the file.                           *)
(***************************************************************************)
EXTENDS ContainedTools

Natives == {"claude", "codex"}
Apis == {"anthropic", "openai"}
Preference == <<"claude", "codex", "anthropic", "openai">>

Role(stage) ==
    CASE stage \in {"analysis", "coding", "review", "merge"} -> stage
      [] stage \in {"requirements", "architect", "tech_lead", "pm", "supervisor", "steering"} -> "planning"

Billing(name) == IF name \in Natives THEN "subscription" ELSE "api"

(***************************************************************************)
(* Selection.  host is [executables, credentials], the native tools on the  *)
(* path and the adapters with a credential that is not empty.              *)
(***************************************************************************)
Usable(name, host) == IF name \in Natives THEN name \in host.executables ELSE name \in host.credentials

\* AgentChoices.resolve: each value on its own.
Resolved(choices, stage) ==
    [key \in DOMAIN choices.defaults |->
        IF choices[stage][key] # None THEN choices[stage][key] ELSE choices.defaults[key]]

Adapter(choice, host) ==
    LET usable == SelectSeq(Preference, LAMBDA name : Usable(name, host))
    IN  IF choice.adapter # None
        THEN IF choice.adapter \in Natives \cup Apis /\ Usable(choice.adapter, host) THEN choice.adapter ELSE None
        ELSE IF usable = <<>> THEN None ELSE usable[1]

DefaultModel(name) == IF name \in {"anthropic", "claude"} THEN "claude-opus-5" ELSE "gpt-5.6-sol"

\* trusted is the adapter's workspace_trusted, which only a run that was trusted sets;
\* shares says that the caller passed the trust requirement of managed worktrees.
SelectAgent(choices, stage, host, paths, shares) ==
    LET choice == Resolved(choices, stage)
        name == Adapter(choice, host)
    IN  IF name = None THEN None
        ELSE [name |-> name, role |-> Role(stage), paths |-> paths, trusted |-> FALSE, shares |-> shares,
              model |-> IF choice.model # None THEN choice.model ELSE DefaultModel(name),
              toolAllowlist |-> name # "codex", readOnlySandbox |-> name = "codex",
              hostCapable |-> name \in Natives \/ Role(stage) \in CommandRoles]

ReadOnlyAgent(agent) == agent.toolAllowlist \/ agent.readOnlySandbox

(***************************************************************************)
(* Trust                                                                   *)
(***************************************************************************)
WorkspaceIdentity(paths) == [root |-> paths.root, common |-> paths.common]

\* _read, or None when the file is not to be believed.
Document(file) ==
    CASE file.state = "absent" -> {}
      [] file.state = "ok" -> file.workspaces
      [] OTHER -> None

\* _write replaces the whole file; what another process added since the read is lost.
Replaced(file, document) == [file EXCEPT !.state = "ok", !.workspaces = document]

\* TrustStore.trust
Trust(file, identity) == Replaced(file, Document(file) \cup {identity})

\* require_workspace_trust.  asked is [explicit, interactive, answer]; answer is "yes",
\* "no", or None where nothing can ask.
RequireTrust(paths, file, asked) ==
    LET identity == WorkspaceIdentity(paths)
        Outcome(granted, next) == [granted |-> granted, file |-> next]
        confirmed == asked.interactive /\ asked.answer = "yes"
    IN  IF identity.root \in file.within \/ Document(file) = None THEN Outcome(FALSE, file)
        ELSE IF identity \in Document(file) THEN Outcome(TRUE, file)
        ELSE IF asked.explicit \/ confirmed THEN Outcome(TRUE, Trust(file, identity))
        ELSE Outcome(FALSE, file)

\* _managed_worktree_trust_requirement: a worktree the repository minted shares its trust.
Grantor(agent, paths) ==
    IF agent.shares /\ paths.root \in agent.paths.managed THEN agent.paths ELSE paths

(***************************************************************************)
(* Runs.  A spec is [at, tools, model], at the workspace of its directory   *)
(* or None; cancelled says that the token was set before.                  *)
(***************************************************************************)
\* _bound_run_paths
Bound(agent, at) ==
    /\ at # None
    /\ \/ at.root = agent.paths.root
       \/ at.root \in agent.paths.managed /\ at.common = agent.paths.common

\* What the adapter is started with; a set token lets it end before it does anything.
Started(agent, spec, file, ran) ==
    [outcome |-> IF ran THEN "ran" ELSE "cancelled", agent |-> agent, file |-> file,
     model |-> agent.model, billing |-> Billing(agent.name),
     tools |-> IF agent.name \in Apis THEN Selected(agent.role, agent.trusted, spec.tools) ELSE spec.tools]
Refused(agent, file) == [outcome |-> "refused", agent |-> agent, file |-> file]

RunAgent(agent, spec, file, asked, cancelled) ==
    LET trust == RequireTrust(Grantor(agent, spec.at), file, asked)
        granted == [agent EXCEPT !.trusted = @ \/ agent.name \in Apis]
    IN  IF cancelled THEN Started(agent, spec, file, FALSE)
        ELSE IF ~Bound(agent, spec.at) THEN Refused(agent, file)
        ELSE IF ~agent.hostCapable THEN Started(agent, spec, file, TRUE)
        ELSE IF trust.granted THEN Started(granted, spec, trust.file, TRUE)
        ELSE Refused(agent, trust.file)

\* run_contained: the directory is the caller's, so only the repository is asked about.
RunContained(agent, spec, file, asked, cancelled) ==
    LET trust == RequireTrust(Grantor(agent, agent.paths), file, asked)
    IN  IF cancelled THEN Started(agent, spec, file, FALSE)
        ELSE IF ~ReadOnlyAgent(agent) \/ (agent.hostCapable /\ ~ReadOnlyToolSet(spec.tools)) THEN Refused(agent, file)
        ELSE IF ~agent.hostCapable THEN Started(agent, spec, file, TRUE)
        ELSE IF trust.granted THEN Started(agent, spec, trust.file, TRUE)
        ELSE Refused(agent, trust.file)
================================================================================
