---------------------------- MODULE MCTaskPipeline -----------------------------
(***************************************************************************)
(* The instance of TaskPipeline, with what is decided around a task: what  *)
(* the preflight and the guard of the checkout promise, over bounded       *)
(* analyses, hosts and checkouts.                                          *)
(***************************************************************************)
EXTENDS TaskPipeline

LOCAL INSTANCE SequencesExt

CONSTANT Absent

Preflight == INSTANCE HostPreflight WITH None <- Absent
Guard == INSTANCE CheckoutGuard WITH None <- Absent

(***************************************************************************)
(* Analyses and hosts                                                      *)
(***************************************************************************)
Record(program, cwd, verifies, stage, names) ==
    [program |-> program, cwd |-> cwd, verifies |-> verifies, stage |-> stage, names |-> names]
Bare(name) == [by |-> "bare", name |-> name]
Script(name) == [by |-> "path", name |-> name]

Check == Record(Bare("make"), ".", TRUE, "test", {"token"})
Unit == Record(Bare("make"), "lib", TRUE, "unit", {})
Checks ==
    {Check, Record(Script("run"), "lib", TRUE, "lint", {"key"}), Record(Script("run"), ".", TRUE, "lint", {}),
     Record(Bare("npm"), "docs", FALSE, "docs", {"key"})}
Catalogs == {<<>>} \cup {<<c>> : c \in Checks} \cup {<<x, c>> : x \in {Check, Unit}, c \in Checks}
            \cup {<<Record(Absent, ".", TRUE, "test", {})>>}

Setup == Record(Bare("npm"), ".", FALSE, "install", {})
Lists == {<<>>, <<Setup>>, <<Record(Script("run"), "docs", FALSE, "install", {})>>}

Declaration(name, scope, stages) == [name |-> name, scope |-> scope, usedBy |-> stages]
Token == Declaration("token", "build", {"deploy"})
SecretLists ==
    {<<>>, <<Token>>, <<Token, Declaration("token", "build", {"install"})>>,
     <<Token, Declaration("token", "agent", {"test"})>>,
     <<Token, Declaration("key", "all", {"run"})>>,
     <<Token, Declaration("key", "agent", {"lint"})>>,
     <<Declaration("token", "build", {})>>, <<Declaration("token", "build", {"lint"})>>}

Analyses ==
    [catalog : Catalogs, prepare : Lists, materialize : {<<>>, <<Setup>>}, secrets : SecretLists]

Host(programs, tracked, onPath) ==
    [trusted |-> TRUE, inside |-> {".", "lib", "docs"}, dirs |-> {".", "lib"},
     programs |-> programs, tracked |-> tracked, onPath |-> onPath]
Run == <<"lib", "run">>
Hosts ==
    {Host({Run}, {Run}, {"make", "npm"}), Host({Run}, {}, {"make"}), Host({Run}, {Run}, {}),
     Host({}, {}, {"make", "npm"})}
Stocks == {{}, {"token"}, {"token", "key"}}

PlanOf(a, host, available, sanity, preparation) ==
    Preflight!Validate(a, host, available, sanity, preparation)
Accepted(plan) == plan.failures = {}

Delivered(plan, available) ==
    LET values == available \cap {s.name : s \in plan.secrets}
        Set(stage) == Preflight!CommandSecrets(plan, stage, values)
    IN  /\ Preflight!AgentSecrets(plan, values) # Absent
        /\ \A list \in {plan.commands, plan.prepare, plan.materialize} :
              \A i \in DOMAIN list : Set(list[i].stage) # Absent
        /\ \A i \in DOMAIN plan.commands : plan.commands[i].names \subseteq Set(plan.commands[i].stage)

\* An accepted run never finds later that a secret has no value: not when it
\* prepares a worktree, not when it calls an agent, and not at the gate, where each
\* check gets every secret it names.
ASSUME AcceptedRunsGetTheirSecrets ==
    /\ \E a \in Analyses, host \in Hosts : Accepted(PlanOf(a, host, {"token", "key"}, TRUE, "required"))
    /\ \A a \in Analyses, host \in Hosts, available \in Stocks, preparation \in {"required", "optional"} :
         LET plan == PlanOf(a, host, available, TRUE, preparation)
         IN  Accepted(plan) => Delivered(plan, available)

WithoutDropped(a, host) ==
    [a EXCEPT !.catalog = SelectSeq(@, LAMBDA r :
        Preflight!IsSound(r, "catalog", host) =>
            Preflight!Unavailable(Preflight!Key(r), host) = Absent)]

\* A check that the host cannot run is to a run as if it had never been declared:
\* neither its secrets nor its stage are asked for, and no run is refused because of
\* it that would not be refused without it.
ASSUME DroppedChecksAskForNothing ==
    \A a \in Analyses, host \in Hosts, available \in Stocks, sanity \in BOOLEAN :
        LET plan == PlanOf(a, host, available, sanity, "required")
            without == PlanOf(WithoutDropped(a, host), host, available, sanity, "required")
        IN  /\ Accepted(plan) <=> Accepted(without)
            /\ plan.commands = without.commands /\ plan.secrets = without.secrets

\* A gate that is off, a preparation that may fail and a secret that is configured
\* in addition never refuse a run that was accepted without them.
ASSUME LeniencyNeverRefuses ==
    \A a \in Analyses, host \in Hosts, available \in Stocks :
        Accepted(PlanOf(a, host, available, TRUE, "required")) =>
            \A more \in Stocks, preparation \in {"required", "optional", "skipped"} :
                available \subseteq more =>
                    Accepted(PlanOf(a, host, more, FALSE, preparation))

\* Two sightings of one secret are one requirement, in whatever order they come.
ASSUME EvidenceHasNoOrder ==
    \A a \in Analyses, host \in Hosts, available \in Stocks :
        LET turned == [a EXCEPT !.secrets = Reverse(@)]
        IN  Accepted(PlanOf(a, host, available, TRUE, "required")) <=>
                Accepted(PlanOf(turned, host, available, TRUE, "required"))

(***************************************************************************)
(* Checkouts                                                               *)
(***************************************************************************)
Entries == {[kind |-> k, paths |-> p] : k \in {"tracked", "untracked"}, p \in {{"own"}, {"src"}, {"own", "src"}}}
Checkouts ==
    {Absent} \cup [entries : {S \in SUBSET Entries : Cardinality(S) <= 2}, head : {1, 2}, branch : {"main", "side"}]

\* A phase that fails does not hide what it did to the checkout, a phase is never
\* blamed for what it found, and what it may write without blame is untracked and
\* Betterborg's own.
ASSUME GuardBlamesTheChange ==
    \A before \in {c \in Checkouts : c = Absent \/ c.head = 1}, after \in Checkouts :
        LET returned == Guard!Protect(before, after, FALSE, {"own"})
            failed == Guard!Protect(before, after, TRUE, {"own"})
        IN  /\ Guard!WasChanged(returned) = Guard!WasChanged(failed)
            /\ returned.ran = failed.ran
            /\ returned.ran /\ after # Absent /\ ~Guard!WasChanged(returned) =>
                 /\ after.head = before.head /\ after.branch = before.branch
                 /\ \A e \in after.entries : e.kind = "untracked" /\ e.paths = {"own"}
================================================================================
