------------------------------ MODULE MCAgentPolicy ------------------------------
(***************************************************************************)
(* What the policy around an agent promises: who is selected, what a run    *)
(* must be granted, and what its tools do to the files of its directory,    *)
(* over small hosts, repositories, trees and patches.                      *)
(***************************************************************************)
EXTENDS Integers, Sequences, FiniteSets

LOCAL INSTANCE SequencesExt

CONSTANTS Missing, Elsewhere

Policy == INSTANCE AgentSelection WITH None <- Missing, Outside <- Elsewhere

(***************************************************************************)
(* Selection and trust                                                     *)
(***************************************************************************)
Hosts == [executables : SUBSET Policy!Natives, credentials : SUBSET Policy!Apis]
Chosen == [adapter : {Missing, "codex", "openai", "mystery"}, model : {Missing, "m"}]
ChoiceTables == [defaults : Chosen, coding : Chosen, pm : Chosen]

Main == [root |-> "main", common |-> "git"]
Minted == [root |-> "minted", common |-> "git"]
Foreign == [root |-> "placed", common |-> "other"]
Strange == [root |-> "strange", common |-> "git"]
Places == {Main, Minted, Foreign, Strange}
Repository == [root |-> "main", common |-> "git", managed |-> {"minted", "placed"}]

\* A selected adapter can be used and is billed as what it is; without a configured
\* one, an API is paid for only on a host with no native tool.
ASSUME SubscriptionsComeFirst ==
    \A table \in ChoiceTables, stage \in {"coding", "pm"}, host \in Hosts :
        LET agent == Policy!SelectAgent(table, stage, host, Repository, TRUE)
            named == {table[stage].adapter, table.defaults.adapter} \ {Missing}
        IN  /\ agent # Missing =>
                  /\ Policy!Usable(agent.name, host)
                  /\ named # {} => agent.name \in named
                  /\ named = {} /\ host.executables # {} => Policy!Billing(agent.name) = "subscription"
                  /\ agent.name \in Policy!Apis => (agent.hostCapable <=> stage = "coding")
            /\ agent = Missing /\ named = {} => host.executables = {} /\ host.credentials = {}

Agents ==
    {Policy!SelectAgent(
        [defaults |-> [adapter |-> name, model |-> Missing], coding |-> [adapter |-> Missing, model |-> Missing],
         pm |-> [adapter |-> Missing, model |-> Missing], analysis |-> [adapter |-> Missing, model |-> Missing]],
        stage, [executables |-> Policy!Natives, credentials |-> Policy!Apis], Repository, shares) :
        name \in {"claude", "codex", "openai"}, stage \in {"coding", "pm", "analysis"}, shares \in BOOLEAN}
Files ==
    {[state |-> "absent", workspaces |-> {}, within |-> {}],
     [state |-> "ok", workspaces |-> {Main}, within |-> {}],
     [state |-> "ok", workspaces |-> {Strange}, within |-> {"minted"}],
     [state |-> "exposed", workspaces |-> {Main}, within |-> {}]}
Asks ==
    {[explicit |-> FALSE, interactive |-> FALSE, answer |-> "yes"], [explicit |-> TRUE, interactive |-> FALSE, answer |-> Missing],
     [explicit |-> FALSE, interactive |-> TRUE, answer |-> "yes"], [explicit |-> FALSE, interactive |-> TRUE, answer |-> "no"]}
Orders ==
    [kind : {"run"}, spec : [at : Places, tools : {{}, {"run_command"}}], asked : Asks, cancelled : {FALSE}]
    \cup [kind : {"run", "contained"}, spec : [at : {Missing}, tools : {{}, {"read_file"}, {"apply_patch"}}], asked : Asks,
          cancelled : BOOLEAN]

Carried(order, agent, file) ==
    IF order.kind = "run" THEN Policy!RunAgent(agent, order.spec, file, order.asked, order.cancelled)
    ELSE Policy!RunContained(agent, order.spec, file, order.asked, order.cancelled)
Consents(order) == order.asked.explicit \/ (order.asked.interactive /\ order.asked.answer = "yes")

\* What an agent that ran could do to the machine: a native tool anything its own
\* limits leave it, an API what its tools are.
Reaches(result) == result.agent.name \in Policy!Natives \/ "run_command" \in result.tools

\* An agent that can reach the machine runs only in the selected repository, and only
\* once the workspace that answers for its directory is trusted; the trust an earlier
\* run left with the adapter is no substitute.
ASSUME HostAccessIsGranted ==
    \A agent \in Agents, file \in Files, first \in Orders :
        LET before == Carried(first, agent, file)
        IN  \A order \in Orders :
              LET result == Carried(order, before.agent, before.file)
                  at == IF order.kind = "run" /\ (~agent.shares \/ order.spec.at.root \notin Repository.managed)
                        THEN order.spec.at ELSE Main
              IN  result.outcome = "ran" =>
                    /\ order.kind = "run" => order.spec.at \in {Main, Minted}
                    /\ Reaches(result) =>
                          /\ at \in result.file.workspaces /\ result.file.state = "ok"
                          /\ at.root \notin result.file.within
                    /\ "run_command" \in result.tools /\ agent.name \in Policy!Apis => agent.role = "coding"
                    /\ order.kind = "contained" /\ agent.hostCapable => result.tools \subseteq Policy!ReadOnlyTools

\* Nothing is trusted that nobody agreed to, no refusal is remembered, and a file that
\* is not to be believed is neither believed nor repaired.
ASSUME TrustIsAskedFor ==
    \A agent \in Agents, file \in Files, order \in Orders :
        LET result == Carried(order, agent, file)
            added == result.file.workspaces \ file.workspaces
        IN  /\ file.workspaces \subseteq result.file.workspaces
            /\ added # {} => Consents(order) /\ result.outcome = "ran" /\ Cardinality(added) = 1
            /\ file.state = "exposed" => result.file = file /\ (result.outcome = "ran" => ~agent.hostCapable)

\* Two processes that trust different workspaces may lose one of the two, never both
\* and never what was trusted before; a lost one is asked for again.
ASSUME LostTrustIsAskedAgain ==
    \A file \in {f \in Files : f.state # "exposed"}, a, b \in Places :
        LET seen == Policy!Document(file)
            One(f, id) == Policy!Trust(f, id)
            raced == Policy!Replaced(One(file, a), seen \cup {b})
        IN  /\ seen \subseteq raced.workspaces /\ raced.workspaces \subseteq seen \cup {a, b}
            /\ b \in raced.workspaces
            /\ \A paths \in {a, b} :
                  LET again == Policy!RequireTrust(paths, raced, [explicit |-> FALSE, interactive |-> FALSE, answer |-> Missing])
                  IN  paths.root \notin file.within => (again.granted <=> paths \in raced.workspaces)
            /\ One(One(file, a), b).workspaces = seen \cup {a, b}

(***************************************************************************)
(* Tools                                                                   *)
(***************************************************************************)
File(lines) == [kind |-> "file", lines |-> lines, ended |-> lines # <<>>]
Dir == [kind |-> "dir"]
Link(to) == [kind |-> "link", to |-> to]
Tree(links) ==
    [p \in {<<>>, <<"d">>, <<"d", "f">>, <<"g">>} \cup DOMAIN links |->
        CASE p \in DOMAIN links -> Link(links[p])
          [] p \in {<<>>, <<"d">>} -> Dir
          [] p = <<"d", "f">> -> File(<<"a", "b">>)
          [] p = <<"g">> -> File(<<"a">>)]
Targets == {<<"d">>, <<"g">>, <<"d", "f">>, <<"n">>, Elsewhere}
Trees ==
    {Tree(<<>>)} \cup {Tree([p \in {<<"l">>} |-> to]) : to \in Targets}
    \cup {Tree([p \in {<<"d", "l">>} |-> to]) : to \in Targets}

Plain(path) == [plain |-> TRUE, path |-> path]
Names == {<<>>, <<"d">>, <<"d", "f">>, <<"g">>, <<"n">>, <<"l">>, <<"d", "l">>, <<"l", "f">>, <<"g", "n">>,
          <<"n", "n">>, <<"l", "n">>}
Requests == {Plain(p) : p \in Names} \cup {[plain |-> FALSE, path |-> <<"g">>]}

\* What is listed can be read, a search finds only lines of it, and a link below that
\* leads out of the directory, or nowhere, is refused with the whole listing.
ASSUME ListedFilesCanBeRead ==
    \A tree \in Trees, request \in Requests :
        LET listed == Policy!ListFiles(tree, request)
            found == Policy!SearchText(tree, "a", request)
            real == Policy!Real(tree, request.path)
        IN  /\ listed # Missing =>
                  /\ \A p \in listed :
                        LET file == Policy!ReadFile(tree, Plain(p))
                        IN  /\ file # Missing
                            /\ \A i \in DOMAIN file.lines : <<p, i>> \in found <=> file.lines[i] = "a"
                  /\ \A m \in found : m[1] \in listed
                  /\ request.plain /\ real \in DOMAIN tree
                  /\ \A p \in DOMAIN tree :
                        IsPrefix(real, p) /\ tree[p].kind = "file" =>
                            \E n \in listed : Policy!Real(tree, n) = p
                  /\ \A p \in DOMAIN tree :
                        IsPrefix(real, p) /\ tree[p].kind = "link" => tree[p].to \in DOMAIN tree
            /\ Policy!ReadFile(tree, request) # Missing => listed = {request.path}

Header(operation, path) == [kind |-> "header", operation |-> operation, request |-> Plain(path)]
Line(kind, text) == [kind |-> kind, text |-> text]
Swap(old, new) == <<Line("hunk", ""), Line("-", old), Line("+", new)>>
Edits ==
    {<<Header("add", p), Line("+", "x")>> : p \in Names} \cup {<<Header("delete", p)>> : p \in Names}
    \cup {<<Header("update", p)>> \o Swap("a", "x") : p \in Names}
Patches ==
    Edits \cup {p \o q : p \in Edits, q \in Edits}
    \cup {<<>>, <<Line("+", "x")>>, <<Header("delete", <<"g">>), Line("+", "x")>>,
          <<Header("add", <<"n">>), Line(" ", "x")>>, <<Header("update", <<"g">>)>>}

Aims(patch) == {patch[i].request.path : i \in {k \in DOMAIN patch : patch[k].kind = "header"}}

\* A patch that is refused changes nothing.  One that fails on the way is one of two
\* actions that meet: a target below a file or a link, or two names of one file.
ASSUME RefusedPatchesChangeNothing ==
    \A tree \in Trees, patch \in Patches :
        LET done == Policy!ApplyPatch(tree, patch)
            aims == Aims(patch)
        IN  /\ done.outcome = "refused" => done.tree = tree
            /\ done.outcome = "failed" /\ done.tree # tree =>
                  \E p, q \in aims :
                    /\ p # q
                    /\ \/ IsPrefix(Policy!Real(tree, p), Policy!Real(tree, q))
                       \/ \E n \in 1..(Len(q) - 1) :
                             LET part == SubSeq(q, 1, n)
                             IN  Policy!Is(tree, part, "file") \/ Policy!IsLink(tree, part)

\* A name that the tree holds is the entry itself; another leads through a link.
Named(tree, path) == IF path \in DOMAIN tree THEN path ELSE Policy!Real(tree, path)

\* A patch that is applied leaves every target as its action says, provided that no
\* two of them name one file or lie one below the other; only what was not there is
\* added, no directory is deleted, and nothing else is touched.
ASSUME AppliedPatchesAreWhole ==
    \A tree \in Trees, first \in Edits, second \in Edits :
        LET done == Policy!ApplyPatch(tree, first \o second)
            Place(edit) == IF edit[1].operation = "delete" THEN Named(tree, edit[1].request.path)
                           ELSE Policy!Real(tree, edit[1].request.path)
            Left(edit) ==
                IF edit[1].operation = "delete" THEN Place(edit) \notin DOMAIN done.tree
                ELSE done.tree[Place(edit)].lines[1] = "x"
            Meant(edit) ==
                CASE edit[1].operation = "add" -> Named(tree, edit[1].request.path) \notin DOMAIN tree
                  [] edit[1].operation = "update" -> tree[Place(edit)].kind = "file"
                  [] edit[1].operation = "delete" -> tree[Place(edit)].kind # "dir"
            places == {Place(first), Place(second)}
            later == {Policy!Real(done.tree, edit[1].request.path) : edit \in {first, second}}
            apart == \A p, q \in places \cup later : IsPrefix(p, q) => p = q
        IN  done.outcome = "changed" =>
              /\ Elsewhere \notin places /\ Meant(first) /\ Meant(second)
              /\ Cardinality(places) = 2 /\ apart => Left(first) /\ Left(second)
              /\ \A p \in DOMAIN tree \cup DOMAIN done.tree :
                    \/ p \in DOMAIN tree /\ p \in DOMAIN done.tree /\ tree[p] = done.tree[p]
                    \/ \E place \in places \cup later : IsPrefix(p, place)

ShortFiles == UNION {[1..n -> {"a", "b"}] : n \in 0..3}
HunkLines == {Line(k, t) : k \in {" ", "+", "-"}, t \in {"a", "b"}}
Blocks == UNION {[1..n -> HunkLines] : n \in 0..2}
Before(block) == Policy!Texts(block, {" ", "-"})
After(block) == Policy!Texts(block, {" ", "+"})

\* The text with the two blocks replaced at the places m and n of it.
Spliced(text, b, m, c, n) ==
    SubSeq(text, 1, m) \o After(b) \o SubSeq(text, m + Len(Before(b)) + 1, n) \o After(c)
    \o SubSeq(text, n + Len(Before(c)) + 1, Len(text))

\* An update is applied exactly when its hunks fit the file one after the other, and
\* what it leaves is the file with those lines replaced and every other line kept.
ASSUME UpdatesFollowTheFile ==
    \A text \in ShortFiles, b \in Blocks, c \in Blocks :
        LET body == <<Line("hunk", "")>> \o b \o <<Line("hunk", "")>> \o c
            done == Policy!ApplyUpdate(File(text), body)
            Fits(block, n) == /\ n + Len(Before(block)) <= Len(text)
                              /\ SubSeq(text, n + 1, n + Len(Before(block))) = Before(block)
            places == {<<m, n>> \in (0..3) \X (0..3) :
                         Fits(b, m) /\ Fits(c, n) /\ m + Len(Before(b)) <= n}
        IN  /\ done = Missing <=> places = {}
            /\ done # Missing =>
                  \E p \in places : done.lines = Spliced(text, b, p[1], c, p[2])

\* What a tool does is what its role and the trust in the workspace allow: only a
\* trusted command role changes files by other means than a patch, and no call that
\* fails for a reader changes anything.
ASSUME GrantsBindTools ==
    \A role \in {"analysis", "planning", "coding"}, trusted \in BOOLEAN, name \in Policy!FileTools \cup {"run_command"},
       requested \in {{}, {"read_file"}, {"run_command"}, {"read_file", "run_command"}} :
        LET tree == Tree(<<>>)
            call == [name |-> name, request |-> Plain(<<"g">>), query |-> "a", argv |-> TRUE,
                     effect |-> Tree([p \in {<<"l">>} |-> <<"g">>]), patch |-> <<Header("delete", <<"g">>)>>]
            done == Policy!Execute(tree, role, trusted, call)
        IN  /\ done.tree # tree => name = "apply_patch" \/ (name = "run_command" /\ role = "coding" /\ trusted)
            /\ ~done.ok => done.tree = tree
            /\ \A tool \in Policy!Selected(role, trusted, requested) : requested # {} => tool \in requested
            /\ "run_command" \in Policy!Selected(role, trusted, requested) => Policy!Execute(tree, role, trusted, [call EXCEPT !.name = "run_command"]).ok
================================================================================
