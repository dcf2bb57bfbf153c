------------------------------ MODULE ContainedTools ------------------------------
(***************************************************************************)
(* The tools of an agent that is reached over an API                       *)
(* (agent_runtime/api_tools.py): their grants, the files of a run           *)
(* directory, and patches.                                                 *)
(*                                                                         *)
(* The run directory is a tree: a function from real paths (sequences of    *)
(* names; <<>> is the directory itself) to entries                          *)
(*   [kind |-> "dir"],  [kind |-> "file", lines, ended],                   *)
(*   [kind |-> "link", to]                                                 *)
(* where to is a real path, with or without an entry, or Outside, and never *)
(* another link.  A request is [plain, path]: it is plain unless the text   *)
(* was empty, absolute or held "..".                                       *)
(***************************************************************************)
EXTENDS Integers, Sequences, FiniteSets, SequencesExt

CONSTANTS None, Outside

(***************************************************************************)
(* Grants                                                                  *)
(***************************************************************************)
CommandRoles == {"coding", "review", "merge"}
ReadOnlyTools == {"list_files", "read_file", "search_text"}
FileTools == ReadOnlyTools \cup {"apply_patch"}

ReadOnlyToolSet(allowed) == allowed # {} /\ allowed \subseteq ReadOnlyTools

AvailableTools(role, trusted) ==
    FileTools \cup (IF trusted /\ role \in CommandRoles THEN {"run_command"} ELSE {})

\* select_api_tool_names
Selected(role, trusted, requested) ==
    IF requested = {} THEN AvailableTools(role, trusted)
    ELSE AvailableTools(role, trusted) \cap requested

(***************************************************************************)
(* Paths                                                                   *)
(***************************************************************************)
Real(tree, path) ==
    LET Follow(at, name) ==
            IF at = Outside THEN Outside
            ELSE LET next == Append(at, name)
                 IN  IF next \in DOMAIN tree /\ tree[next].kind = "link" THEN tree[next].to ELSE next
    IN  FoldLeft(Follow, <<>>, path)

Exists(tree, path) == Real(tree, path) # Outside /\ Real(tree, path) \in DOMAIN tree
Is(tree, path, kind) == Exists(tree, path) /\ tree[Real(tree, path)].kind = kind
Parent(path) == IF path = <<>> THEN <<>> ELSE Front(path)

\* The entry itself, not what it links to.
Itself(tree, path) ==
    LET parent == Real(tree, Parent(path))
    IN  IF parent = Outside \/ path = <<>> THEN parent ELSE Append(parent, Last(path))
IsLink(tree, path) ==
    LET entry == Itself(tree, path)
    IN  entry # Outside /\ entry \in DOMAIN tree /\ tree[entry].kind = "link"

Contained(tree, request, mustExist) ==
    /\ request.plain
    /\ Real(tree, request.path) # Outside
    /\ mustExist => Exists(tree, request.path)

(***************************************************************************)
(* Reading                                                                 *)
(***************************************************************************)
\* os.walk without following links: what lies below the real directory.
Below(tree, path) ==
    LET real == Real(tree, path)
    IN  {path \o SubSeq(p, Len(real) + 1, Len(p)) : p \in {q \in DOMAIN tree : IsStrictPrefix(real, q)}}

\* One link below the path that leads out, or nowhere, refuses the whole listing.
ListFiles(tree, request) ==
    LET path == request.path
        below == Below(tree, path)
    IN  IF ~Contained(tree, request, TRUE) THEN None
        ELSE IF Is(tree, path, "file") THEN {path}
        ELSE IF \E p \in below : ~Contained(tree, [plain |-> TRUE, path |-> p], TRUE) THEN None
        ELSE {p \in below : Is(tree, p, "file")}

\* A line matches when it holds the query; here, when it is the query.
SearchText(tree, query, request) ==
    LET files == ListFiles(tree, request)
        Lines(p) == tree[Real(tree, p)].lines
    IN  IF query = "" \/ files = None THEN None
        ELSE UNION {{<<p, i>> : i \in {k \in DOMAIN Lines(p) : Lines(p)[k] = query}} : p \in files}

ReadFile(tree, request) ==
    IF Contained(tree, request, TRUE) /\ Is(tree, request.path, "file")
    THEN tree[Real(tree, request.path)] ELSE None

(***************************************************************************)
(* Patches.  A line of a patch is [kind |-> "header", operation, request]  *)
(* or [kind, text] with kind one of "hunk", " ", "+", "-", "note" (no       *)
(* newline at the end of the file) and "other".                            *)
(***************************************************************************)
Actions(patch) ==
    LET headers == SelectSeq([i \in DOMAIN patch |-> i], LAMBDA i : patch[i].kind = "header")
        End(k) == IF k = Len(headers) THEN Len(patch) ELSE headers[k + 1] - 1
    IN  [k \in DOMAIN headers |->
            [operation |-> patch[headers[k]].operation, request |-> patch[headers[k]].request,
             body |-> SubSeq(patch, headers[k] + 1, End(k))]]

Wellformed(patch) ==
    /\ patch # <<>> /\ patch[1].kind = "header"
    /\ \A action \in Range(Actions(patch)) :
          /\ action.operation = "add" => \A line \in Range(action.body) : line.kind = "+"
          /\ action.operation = "delete" => action.body = <<>>

Texts(lines, kinds) ==
    LET chosen == SelectSeq(lines, LAMBDA line : line.kind \in kinds)
    IN  [i \in DOMAIN chosen |-> chosen[i].text]

\* The number of lines before the first place at or after start, or None.
FindLines(lines, expected, start) ==
    LET places == {n \in start..(Len(lines) - Len(expected)) :
                     SubSeq(lines, n + 1, n + Len(expected)) = expected}
    IN  IF expected = <<>> THEN start
        ELSE IF places = {} THEN None ELSE CHOOSE n \in places : \A m \in places : n <= m

Hunks(body) ==
    LET marks == SelectSeq([i \in DOMAIN body |-> i], LAMBDA i : body[i].kind = "hunk")
        End(k) == IF k = Len(marks) THEN Len(body) ELSE marks[k + 1] - 1
    IN  [k \in DOMAIN marks |-> SubSeq(body, marks[k] + 1, End(k))]

ApplyUpdate(file, body) ==
    LET Replace(state, hunk) ==
            LET before == Texts(hunk, {" ", "-"})
                after == Texts(hunk, {" ", "+"})
                at == FindLines(state.lines, before, state.cursor)
            IN  IF ~state.fits \/ at = None \/ \E line \in Range(hunk) : line.kind = "other"
                THEN [state EXCEPT !.fits = FALSE]
                ELSE [fits |-> TRUE, cursor |-> at + Len(after),
                      lines |-> SubSeq(state.lines, 1, at) \o after
                                \o SubSeq(state.lines, at + Len(before) + 1, Len(state.lines))]
        done == FoldLeft(Replace, [fits |-> TRUE, cursor |-> 0, lines |-> file.lines], Hunks(body))
    IN  IF body = <<>> \/ body[1].kind # "hunk" \/ ~done.fits THEN None
        ELSE [kind |-> "file", lines |-> done.lines, ended |-> file.ended /\ done.lines # <<>>]

\* What an action will leave at its target: an entry, "gone", or None when it is refused.
Prepared(tree, action) ==
    LET path == action.request.path
    IN  IF ~Contained(tree, action.request, action.operation # "add") THEN None
        ELSE CASE action.operation = "add" ->
                    IF Exists(tree, path) \/ IsLink(tree, path) THEN None
                    ELSE [kind |-> "file", lines |-> Texts(action.body, {"+"}), ended |-> action.body # <<>>]
               [] action.operation = "update" ->
                    IF Is(tree, path, "file") THEN ApplyUpdate(tree[Real(tree, path)], action.body) ELSE None
               [] action.operation = "delete" ->
                    IF Is(tree, path, "file") \/ IsLink(tree, path) THEN [kind |-> "gone"] ELSE None

\* mkdir(parents=True, exist_ok=True) of the parent fails on a file or a dangling link.
Writable(tree, path) ==
    \A n \in 0..(Len(path) - 1) :
        LET part == SubSeq(path, 1, n)
        IN  Exists(tree, part) => Is(tree, part, "dir")
Dangling(tree, path) ==
    \E n \in 1..(Len(path) - 1) :
        LET part == SubSeq(path, 1, n) IN IsLink(tree, part) /\ ~Exists(tree, part)

WriteFile(tree, path, entry) ==
    LET real == Real(tree, path)
        parents == {SubSeq(real, 1, n) : n \in 0..(Len(real) - 1)} \ DOMAIN tree
    IN  [p \in DOMAIN tree \cup parents \cup {real} |->
            IF p = real THEN entry ELSE IF p \in parents THEN [kind |-> "dir"] ELSE tree[p]]

\* The second loop of apply_patch.  It stops where the file system refuses, and what
\* was written before stays; a file that is gone already cannot be removed again.
Written(state, action, entry) ==
    LET path == action.request.path
        entryPath == Itself(state.tree, path)
        fails == IF entry.kind = "gone" THEN entryPath \notin DOMAIN state.tree
                 ELSE ~Writable(state.tree, path) \/ Dangling(state.tree, path) \/ Is(state.tree, path, "dir")
    IN  IF state.failed THEN state
        ELSE IF fails THEN [state EXCEPT !.failed = TRUE]
        ELSE [state EXCEPT !.tree =
                IF entry.kind = "gone" THEN [p \in DOMAIN @ \ {entryPath} |-> @[p]]
                ELSE WriteFile(@, path, entry)]

ApplyPatch(tree, patch) ==
    LET actions == Actions(patch)
        prepared == [i \in DOMAIN actions |-> Prepared(tree, actions[i])]
        twice == \E i, j \in DOMAIN actions : i # j /\ actions[i].request.path = actions[j].request.path
        refused == ~Wellformed(patch) \/ twice \/ \E i \in DOMAIN actions : prepared[i] = None
        Step(state, i) == Written(state, actions[i], prepared[i])
    IN  IF refused THEN [outcome |-> "refused", tree |-> tree]
        ELSE LET done == FoldLeft(Step, [tree |-> tree, failed |-> FALSE], [i \in DOMAIN actions |-> i])
             IN  [outcome |-> IF done.failed THEN "failed" ELSE "changed", tree |-> done.tree]

(***************************************************************************)
(* execute.  A command may do anything to the tree: its effect is given.   *)
(***************************************************************************)
Execute(tree, role, trusted, call) ==
    LET Read(value) == [ok |-> value # None, tree |-> tree]
    IN  IF call.name \notin AvailableTools(role, trusted) THEN [ok |-> FALSE, tree |-> tree]
        ELSE CASE call.name = "list_files" -> Read(ListFiles(tree, call.request))
               [] call.name = "search_text" -> Read(SearchText(tree, call.query, call.request))
               [] call.name = "read_file" -> Read(ReadFile(tree, call.request))
               [] call.name = "apply_patch" ->
                    LET done == ApplyPatch(tree, call.patch)
                    IN  [ok |-> done.outcome = "changed", tree |-> done.tree]
               [] call.name = "run_command" -> [ok |-> call.argv, tree |-> IF call.argv THEN call.effect ELSE tree]
================================================================================
