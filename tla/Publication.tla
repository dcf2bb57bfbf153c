------------------------------ MODULE Publication ------------------------------
(***************************************************************************)
(* How an approved task reaches the project branch: the merge phase        *)
(* (host_execution/merge.py), the sanity phase (sanity.py) and the Git     *)
(* references they share, by workers of one or more processes.  A process  *)
(* runs one worker at a time inside its publication lock (service.py); two *)
(* processes share nothing but Git and the store, and a worker that lost   *)
(* its task to another process finds that out only at its next store       *)
(* write: its Git commands still take effect.  A process makes one         *)
(* invocation.  The tasks that have no work yet are not among the Tasks;   *)
(* of their workers the model has what they do to the project branch,      *)
(* outside the lock.                                                       *)
(*                                                                         *)
(* A commit is a number, given out in order; history[c] is the set of c    *)
(* and its ancestors, {} while c does not exist, so is_ancestor(a, b) is   *)
(* a \in history[b].  Each Git command and each store transaction is one   *)
(* step.  A task is known from the moment its review approved it: its      *)
(* status is "merging" from then on, also while nobody holds its claim.    *)
(***************************************************************************)
EXTENDS Integers, FiniteSets, Sequences

CONSTANTS
    Task,
    Process,         \* processes that run `betterborg execute`
    Commit,          \* bound: the commits that can come to exist
    Root,            \* the commit the project branch starts from
    ApprovedCommit,  \* the commit a task's review approved
    NoCommit,        \* no MERGE_HEAD, a null commit column
    NoProcess,       \* no claim
    MaxAttempts,     \* bound on completed merge agents of a task
    Disturbances     \* what goes wrong: a subset of Disturbance

Disturbance == {"crash", "lapse", "cancel", "catalog", "agent", "source",
                "files"}

ASSUME PublicationAssumption ==
    /\ Commit \subseteq Nat
    /\ Root \in Commit
    /\ ApprovedCommit \in [Task -> Commit]
    /\ NoCommit \notin Commit
    /\ NoProcess \notin Process
    /\ MaxAttempts \in Nat
    /\ Disturbances \subseteq Disturbance

VARIABLES
    history,    \* ancestors of every commit, itself included
    project,    \* refs/heads/project/<borg>
    source,     \* the configured source branch
    head,       \* HEAD of each task's worktree, that is, its branch
    mergeHead,  \* MERGE_HEAD there, with unresolved paths while it is set
    dirty,      \* other uncommitted changes that git status reports there
    worktree,   \* whether the worktree exists
    status,     \* task_runtimes.status
    holder,     \* the process with the live claim
    process,    \* each process: its run, if it has begun, and its token
    started,    \* merge started events
    merged,     \* merge completed events
    attempts,   \* results of completed merge agents, oldest first
    advances,   \* base advance started events
    pc,         \* where each worker is
    base,       \* the project commit it read
    tip,        \* the commit it expects its merge to make, then its merge tip
    verdict     \* how its merge agent ended

git == <<history, project, source, head, mergeHead, dirty, worktree>>
events == <<started, merged, attempts, advances>>
store == <<status, holder, events>>
locals == <<base, tip, verdict>>
vars == <<git, store, process, pc, locals>>

\* A process works on a task in at most one thread.
Worker == Process \X Task
ProcessOf(w) == w[1]
TaskOf(w) == w[2]
WorkersOf(p) == {w \in Worker : ProcessOf(w) = p}

Locked == {"merge", "gitMerge", "verify", "agent", "agentRuns", "agentDone",
           "conclude", "tip", "catalog", "attest", "advance", "advanced",
           "cleanup", "finish"}

Holds(w) == holder[TaskOf(w)] = ProcessOf(w)
Existing == {c \in Commit : history[c] # {}}
Fresh(c) == c \in Commit \ Existing /\ \A d \in Commit \ Existing : c <= d
IsAncestor(a, b) == a \in history[b]

\* The history of a merge commit c of a and b, and whether c is one.
WithMerge(c, a, b) ==
    [history EXCEPT ![c] = history[a] \cup history[b] \cup {c}]
IsMerge(c, a, b) ==
    IF IsAncestor(a, b) THEN c = b
    ELSE history[c] = history[a] \cup history[b] \cup {c}

Goto(w, label) == pc' = [pc EXCEPT ![w] = label]

Stays(w, label) ==
    /\ Goto(w, label)
    /\ UNCHANGED <<git, store, process, locals>>

\* The thread of the worker is over.
Over(w) ==
    /\ Goto(w, "idle")
    /\ base' = [base EXCEPT ![w] = NoCommit]
    /\ tip' = [tip EXCEPT ![w] = NoCommit]
    /\ verdict' = [verdict EXCEPT ![w] = "none"]

\* It ends and leaves its claim, if it still has one, as it is.
Leaves(w) == Over(w) /\ UNCHANGED <<git, store, process>>

\* The transition out of merging, refused unless the worker holds its task.
Settles(w, result) ==
    /\ Over(w)
    /\ IF Holds(w) /\ status[TaskOf(w)] = "merging"
       THEN /\ status' = [status EXCEPT ![TaskOf(w)] = result]
            /\ holder' = [holder EXCEPT ![TaskOf(w)] = NoProcess]
       ELSE UNCHANGED <<status, holder>>
    /\ UNCHANGED <<git, events, process>>
Blocks(w) == Settles(w, "blocked")

(***************************************************************************)
(* Runs and claims, as far as publication sees them.                       *)
(***************************************************************************)
Cancelled(w) == process[ProcessOf(w)] = "cancelled"

\* A new process takes the run over: the claims of the old one are released and
\* its own workers are to come.  It prepares the worktrees of tasks that are not
\* done, and the project branch follows a source branch that is ahead of it; a
\* project branch that diverged from it stops the setup.
Acquire(p) ==
    /\ process[p] = "new"
    /\ "lapse" \in Disturbances \/ \A w \in Worker : pc[w] = "idle"
    /\ IsAncestor(project, source) \/ IsAncestor(source, project)
    /\ process' = [q \in Process |-> IF q = p THEN "running"
                                     ELSE IF process[q] = "new" THEN "new" ELSE "lost"]
    /\ holder' = [t \in Task |-> NoProcess]
    /\ worktree' = [t \in Task |-> worktree[t] \/ status[t] # "done"]
    /\ project' = IF IsAncestor(project, source) THEN source ELSE project
    /\ UNCHANGED <<history, source, head, mergeHead, dirty, status, events, pc, locals>>

\* The worker of a task that never started, which is not among the Tasks, brings
\* its worktree up to date before it takes any lock, and with it the project branch.
Refresh(p) ==
    /\ \/ process[p] \in {"running", "cancelled"}
       \/ process[p] = "lost" /\ "lapse" \in Disturbances
    /\ project # source
    /\ IsAncestor(project, source)
    /\ project' = source
    /\ UNCHANGED <<history, source, head, mergeHead, dirty, worktree, store, process, pc,
                   locals>>

\* What runs between a claim and its turn in the lock is in TaskPipeline.
Claim(w) ==
    /\ pc[w] = "idle"
    /\ process[ProcessOf(w)] = "running"
    /\ status[TaskOf(w)] = "merging"
    /\ holder[TaskOf(w)] = NoProcess
    /\ holder' = [holder EXCEPT ![TaskOf(w)] = ProcessOf(w)]
    /\ Goto(w, "waiting")
    /\ UNCHANGED <<git, status, events, process, locals>>

\* HostTaskRuntime takes the publication lock and looks at the token again.
Enter(w) ==
    /\ pc[w] = "waiting"
    /\ \A v \in WorkersOf(ProcessOf(w)) : pc[v] \notin Locked
    /\ Stays(w, IF Cancelled(w) THEN "idle" ELSE "merge")

(***************************************************************************)
(* Attestations: which tips of the task branch may be trusted.             *)
(***************************************************************************)
StartedOn(t, target) == {e \in started[t] : IsAncestor(e.base, target)}
MergedOn(t, target) == {e \in merged[t] : IsAncestor(e.base, target)}
AgentsOn(t, target) ==
    {attempts[t][i] : i \in {j \in 1..Len(attempts[t]) :
        /\ attempts[t][j].commit # NoCommit
        /\ IsAncestor(attempts[t][j].base, target)}}

\* Mutants: a merge begun is not trusted before its completion is recorded; and
\* any tip is.
AttestedByCompletion(t, commit, target) ==
    \/ commit = ApprovedCommit[t]
    \/ \E e \in MergedOn(t, target) \cup AgentsOn(t, target) : e.commit = commit
AttestedAnyhow(t, commit, target) == commit \in Commit

\* _attested_tip_agent_used is not None
Attested(t, commit, target) ==
    \/ commit = ApprovedCommit[t]
    \/ \E e \in MergedOn(t, target) \cup AgentsOn(t, target) : e.commit = commit
    \/ \E e \in StartedOn(t, target) : e.expected = commit

ByAgent(t, commit, target) ==
    commit # ApprovedCommit[t] /\ \E e \in AgentsOn(t, target) : e.commit = commit

\* _verified_tip_locked, on the HEAD of the worktree
Verified(w) ==
    LET t == TaskOf(w)
    IN  /\ project = base[w]
        /\ worktree[t]
        /\ mergeHead[t] = NoCommit
        /\ ~ dirty[t]
        /\ IsAncestor(ApprovedCommit[t], head[t])
        /\ IsAncestor(base[w], head[t])

(***************************************************************************)
(* HostMergePhase._merge                                                   *)
(***************************************************************************)
MergeReads(w, ready) ==
    /\ pc[w] = "merge"
    /\ ready
    /\ UNCHANGED <<git, status, holder, process, verdict>>

\* An active merge is only resumed on the base it was started for, whatever else
\* its worktree holds.
MergeResumes(w) ==
    LET t == TaskOf(w)
    IN  /\ MergeReads(w, worktree[t] /\ mergeHead[t] # NoCommit)
        /\ mergeHead[t] = project
        /\ Attested(t, head[t], project)
        /\ \E e \in started[t] : e.starting = head[t] /\ e.base = project
        /\ base' = [base EXCEPT ![w] = project]
        /\ Goto(w, "agent")
        /\ UNCHANGED <<events, tip>>

\* The tip contains the base already: nothing to merge.
MergeHasBase(w) ==
    LET t == TaskOf(w)
        event == [base |-> project, commit |-> head[t]]
    IN  /\ MergeReads(w, worktree[t] /\ mergeHead[t] = NoCommit /\ ~ dirty[t])
        /\ Attested(t, head[t], project)
        /\ IsAncestor(project, head[t])
        /\ IsAncestor(ApprovedCommit[t], head[t])
        /\ ByAgent(t, head[t], project) \/ event \in merged[t] \/ Holds(w)
        /\ merged' = IF ByAgent(t, head[t], project) THEN merged
                     ELSE [merged EXCEPT ![t] = @ \cup {event}]
        /\ base' = [base EXCEPT ![w] = project]
        /\ tip' = [tip EXCEPT ![w] = head[t]]
        /\ Goto(w, "tip")
        /\ UNCHANGED <<started, attempts, advances>>

\* The commit a clean merge will create is built and attested before Git
\* merges; a conflict is attested as no commit.
MergeStarts(w) ==
    LET t == TaskOf(w)
    IN  /\ pc[w] = "merge"
        /\ worktree[t] /\ mergeHead[t] = NoCommit /\ ~ dirty[t]
        /\ Attested(t, head[t], project)
        /\ ~ IsAncestor(project, head[t])
        /\ Holds(w)
        /\ \E c \in Commit \cup {NoCommit} :
             /\ \/ /\ IsAncestor(head[t], project)
                   /\ c = project
                   /\ UNCHANGED history
                \/ /\ ~ IsAncestor(head[t], project)
                   /\ Fresh(c)
                   /\ history' = WithMerge(c, head[t], project)
                \/ /\ ~ IsAncestor(head[t], project)
                   /\ c = NoCommit
                   /\ UNCHANGED history
             /\ tip' = [tip EXCEPT ![w] = c]
             /\ started' = [started EXCEPT
                              ![t] = @ \cup {[starting |-> head[t], base |-> project,
                                              expected |-> c]}]
        /\ base' = [base EXCEPT ![w] = project]
        /\ Goto(w, "gitMerge")
        /\ UNCHANGED <<project, source, head, mergeHead, dirty, worktree, status, holder,
                       merged, attempts, advances, process, verdict>>

\* Every other reading of the worktree blocks the task.
MergeRefuses(w) ==
    LET t == TaskOf(w)
    IN  /\ pc[w] = "merge"
        /\ \/ ~ worktree[t]
           \/ mergeHead[t] = NoCommit /\ dirty[t]
           \/ ~ Attested(t, head[t], project)
           \/ /\ mergeHead[t] # NoCommit
              /\ \/ mergeHead[t] # project
                 \/ ~ \E e \in started[t] : e.starting = head[t] /\ e.base = project
           \/ /\ mergeHead[t] = NoCommit
              /\ IsAncestor(project, head[t])
              /\ ~ IsAncestor(ApprovedCommit[t], head[t])
        /\ Blocks(w)

\* The store refuses the attestation of a worker that lost its task.
MergeIsFenced(w) ==
    /\ pc[w] = "merge"
    /\ ~ Holds(w)
    /\ Leaves(w)

\* git merge --ff of the base; HEAD may not be what it was, and changes to files
\* that the merge leaves alone do not stop it.
GitMerge(w) ==
    LET t == TaskOf(w)
        b == base[w]
    IN  /\ pc[w] = "gitMerge"
        /\ worktree[t]
        /\ \/ /\ mergeHead[t] # NoCommit \* another merge is active: conflicted paths
              /\ Goto(w, "agent")
              /\ UNCHANGED <<history, head, mergeHead>>
           \/ /\ mergeHead[t] = NoCommit
              /\ IsAncestor(b, head[t])
              /\ Goto(w, "verify")
              /\ UNCHANGED <<history, head, mergeHead>>
           \/ /\ mergeHead[t] = NoCommit
              /\ ~ IsAncestor(b, head[t])
              /\ tip[w] = NoCommit
              /\ mergeHead' = [mergeHead EXCEPT ![t] = b]
              /\ Goto(w, "agent")
              /\ UNCHANGED <<history, head>>
           \/ /\ mergeHead[t] = NoCommit
              /\ ~ IsAncestor(b, head[t])
              /\ tip[w] # NoCommit
              /\ \E c \in Commit :
                   /\ \/ /\ IsMerge(tip[w], head[t], b)
                         /\ c = tip[w]
                         /\ UNCHANGED history
                      \/ /\ ~ IsMerge(tip[w], head[t], b)
                         /\ Fresh(c)
                         /\ history' = WithMerge(c, head[t], b)
                   /\ head' = [head EXCEPT ![t] = c]
              /\ Goto(w, "verify")
              /\ UNCHANGED mergeHead
        /\ UNCHANGED <<project, source, dirty, worktree, store, process, locals>>

\* Git refuses to write over uncommitted changes.
GitMergeFails(w) ==
    /\ pc[w] = "gitMerge"
    /\ ~ worktree[TaskOf(w)] \/ dirty[TaskOf(w)]
    /\ Blocks(w)

MergeVerifies(w) ==
    LET t == TaskOf(w)
        event == [base |-> base[w], commit |-> head[t]]
    IN  /\ pc[w] = "verify"
        /\ Verified(w)
        /\ head[t] = tip[w]
        /\ Holds(w)
        /\ merged' = [merged EXCEPT ![t] = @ \cup {event}]
        /\ Goto(w, "tip")
        /\ UNCHANGED <<git, status, holder, started, attempts, advances, process, locals>>

MergeUnverified(w) ==
    /\ pc[w] = "verify"
    /\ IF Verified(w) /\ head[TaskOf(w)] = tip[w]
       THEN ~ Holds(w) /\ Leaves(w)
       ELSE Blocks(w)

(***************************************************************************)
(* The merge agent, called on conflicts.                                   *)
(***************************************************************************)
LastAttempt(t) == attempts[t][Len(attempts[t])]
Resumable(w) ==
    LET t == TaskOf(w)
    IN  /\ attempts[t] # <<>>
        /\ LastAttempt(t).commit # NoCommit
        /\ LastAttempt(t).base = base[w]

\* _resume_agent_tip: a completed attempt on this base is used again.
AgentResumes(w) ==
    LET t == TaskOf(w)
    IN  /\ pc[w] = "agent"
        /\ Resumable(w)
        /\ IF head[t] = LastAttempt(t).commit /\ Verified(w)
           THEN /\ tip' = [tip EXCEPT ![w] = head[t]]
                /\ Goto(w, "tip")
                /\ UNCHANGED <<git, store, process, base, verdict>>
           ELSE Blocks(w)

\* append_agent_attempt, then the agent starts.
AgentStarts(w) ==
    /\ pc[w] = "agent"
    /\ ~ Resumable(w)
    /\ Len(attempts[TaskOf(w)]) < MaxAttempts
    /\ IF Holds(w) THEN Stays(w, "agentRuns") ELSE Leaves(w)

\* The agent commits its resolution or leaves the merge as it is, or aborts it, or
\* leaves other files behind.
AgentWorks(w) ==
    LET t == TaskOf(w)
    IN  /\ pc[w] = "agentRuns"
        /\ worktree[t]
        /\ mergeHead[t] # NoCommit
        /\ \/ \E c \in Commit :
                /\ Fresh(c)
                /\ history' = WithMerge(c, head[t], mergeHead[t])
                /\ head' = [head EXCEPT ![t] = c]
                /\ mergeHead' = [mergeHead EXCEPT ![t] = NoCommit]
                /\ UNCHANGED dirty
           \/ /\ "agent" \in Disturbances
              /\ mergeHead' = [mergeHead EXCEPT ![t] = NoCommit]
              /\ UNCHANGED <<history, head, dirty>>
           \/ /\ "files" \in Disturbances
              /\ dirty' = [dirty EXCEPT ![t] = TRUE]
              /\ UNCHANGED <<history, head, mergeHead>>
        /\ UNCHANGED <<project, source, worktree, store, process, pc, locals>>

AgentEnds(w) ==
    /\ pc[w] = "agentRuns"
    /\ \E result \in {"completed", "failed", "blocked", "stopped"} :
         /\ \/ result = "completed" /\ mergeHead[TaskOf(w)] = NoCommit
            \/ "agent" \in Disturbances
         /\ verdict' = [verdict EXCEPT ![w] = result]
    /\ Goto(w, "agentDone")
    /\ UNCHANGED <<git, store, process, base, tip>>

\* complete_agent_attempt with the classified outcome: a tip, or no commit.
AgentRecorded(w) ==
    LET t == TaskOf(w)
        good == verdict[w] = "completed" /\ Verified(w)
        outcome == [base |-> base[w], commit |-> IF good THEN head[t] ELSE NoCommit]
    IN  /\ pc[w] = "agentDone"
        /\ verdict[w] # "stopped"
        /\ Holds(w)
        /\ attempts' = [attempts EXCEPT ![t] = Append(@, outcome)]
        /\ tip' = [tip EXCEPT ![w] = outcome.commit]
        /\ verdict' = [verdict EXCEPT
                         ![w] = IF @ = "completed" /\ ~ good THEN "blocked" ELSE @]
        /\ Goto(w, IF good THEN "tip" ELSE "conclude")
        /\ UNCHANGED <<git, status, holder, started, merged, advances, process, base>>

\* Mutant: the outcome of a stopped agent settles the task.
AgentStopsTask(w) ==
    /\ pc[w] = "agentDone"
    /\ verdict[w] = "stopped"
    /\ Settles(w, verdict[w])

\* A stopped agent stops the run and leaves its task as it is.
AgentStops(w) ==
    /\ pc[w] = "agentDone"
    /\ verdict[w] = "stopped"
    /\ process' = [process EXCEPT ![ProcessOf(w)] = IF @ = "running" THEN "cancelled" ELSE @]
    /\ Over(w)
    /\ UNCHANGED <<git, store>>

AgentIsFenced(w) ==
    /\ pc[w] = "agentDone"
    /\ verdict[w] # "stopped"
    /\ ~ Holds(w)
    /\ Leaves(w)

MergeConcludes(w) ==
    /\ pc[w] = "conclude"
    /\ Settles(w, verdict[w])

(***************************************************************************)
(* HostSanityPhase                                                         *)
(***************************************************************************)
\* _advance_was_attested
AdvanceAttested(w) ==
    [from |-> base[w], commit |-> tip[w]] \in advances[TaskOf(w)]

\* _verify_tip
TipVerified(w) ==
    LET t == TaskOf(w)
    IN  /\ head[t] = tip[w]
        /\ mergeHead[t] = NoCommit
        /\ ~ dirty[t]
        /\ IsAncestor(ApprovedCommit[t], tip[w])
        /\ IsAncestor(base[w], tip[w])

\* _run_locked up to the catalog, under the token and the status just read
SanityStarts(w) ==
    LET t == TaskOf(w)
        already == project = tip[w]
    IN  /\ pc[w] = "tip"
        /\ IF Cancelled(w) \/ status[t] # "merging"
           THEN Leaves(w)
           ELSE IF already /\ AdvanceAttested(w) /\ (worktree[t] => TipVerified(w))
           THEN Stays(w, "cleanup")
           ELSE IF ~ already /\ project = base[w] /\ worktree[t] /\ TipVerified(w)
           THEN Stays(w, "catalog")
           ELSE Blocks(w)

\* What a preparation or check command writes to the worktree, or clears from it
\* again, before it ends.
CommandsWrite(w) ==
    LET t == TaskOf(w)
    IN  /\ "files" \in Disturbances
        /\ pc[w] \in {"waiting", "catalog"}
        /\ worktree[t]
        /\ dirty' = [dirty EXCEPT ![t] = ~ @]
        /\ UNCHANGED <<history, project, source, head, mergeHead, worktree, store, process,
                       pc, locals>>

\* Materialisation and the catalog have run on the tip, and their changes are
\* refused; a cancellation leaves the phase by KeyboardInterrupt, as files are then.
Catalog(w) ==
    /\ pc[w] = "catalog"
    /\ \/ ~ dirty[TaskOf(w)] /\ Stays(w, "attest")
       \/ (dirty[TaskOf(w)] \/ "catalog" \in Disturbances) /\ Blocks(w)
       \/ Cancelled(w) /\ Leaves(w)

\* The sanity event and the base advance started event.
Attest(w) ==
    /\ pc[w] = "attest"
    /\ IF Holds(w)
       THEN /\ advances' = [advances EXCEPT ![TaskOf(w)] =
                              @ \cup {[from |-> base[w], commit |-> tip[w]]}]
            /\ Goto(w, "advance")
            /\ UNCHANGED <<git, status, holder, started, merged, attempts, process, locals>>
       ELSE Leaves(w)

\* Mutants: update-ref without looking at what the branch holds; and a refusal
\* that goes unnoticed.
AdvanceBlindly(w) ==
    /\ pc[w] = "advance"
    /\ project' = tip[w]
    /\ Goto(w, "advanced")
    /\ UNCHANGED <<history, source, head, mergeHead, dirty, worktree, store, process, locals>>
AdvanceRegardless(w) ==
    /\ pc[w] = "advance"
    /\ project' = IF IsAncestor(project, tip[w]) THEN tip[w] ELSE project
    /\ Goto(w, "advanced")
    /\ UNCHANGED <<history, source, head, mergeHead, dirty, worktree, store, process, locals>>

\* fast_forward_branch moves the branch to a proper descendant or refuses.
Advance(w) ==
    /\ pc[w] = "advance"
    /\ IF project # tip[w] /\ IsAncestor(project, tip[w])
       THEN /\ project' = tip[w]
            /\ Goto(w, "advanced")
            /\ UNCHANGED <<history, source, head, mergeHead, dirty, worktree, store, process,
                           locals>>
       ELSE Blocks(w)

\* The base advanced event, which only says that the worker still owns its task.
Advanced(w) ==
    /\ pc[w] = "advanced"
    /\ IF Holds(w) THEN Stays(w, "cleanup") ELSE Leaves(w)

\* cleanup_published_task_worktree refuses a worktree that is not clean.
Cleanup(w) ==
    LET t == TaskOf(w)
    IN  /\ pc[w] = "cleanup"
        /\ IF status[t] = "merging" /\ (worktree[t] => mergeHead[t] = NoCommit /\ ~ dirty[t])
           THEN /\ worktree' = [worktree EXCEPT ![t] = FALSE]
                /\ Goto(w, "finish")
                /\ UNCHANGED <<history, project, source, head, mergeHead, dirty, store, process,
                               locals>>
           ELSE Blocks(w)

Finish(w) ==
    /\ pc[w] = "finish"
    /\ Settles(w, "done")

(***************************************************************************)
(* What else happens.                                                      *)
(***************************************************************************)
\* The threads are gone, Git and the store are as they were.
Crash(p) ==
    /\ "crash" \in Disturbances
    /\ process[p] \in {"running", "cancelled"}
    /\ process' = [process EXCEPT ![p] = "lost"]
    /\ pc' = [w \in Worker |-> IF ProcessOf(w) = p THEN "idle" ELSE pc[w]]
    /\ base' = [w \in Worker |-> IF ProcessOf(w) = p THEN NoCommit ELSE base[w]]
    /\ tip' = [w \in Worker |-> IF ProcessOf(w) = p THEN NoCommit ELSE tip[w]]
    /\ verdict' = [w \in Worker |-> IF ProcessOf(w) = p THEN "none" ELSE verdict[w]]
    /\ UNCHANGED <<git, store>>

Cancel(p) ==
    /\ "cancel" \in Disturbances
    /\ process[p] = "running"
    /\ process' = [process EXCEPT ![p] = "cancelled"]
    /\ UNCHANGED <<git, store, pc, locals>>

\* The user commits to the source branch, perhaps on top of the project branch.
SourceMoves ==
    /\ "source" \in Disturbances
    /\ \E c \in Commit, merges \in BOOLEAN :
         /\ Fresh(c)
         /\ source' = c
         /\ history' = WithMerge(c, source, IF merges THEN project ELSE source)
    /\ UNCHANGED <<project, head, mergeHead, dirty, worktree, store, process, pc, locals>>

\* The project branch starts at the source branch, and every approved commit is
\* a child of that commit.
Init ==
    /\ history = [c \in Commit |->
                    IF c = Root THEN {Root}
                    ELSE IF \E t \in Task : ApprovedCommit[t] = c THEN {Root, c} ELSE {}]
    /\ project = Root
    /\ source = Root
    /\ head = ApprovedCommit
    /\ mergeHead = [t \in Task |-> NoCommit]
    /\ dirty = [t \in Task |-> FALSE]
    /\ worktree = [t \in Task |-> TRUE]
    /\ status = [t \in Task |-> "merging"]
    /\ holder = [t \in Task |-> NoProcess]
    /\ started = [t \in Task |-> {}]
    /\ merged = [t \in Task |-> {}]
    /\ attempts = [t \in Task |-> <<>>]
    /\ advances = [t \in Task |-> {}]
    /\ process = [p \in Process |-> "new"]
    /\ pc = [w \in Worker |-> "idle"]
    /\ base = [w \in Worker |-> NoCommit]
    /\ tip = [w \in Worker |-> NoCommit]
    /\ verdict = [w \in Worker |-> "none"]

Merge(w) ==
    \/ MergeResumes(w) \/ MergeHasBase(w) \/ MergeStarts(w) \/ MergeRefuses(w)
    \/ MergeIsFenced(w) \/ GitMerge(w) \/ GitMergeFails(w)
    \/ MergeVerifies(w) \/ MergeUnverified(w)
Agent(w) ==
    \/ AgentResumes(w) \/ AgentStarts(w) \/ AgentWorks(w) \/ AgentEnds(w)
    \/ AgentRecorded(w) \/ AgentStops(w) \/ AgentIsFenced(w)
    \/ MergeConcludes(w)
Sanity(w) ==
    \/ SanityStarts(w) \/ Catalog(w) \/ Attest(w) \/ Advance(w) \/ Advanced(w)
    \/ Cleanup(w) \/ Finish(w)

Next ==
    \/ SourceMoves
    \/ \E p \in Process : Acquire(p) \/ Refresh(p) \/ Crash(p) \/ Cancel(p)
    \/ \E w \in Worker :
         \/ Claim(w) \/ Enter(w) \/ Merge(w) \/ Agent(w) \/ Sanity(w)
         \/ CommandsWrite(w)

Spec == Init /\ [][Next]_vars

(***************************************************************************)
(* Properties.                                                             *)
(***************************************************************************)
OptionalCommit == Commit \cup {NoCommit}
TypeOK ==
    /\ history \in [Commit -> SUBSET Commit]
    /\ project \in Commit
    /\ source \in Commit
    /\ head \in [Task -> Commit]
    /\ mergeHead \in [Task -> OptionalCommit]
    /\ dirty \in [Task -> BOOLEAN]
    /\ worktree \in [Task -> BOOLEAN]
    /\ status \in [Task -> {"merging", "done", "blocked", "failed"}]
    /\ holder \in [Task -> Process \cup {NoProcess}]
    /\ started \in [Task -> SUBSET [starting : Commit, base : Commit,
                                    expected : OptionalCommit]]
    /\ merged \in [Task -> SUBSET [base : Commit, commit : Commit]]
    /\ attempts \in [Task -> Seq([base : Commit, commit : OptionalCommit])]
    /\ advances \in [Task -> SUBSET [from : Commit, commit : Commit]]
    /\ process \in [Process -> {"new", "running", "cancelled", "lost"}]
    /\ pc \in [Worker -> {"idle", "waiting"} \cup Locked]
    /\ base \in [Worker -> OptionalCommit]
    /\ tip \in [Worker -> OptionalCommit]
    /\ verdict \in [Worker -> {"none", "completed", "failed", "blocked", "stopped"}]

\* A task recorded as done has its approved commit in the project branch for
\* good, and its worktree is gone, whatever crashed or lost its lease on the way.
DoneIsPublished ==
    \A t \in Task : status[t] = "done" =>
        /\ IsAncestor(ApprovedCommit[t], project)
        /\ ~ worktree[t]

\* The project branch moves only forward, and only to the source branch or to a
\* tip that was checked against exactly the commit it moves from.
BaseAdvancesAsAttested ==
    [][project' # project =>
         /\ IsAncestor(project, project')
         /\ \/ project' = source
            \/ \E t \in Task :
                 /\ [from |-> project, commit |-> project'] \in advances[t]
                 /\ IsAncestor(ApprovedCommit[t], project')]_vars

\* A commit that somebody answers for: the source branch's, an approved one, the
\* commit a clean merge was announced to make, or the tip a merge was recorded to
\* have made.
Trusted(c) ==
    \/ IsAncestor(c, source)
    \/ \E t \in Task :
         \/ c = ApprovedCommit[t]
         \/ \E e \in started[t] : e.expected = c
         \/ \E e \in merged[t] : e.commit = c
         \/ \E i \in 1..Len(attempts[t]) : attempts[t][i].commit = c

\* Only work that was reviewed or resolved reaches the project branch. This is stated
\* of at most one stale process beside the owner: two of them can each begin a merge
\* under the owner's agent, whose first commit is then named by no event.
OnlyTrustedCommitsArePublished == \A c \in history[project] : Trusted(c)

\* A task whose merge is clean is blocked, before its tip is published, only for files
\* left in its worktree or because the project branch left the base its worker read:
\* every point a crash or a cancellation can stop it at is recognised when the next
\* claim resumes it.
Conflicted(t) == \E e \in started[t] : e.expected = NoCommit
CleanMergeSurvivesCrashes ==
    [][\A t \in Task :
         status[t] # "blocked" /\ status'[t] = "blocked" =>
            \/ Conflicted(t)
            \/ IsAncestor(ApprovedCommit[t], project)
            \/ dirty[t]
            \/ \E w \in Worker :
                 TaskOf(w) = t /\ base[w] # NoCommit /\ base[w] # project]_vars

\* A task whose work is in the project branch already is not blocked when its
\* publication is resumed (tests/test_host_sanity.py: a resume after the
\* fast-forward ends as DONE by its durable attestation).
PublishedIsNotBlocked ==
    [][\A t \in Task :
         IsAncestor(ApprovedCommit[t], project) /\ status[t] = "merging" =>
            status'[t] # "blocked"]_vars
=============================================================================
