-------------------------- MODULE PublicationProofs ---------------------------
(***************************************************************************)
(* Theorems about Publication, for any tasks, processes and commits. For   *)
(* every combination of disturbances: its types, that a task recorded as   *)
(* done is published, and that the project branch advances only from the   *)
(* commit its new tip was attested on. Where no process outlives its       *)
(* lease, or no more than an owner and one process it took over from       *)
(* overlap: that only trusted commits are published. Where none outlives   *)
(* its lease and the catalog passes: that a clean merge survives every     *)
(* interruption.                                                           *)
(*                                                                         *)
(* The argument needs what a worker knows of its tip at each place         *)
(* (Contained), that ancestry is transitive and acyclic (HistoryOK,        *)
(* Acyclic), that only the owner of a task finds its worktree removed      *)
(* (Removed), what a tip may have between itself and its base (Tight), who *)
(* is at work on a task and who took over (Alone, Claims), who answers for *)
(* the commits a merge may publish (TrustInv), and what the worktree of a  *)
(* task without conflicts can hold (CleanTask).                            *)
(***************************************************************************)
EXTENDS Publication, TLAPS

AfterRead == Locked \ {"merge"}
HasTip == {"tip", "catalog", "attest", "advance", "advanced", "cleanup", "finish"}

\* A worker that has read the project branch has a base, one past its merge has
\* a tip, and a merge agent that ended has a verdict.
LocalOK(w) ==
    /\ pc[w] \in AfterRead => base[w] \in Commit
    /\ pc[w] \in HasTip => tip[w] \in Commit
    /\ pc[w] = "agentDone" => verdict[w] # "none"
    /\ pc[w] = "conclude" => verdict[w] \in {"failed", "blocked"}
LocalsOK == \A w \in Worker : LocalOK(w)

\* Ancestry is transitive, and an ancestor exists.
HistoryOK ==
    \A c, d \in Commit :
        c \in history[d] => c \in history[c] /\ history[c] \subseteq history[d]

\* A tip that was verified, or attested for an advance, has the approved commit,
\* and so does the project branch once it was advanced to it.
Contained ==
    /\ \A t \in Task : \A e \in advances[t] : ApprovedCommit[t] \in history[e.commit]
    /\ \A w \in Worker :
         /\ pc[w] \in {"catalog", "attest", "advance"} =>
              ApprovedCommit[TaskOf(w)] \in history[tip[w]]
         /\ pc[w] \in {"advanced", "cleanup", "finish"} =>
              ApprovedCommit[TaskOf(w)] \in history[project]

\* A worker that still owns its task after the clean-up finds no worktree.
Removed ==
    \A w \in Worker : pc[w] = "finish" /\ Holds(w) => ~ worktree[TaskOf(w)]

IInv == TypeOK /\ LocalsOK /\ HistoryOK /\ Contained /\ Removed /\ DoneIsPublished

(***************************************************************************)
(* Workers.                                                                *)
(***************************************************************************)
\* A worker is a process and a task, and no two are the same pair.
LEMMA WorkerParts ==
    /\ \A w \in Worker : ProcessOf(w) \in Process /\ TaskOf(w) \in Task
    /\ \A v, w \in Worker :
         ProcessOf(v) = ProcessOf(w) /\ TaskOf(v) = TaskOf(w) => v = w
BY DEF Worker, ProcessOf, TaskOf

\* Nothing moves but the files of a worktree, if they do.
Still == UNCHANGED <<history, project, source, head, mergeHead, worktree, store, process, pc,
                     locals>>

\* What a step is.
LEMMA NextCases ==
    ASSUME [Next]_vars
    PROVE  \/ SourceMoves
           \/ \E p \in Process : Acquire(p) \/ Refresh(p) \/ Crash(p) \/ Cancel(p)
           \/ \E w \in Worker : Claim(w) \/ Enter(w) \/ Merge(w) \/ Agent(w) \/ Sanity(w)
           \/ Still
<1>1. UNCHANGED vars => Still
  BY DEF vars, git, Still
<1>2. \A w \in Worker : CommandsWrite(w) => Still
  BY DEF CommandsWrite, Still
<1> QED
  BY <1>1, <1>2 DEF Next

Label == {"idle", "waiting"} \cup Locked

\* Steps that only move a worker preserve the types.
LEMMA StaysType ==
    ASSUME TypeOK, NEW w \in Worker, NEW label \in Label, Stays(w, label)
    PROVE  TypeOK'
BY DEF TypeOK, Stays, Goto, git, store, events, locals, Label

\* The end of a worker preserves the types of its locals.
LEMMA OverType ==
    ASSUME TypeOK, NEW w \in Worker, Over(w)
    PROVE  /\ pc' \in [Worker -> Label]
           /\ base' \in [Worker -> OptionalCommit]
           /\ tip' \in [Worker -> OptionalCommit]
           /\ verdict' \in [Worker -> {"none", "completed", "failed", "blocked", "stopped"}]
BY DEF TypeOK, Over, Goto, Label, OptionalCommit

\* A worker that leaves, or ends its task, preserves the types.
LEMMA LeavesType ==
    ASSUME TypeOK, NEW w \in Worker, Leaves(w)
    PROVE  TypeOK'
BY OverType DEF TypeOK, Leaves, git, store, events, Label

\* The transition out of merging preserves the types.
LEMMA SettlesType ==
    ASSUME TypeOK, NEW w \in Worker, NEW result \in {"done", "blocked", "failed"},
           Settles(w, result)
    PROVE  TypeOK'
<1>1. status' \in [Task -> {"merging", "done", "blocked", "failed"}]
  BY DEF TypeOK, Settles
<1>2. holder' \in [Task -> Process \cup {NoProcess}]
  BY DEF TypeOK, Settles
<1> QED
  BY <1>1, <1>2, OverType DEF TypeOK, Settles, git, events, Label

(***************************************************************************)
(* Types.                                                                  *)
(***************************************************************************)
\* A new commit keeps histories sets of commits.
LEMMA WithMergeType ==
    ASSUME TypeOK, NEW c \in Commit, NEW a \in Commit, NEW b \in Commit
    PROVE  WithMerge(c, a, b) \in [Commit -> SUBSET Commit]
BY DEF TypeOK, WithMerge

\* Every step of the merge phase preserves the types.
LEMMA MergeType ==
    ASSUME TypeOK, LocalsOK, NEW w \in Worker, Merge(w)
    PROVE  TypeOK'
<1> DEFINE t == TaskOf(w)
<1>0. t \in Task
  BY WorkerParts
<1>1. CASE MergeResumes(w)
  BY <1>0, <1>1 DEF TypeOK, MergeResumes, MergeReads, Goto, git, events, Label, Locked,
     OptionalCommit
<1>2. CASE MergeHasBase(w)
  <2>1. merged' \in [Task -> SUBSET [base : Commit, commit : Commit]]
    BY <1>0, <1>2 DEF TypeOK, MergeHasBase, MergeReads, git
  <2> QED
    BY <2>1, <1>0, <1>2 DEF TypeOK, MergeHasBase, MergeReads, Goto, git, Label, Locked,
       OptionalCommit
<1>3. CASE MergeStarts(w)
  <2>1. PICK c \in Commit \cup {NoCommit} :
          /\ \/ c \in Commit /\ history' = WithMerge(c, head[t], project)
             \/ UNCHANGED history
          /\ tip' = [tip EXCEPT ![w] = c]
          /\ started' = [started EXCEPT
                           ![t] = @ \cup {[starting |-> head[t], base |-> project,
                                           expected |-> c]}]
    BY <1>3 DEF MergeStarts, Fresh
  <2>2. started' \in [Task -> SUBSET [starting : Commit, base : Commit,
                                      expected : OptionalCommit]]
    BY <2>1, <1>0 DEF TypeOK, OptionalCommit
  <2>3. history' \in [Commit -> SUBSET Commit]
    <3>1. head[t] \in Commit /\ project \in Commit /\ history \in [Commit -> SUBSET Commit]
      BY <1>0 DEF TypeOK
    <3>2. CASE UNCHANGED history
      BY <3>1, <3>2
    <3>3. CASE c \in Commit /\ history' = WithMerge(c, head[t], project)
      BY <3>1, <3>3, WithMergeType
    <3> QED
      BY <2>1, <3>2, <3>3
  <2> QED
    BY <2>1, <2>2, <2>3, <1>3 DEF TypeOK, MergeStarts, Goto, Locked, OptionalCommit
<1>4. CASE MergeRefuses(w)
  BY <1>4, SettlesType DEF MergeRefuses, Blocks
<1>5. CASE MergeIsFenced(w)
  BY <1>5, LeavesType DEF MergeIsFenced
<1>6. CASE GitMerge(w)
  <2>1. base[w] \in Commit
    BY <1>6 DEF GitMerge, LocalsOK, LocalOK, AfterRead, Locked
  <2>2. mergeHead' \in [Task -> OptionalCommit]
    <3>1. mergeHead' = mergeHead \/ mergeHead' = [mergeHead EXCEPT ![t] = base[w]]
      BY <1>6 DEF GitMerge
    <3> QED
      BY <2>1, <3>1 DEF TypeOK, OptionalCommit
  <2>3. head' \in [Task -> Commit] /\ history' \in [Commit -> SUBSET Commit]
    <3>1. CASE UNCHANGED <<history, head>>
      BY <3>1 DEF TypeOK
    <3>2. CASE ~ UNCHANGED <<history, head>>
      <4>1. PICK c \in Commit : /\ \/ UNCHANGED history
                                 \/ history' = WithMerge(c, head[t], base[w])
                              /\ head' = [head EXCEPT ![t] = c]
        BY <3>2, <1>6 DEF GitMerge
      <4>2. /\ head[t] \in Commit
            /\ head \in [Task -> Commit]
            /\ history \in [Commit -> SUBSET Commit]
        BY <1>0 DEF TypeOK
      <4>3. head' \in [Task -> Commit]
        BY <4>1, <4>2
      <4>4. history' \in [Commit -> SUBSET Commit]
        <5>1. CASE UNCHANGED history
          BY <4>2, <5>1
        <5>2. CASE history' = WithMerge(c, head[t], base[w])
          BY <2>1, <4>2, <5>2, WithMergeType
        <5> QED
          BY <4>1, <5>1, <5>2
      <4> QED
        BY <4>3, <4>4
    <3> QED
      BY <3>1, <3>2
  <2> QED
    BY <2>2, <2>3, <1>6 DEF TypeOK, GitMerge, Goto, store, events, locals, Locked
<1>7. CASE GitMergeFails(w)
  BY <1>7, SettlesType DEF GitMergeFails, Blocks
<1>8. CASE MergeVerifies(w)
  <2>1. base[w] \in Commit
    BY <1>8 DEF MergeVerifies, LocalsOK, LocalOK, AfterRead, Locked
  <2>2. merged' \in [Task -> SUBSET [base : Commit, commit : Commit]]
    BY <2>1, <1>0, <1>8 DEF TypeOK, MergeVerifies
  <2> QED
    BY <2>2, <1>8 DEF TypeOK, MergeVerifies, Goto, git, locals, Locked
<1>9. CASE MergeUnverified(w)
  BY <1>9, LeavesType, SettlesType DEF MergeUnverified, Blocks
<1> QED
  BY <1>1, <1>2, <1>3, <1>4, <1>5, <1>6, <1>7, <1>8, <1>9 DEF Merge

\* Every step around the merge agent preserves the types.
LEMMA AgentType ==
    ASSUME TypeOK, LocalsOK, NEW w \in Worker, Agent(w)
    PROVE  TypeOK'
<1> DEFINE t == TaskOf(w)
<1>0. t \in Task /\ ProcessOf(w) \in Process
  BY WorkerParts
<1>1. CASE AgentResumes(w)
  <2>1. CASE Blocks(w)
    BY <2>1, SettlesType DEF Blocks
  <2>2. CASE ~ Blocks(w)
    <3>1. /\ tip' = [tip EXCEPT ![w] = head[t]]
          /\ pc' = [pc EXCEPT ![w] = "tip"]
          /\ UNCHANGED <<git, store, process, base, verdict>>
      BY <2>2, <1>1 DEF AgentResumes, Goto
    <3> QED
      BY <3>1, <1>0 DEF TypeOK, git, store, events, Locked, OptionalCommit
  <2> QED
    BY <2>1, <2>2
<1>2. CASE AgentStarts(w)
  BY <1>2, LeavesType, StaysType DEF AgentStarts, Label, Locked
<1>3. CASE AgentWorks(w)
  <2>1. /\ head' \in [Task -> Commit]
        /\ history' \in [Commit -> SUBSET Commit]
        /\ mergeHead' \in [Task -> OptionalCommit]
    <3>0. head[t] \in Commit /\ mergeHead[t] \in Commit
      BY <1>0, <1>3 DEF TypeOK, AgentWorks, OptionalCommit
    <3>1. mergeHead' = mergeHead \/ mergeHead' = [mergeHead EXCEPT ![t] = NoCommit]
      BY <1>3 DEF AgentWorks
    <3>2. CASE UNCHANGED <<history, head>>
      BY <3>1, <3>2 DEF TypeOK, OptionalCommit
    <3>3. CASE ~ UNCHANGED <<history, head>>
      <4>1. PICK c \in Commit : /\ history' = WithMerge(c, head[t], mergeHead[t])
                              /\ head' = [head EXCEPT ![t] = c]
        BY <3>3, <1>3 DEF AgentWorks
      <4>2. head' \in [Task -> Commit] /\ mergeHead' \in [Task -> OptionalCommit]
        BY <3>1, <4>1 DEF TypeOK, OptionalCommit
      <4> QED
        BY <3>0, <4>1, <4>2, WithMergeType
    <3> QED
      BY <3>2, <3>3
  <2>2. dirty' \in [Task -> BOOLEAN]
    BY <1>0, <1>3 DEF TypeOK, AgentWorks
  <2> QED
    BY <2>1, <2>2, <1>3 DEF TypeOK, AgentWorks, store, events, locals
<1>4. CASE AgentEnds(w)
  <2>1. PICK result \in {"completed", "failed", "blocked", "stopped"} :
          verdict' = [verdict EXCEPT ![w] = result]
    BY <1>4 DEF AgentEnds
  <2>2. pc' = [pc EXCEPT ![w] = "agentDone"] /\ UNCHANGED <<git, store, process, base, tip>>
    BY <1>4 DEF AgentEnds, Goto
  <2> QED
    BY <2>1, <2>2 DEF TypeOK, git, store, events, Locked
<1>5. CASE AgentRecorded(w)
  <2> DEFINE good == verdict[w] = "completed" /\ Verified(w)
             outcome == [base |-> base[w], commit |-> IF good THEN head[t] ELSE NoCommit]
  <2>1. base[w] \in Commit
    BY <1>5 DEF AgentRecorded, LocalsOK, LocalOK, AfterRead, Locked
  <2>2. outcome \in [base : Commit, commit : OptionalCommit]
    BY <2>1, <1>0 DEF TypeOK, OptionalCommit
  <2>3. attempts' = [attempts EXCEPT ![t] = Append(@, outcome)]
    BY <1>5 DEF AgentRecorded
  <2>4. attempts' \in [Task -> Seq([base : Commit, commit : OptionalCommit])]
    <3> DEFINE Outcome == [base : Commit, commit : OptionalCommit]
    <3>1. attempts \in [Task -> Seq(Outcome)] /\ outcome \in Outcome
      BY <2>2 DEF TypeOK
    <3> HIDE DEF outcome, Outcome
    <3>2. Append(attempts[t], outcome) \in Seq(Outcome)
      BY <3>1, <1>0
    <3>3. attempts' \in [Task -> Seq(Outcome)]
      BY <3>1, <3>2, <2>3, <1>0
    <3> QED
      BY <3>3 DEF Outcome
  <2>5. tip' \in [Worker -> OptionalCommit]
    BY <2>2, <1>5 DEF TypeOK, AgentRecorded, OptionalCommit
  <2>6. verdict' \in [Worker -> {"none", "completed", "failed", "blocked", "stopped"}]
    BY <1>5 DEF TypeOK, AgentRecorded
  <2>7. pc' \in [Worker -> Label]
    BY <1>5 DEF TypeOK, AgentRecorded, Goto, Label, Locked
  <2> QED
    BY <2>4, <2>5, <2>6, <2>7, <1>5 DEF TypeOK, AgentRecorded, git, Label
<1>6. CASE AgentStops(w)
  BY <1>0, <1>6, OverType DEF TypeOK, AgentStops, git, store, events, Label
<1>7. CASE AgentIsFenced(w)
  BY <1>7, LeavesType DEF AgentIsFenced
<1>8. CASE MergeConcludes(w)
  BY <1>8, SettlesType DEF MergeConcludes, LocalsOK, LocalOK
<1> QED
  BY <1>1, <1>2, <1>3, <1>4, <1>5, <1>6, <1>7, <1>8 DEF Agent

\* Every step of the sanity phase preserves the types.
LEMMA SanityType ==
    ASSUME TypeOK, LocalsOK, NEW w \in Worker, Sanity(w)
    PROVE  TypeOK'
<1> DEFINE t == TaskOf(w)
<1>0. t \in Task
  BY WorkerParts
<1>1. CASE SanityStarts(w)
  BY <1>1, LeavesType, StaysType, SettlesType DEF SanityStarts, Blocks, Label, Locked
<1>2. CASE Catalog(w)
  BY <1>2, LeavesType, StaysType, SettlesType DEF Catalog, Blocks, Label, Locked
<1>3. CASE Attest(w)
  <2>1. base[w] \in Commit /\ tip[w] \in Commit
    BY <1>3 DEF Attest, LocalsOK, LocalOK, AfterRead, HasTip, Locked
  <2>2. CASE Leaves(w)
    BY <2>2, LeavesType
  <2>3. CASE ~ Leaves(w)
    <3>1. advances' \in [Task -> SUBSET [from : Commit, commit : Commit]]
      <4>1. advances' = [advances EXCEPT ![t] = @ \cup {[from |-> base[w], commit |-> tip[w]]}]
        BY <2>3, <1>3 DEF Attest
      <4> QED
        BY <2>1, <4>1, <1>0 DEF TypeOK
    <3> QED
      BY <3>1, <2>3, <1>3 DEF TypeOK, Attest, Goto, git, locals, Locked
  <2> QED
    BY <2>2, <2>3
<1>4. CASE Advance(w)
  <2>1. tip[w] \in Commit
    BY <1>4 DEF Advance, LocalsOK, LocalOK, HasTip
  <2>2. CASE Blocks(w)
    BY <2>2, SettlesType DEF Blocks
  <2>3. CASE ~ Blocks(w)
    BY <2>1, <2>3, <1>4 DEF TypeOK, Advance, Goto, store, events, locals, Locked
  <2> QED
    BY <2>2, <2>3
<1>5. CASE Advanced(w)
  BY <1>5, LeavesType, StaysType DEF Advanced, Label, Locked
<1>6. CASE Cleanup(w)
  <2>1. CASE Blocks(w)
    BY <2>1, SettlesType DEF Blocks
  <2>2. CASE ~ Blocks(w)
    BY <2>2, <1>0, <1>6 DEF TypeOK, Cleanup, Goto, store, events, locals, Locked
  <2> QED
    BY <2>1, <2>2
<1>7. CASE Finish(w)
  BY <1>7, SettlesType DEF Finish
<1> QED
  BY <1>1, <1>2, <1>3, <1>4, <1>5, <1>6, <1>7 DEF Sanity

\* Every step preserves the types.
LEMMA NextType == TypeOK /\ LocalsOK /\ [Next]_vars => TypeOK'
<1> SUFFICES ASSUME TypeOK, LocalsOK, [Next]_vars
             PROVE  TypeOK'
  OBVIOUS
<1>1. CASE UNCHANGED vars
  BY <1>1 DEF TypeOK, vars, git, store, events, locals
<1>2. CASE SourceMoves
  <2>1. PICK c \in Commit, d \in Commit :
          source' = c /\ history' = WithMerge(c, source, d)
    <3>1. project \in Commit /\ source \in Commit
      BY DEF TypeOK
    <3> QED
      BY <3>1, <1>2 DEF SourceMoves
  <2>2. history' \in [Commit -> SUBSET Commit]
    BY <2>1, WithMergeType DEF TypeOK
  <2> QED
    BY <2>1, <2>2, <1>2 DEF TypeOK, SourceMoves, store, events, locals
<1>3. ASSUME NEW p \in Process, Acquire(p)
      PROVE  TypeOK'
  BY <1>3 DEF TypeOK, Acquire, events, locals
<1>4. ASSUME NEW p \in Process, Refresh(p)
      PROVE  TypeOK'
  BY <1>4 DEF TypeOK, Refresh, store, events, locals
<1>5. ASSUME NEW p \in Process, Crash(p)
      PROVE  TypeOK'
  BY <1>5 DEF TypeOK, Crash, git, store, events, OptionalCommit
<1>6. ASSUME NEW p \in Process, Cancel(p)
      PROVE  TypeOK'
  BY <1>6 DEF TypeOK, Cancel, git, store, events, locals
<1>7. ASSUME NEW w \in Worker, Claim(w)
      PROVE  TypeOK'
  BY <1>7, WorkerParts DEF TypeOK, Claim, Goto, git, events, locals
<1>8. ASSUME NEW w \in Worker, Enter(w)
      PROVE  TypeOK'
  BY <1>8, StaysType DEF Enter, Label, Locked
<1>9. ASSUME NEW w \in Worker, CommandsWrite(w)
      PROVE  TypeOK'
  BY <1>9, WorkerParts DEF TypeOK, CommandsWrite, store, events, locals
<1> QED
  BY <1>1, <1>2, <1>3, <1>4, <1>5, <1>6, <1>7, <1>8, <1>9, MergeType, AgentType, SanityType
     DEF Next

(***************************************************************************)
(* Ancestry.                                                               *)
(***************************************************************************)
\* A step creates at most one commit, out of two that may not even exist.
Extends == \E c, a, b \in Commit : history[c] = {} /\ history' = WithMerge(c, a, b)

\* Existing commits keep their ancestors.
Keeps == \A d \in Commit : history[d] # {} => history'[d] = history[d]

\* The next commit to be given out has no history yet.
LEMMA FreshIsNew ==
    ASSUME NEW c \in Commit, Fresh(c)
    PROVE  history[c] = {}
BY DEF Fresh, Existing

\* The merge phase creates at most one commit in a step.
LEMMA MergeHistory ==
    ASSUME TypeOK, LocalsOK, NEW w \in Worker, Merge(w)
    PROVE  UNCHANGED history \/ Extends
<1> DEFINE t == TaskOf(w)
<1>0. t \in Task /\ head[t] \in Commit /\ project \in Commit
  BY WorkerParts DEF TypeOK
<1>1. CASE MergeStarts(w)
  <2>1. CASE ~ UNCHANGED history
    <3>1. PICK c \in Commit \cup {NoCommit} :
            Fresh(c) /\ history' = WithMerge(c, head[t], project)
      BY <1>1, <2>1 DEF MergeStarts
    <3>2. c \in Commit
      BY <3>1 DEF Fresh
    <3> QED
      BY <1>0, <3>1, <3>2, FreshIsNew DEF Extends
  <2> QED
    BY <2>1
<1>2. CASE GitMerge(w)
  <2>1. CASE ~ UNCHANGED history
    <3>1. PICK c \in Commit : Fresh(c) /\ history' = WithMerge(c, head[t], base[w])
      BY <1>2, <2>1 DEF GitMerge
    <3>2. base[w] \in Commit
      BY <1>2 DEF GitMerge, LocalsOK, LocalOK, AfterRead, Locked
    <3> QED
      BY <1>0, <3>1, <3>2, FreshIsNew DEF Extends
  <2> QED
    BY <2>1
<1>3. CASE ~ MergeStarts(w) /\ ~ GitMerge(w)
  BY <1>3 DEF Merge, MergeResumes, MergeHasBase, MergeReads, MergeRefuses, MergeIsFenced,
     GitMergeFails, MergeVerifies, MergeUnverified, Blocks, Settles, Leaves, git
<1> QED
  BY <1>1, <1>2, <1>3

\* So does the agent.
LEMMA AgentHistory ==
    ASSUME TypeOK, NEW w \in Worker, Agent(w)
    PROVE  UNCHANGED history \/ Extends
<1> DEFINE t == TaskOf(w)
<1>0. t \in Task /\ head[t] \in Commit
  BY WorkerParts DEF TypeOK
<1>1. CASE AgentWorks(w)
  <2>1. CASE ~ UNCHANGED history
    <3>1. PICK c \in Commit : Fresh(c) /\ history' = WithMerge(c, head[t], mergeHead[t])
      BY <1>1, <2>1 DEF AgentWorks
    <3>2. mergeHead[t] \in Commit
      BY <1>0, <1>1 DEF AgentWorks, TypeOK, OptionalCommit
    <3> QED
      BY <1>0, <3>1, <3>2, FreshIsNew DEF Extends
  <2> QED
    BY <2>1
<1>2. CASE ~ AgentWorks(w)
  BY <1>2 DEF Agent, AgentResumes, AgentStarts, AgentEnds, AgentRecorded, AgentStops,
     AgentIsFenced, MergeConcludes, Blocks, Settles, Leaves, Stays, git
<1> QED
  BY <1>1, <1>2

\* The sanity phase creates none.
LEMMA SanityHistory ==
    ASSUME NEW w \in Worker, Sanity(w)
    PROVE  UNCHANGED history
BY DEF Sanity, SanityStarts, Catalog, Attest, Advance, Advanced, Cleanup, Finish, Blocks,
   Settles, Leaves, Stays, git

\* No step creates more than one commit.
LEMMA NextHistory ==
    ASSUME TypeOK, LocalsOK, [Next]_vars
    PROVE  UNCHANGED history \/ Extends
<1>1. CASE SourceMoves
  <2>1. PICK c \in Commit, merges \in BOOLEAN :
          /\ Fresh(c)
          /\ history' = WithMerge(c, source, IF merges THEN project ELSE source)
    BY <1>1 DEF SourceMoves
  <2>2. source \in Commit /\ (IF merges THEN project ELSE source) \in Commit
    BY DEF TypeOK
  <2> QED
    BY <2>1, <2>2, FreshIsNew DEF Extends
<1>2. CASE \E p \in Process : Acquire(p) \/ Refresh(p) \/ Crash(p) \/ Cancel(p)
  BY <1>2 DEF Acquire, Refresh, Crash, Cancel, git
<1>3. CASE \E w \in Worker : Claim(w) \/ Enter(w)
  BY <1>3 DEF Claim, Enter, Stays, git
<1>4. CASE Still
  BY <1>4 DEF Still, git
<1> QED
  BY <1>1, <1>2, <1>3, <1>4, MergeHistory, AgentHistory, SanityHistory, NextCases

\* Creating a commit keeps ancestry transitive and the others as they are.
LEMMA ExtendsKeeps ==
    ASSUME TypeOK, HistoryOK, Extends
    PROVE  HistoryOK' /\ Keeps
<1>1. PICK c, a, b \in Commit : history[c] = {} /\ history' = WithMerge(c, a, b)
  BY DEF Extends
<1>2. history \in [Commit -> SUBSET Commit]
  BY DEF TypeOK
<1>3. history'[c] = history[a] \cup history[b] \cup {c}
  BY <1>1, <1>2 DEF WithMerge
<1>4. \A d \in Commit \ {c} : history'[d] = history[d]
  BY <1>1, <1>2 DEF WithMerge
<1>5. Keeps
  BY <1>1, <1>4 DEF Keeps
<1>6. ASSUME NEW x \in Commit, NEW d \in Commit, x \in history'[d]
      PROVE  x \in history'[x] /\ history'[x] \subseteq history'[d]
  <2>1. CASE x = c
    <3>1. d = c
      BY <1>1, <1>4, <1>6, <2>1 DEF HistoryOK
    <3> QED
      BY <2>1, <3>1, <1>3
  <2>2. CASE x # c /\ d # c
    BY <2>2, <1>4, <1>6 DEF HistoryOK
  <2>3. CASE x # c /\ d = c
    BY <2>3, <1>3, <1>4, <1>6 DEF HistoryOK
  <2> QED
    BY <2>1, <2>2, <2>3
<1> QED
  BY <1>5, <1>6 DEF HistoryOK

\* Every step keeps ancestry transitive and existing commits as they are.
LEMMA NextKeeps ==
    ASSUME TypeOK, LocalsOK, HistoryOK, [Next]_vars
    PROVE  HistoryOK' /\ Keeps
<1>1. CASE UNCHANGED history
  BY <1>1 DEF HistoryOK, Keeps
<1> QED
  BY <1>1, NextHistory, ExtendsKeeps

\* The project branch stays or, in a step that creates no commit, moves to a
\* descendant: by a fast-forward or by the setup of a new process.
LEMMA NextProject ==
    ASSUME TypeOK, [Next]_vars
    PROVE  project' = project \/ (UNCHANGED history /\ project \in history[project'])
<1>1. CASE SourceMoves
  BY <1>1 DEF SourceMoves
<1>2. CASE \E p \in Process : Acquire(p) \/ Refresh(p) \/ Crash(p) \/ Cancel(p)
  BY <1>2 DEF Acquire, Refresh, Crash, Cancel, git, IsAncestor
<1>3. CASE \E w \in Worker : Claim(w) \/ Enter(w)
  BY <1>3 DEF Claim, Enter, Stays, git
<1>4. CASE Still
  BY <1>4 DEF Still, git
<1>5. ASSUME NEW w \in Worker, Merge(w)
      PROVE  project' = project
  BY <1>5 DEF Merge, MergeResumes, MergeHasBase, MergeReads, MergeStarts, MergeRefuses,
     MergeIsFenced, GitMerge, GitMergeFails, MergeVerifies, MergeUnverified, Blocks,
     Settles, Leaves, git
<1>6. ASSUME NEW w \in Worker, Agent(w)
      PROVE  project' = project
  BY <1>6 DEF Agent, AgentResumes, AgentStarts, AgentWorks, AgentEnds, AgentRecorded,
     AgentStops, AgentIsFenced, MergeConcludes, Blocks, Settles, Leaves, Stays, git
<1>7. ASSUME NEW w \in Worker, Sanity(w)
      PROVE  project' = project \/ (UNCHANGED history /\ project \in history[project'])
  BY <1>7 DEF Sanity, SanityStarts, Catalog, Attest, Advance, Advanced, Cleanup, Finish,
     Blocks, Settles, Leaves, Stays, git, IsAncestor
<1> QED
  BY <1>1, <1>2, <1>3, <1>4, <1>5, <1>6, <1>7, NextCases

\* Whatever the project branch has, it keeps.
LEMMA ProjectGrows ==
    ASSUME TypeOK, TypeOK', LocalsOK, HistoryOK, [Next]_vars
    PROVE  history[project] \subseteq history'[project']
<1>1. project \in Commit /\ project' \in Commit
  BY DEF TypeOK
<1>2. CASE project' = project
  BY <1>1, <1>2, NextKeeps DEF Keeps
<1>3. CASE UNCHANGED history /\ project \in history[project']
  BY <1>1, <1>3 DEF HistoryOK
<1> QED
  BY <1>2, <1>3, NextProject

(***************************************************************************)
(* What workers know.                                                      *)
(***************************************************************************)
\* A step of one worker leaves the locals of the others as they are.
OthersStay(w) ==
    \A v \in Worker \ {w} :
        pc'[v] = pc[v] /\ base'[v] = base[v] /\ tip'[v] = tip[v] /\ verdict'[v] = verdict[v]

\* Every step a worker makes is its own in that sense.
LEMMA StepIsLocal ==
    ASSUME TypeOK, NEW w \in Worker,
           Claim(w) \/ Enter(w) \/ Merge(w) \/ Agent(w) \/ Sanity(w)
    PROVE  OthersStay(w)
<1>1. CASE Claim(w) \/ Enter(w)
  BY <1>1 DEF TypeOK, OthersStay, Claim, Enter, Stays, Goto, locals
<1>2. CASE Merge(w)
  <2>1. CASE MergeStarts(w)
    <3>1. PICK c \in Commit \cup {NoCommit} : tip' = [tip EXCEPT ![w] = c]
      BY <2>1 DEF MergeStarts
    <3> QED
      BY <2>1, <3>1 DEF TypeOK, OthersStay, MergeStarts, Goto
  <2>2. CASE ~ MergeStarts(w)
    BY <1>2, <2>2 DEF TypeOK, OthersStay, Merge, MergeResumes, MergeHasBase, MergeReads,
       MergeRefuses, MergeIsFenced, GitMerge, GitMergeFails, MergeVerifies,
       MergeUnverified, Blocks, Settles, Leaves, Over, Goto, locals
  <2> QED
    BY <2>1, <2>2
<1>3. CASE Agent(w)
  <2>1. CASE AgentEnds(w)
    <3>1. PICK result \in {"completed", "failed", "blocked", "stopped"} :
            verdict' = [verdict EXCEPT ![w] = result]
      BY <2>1 DEF AgentEnds
    <3> QED
      BY <2>1, <3>1 DEF TypeOK, OthersStay, AgentEnds, Goto
  <2>2. CASE ~ AgentEnds(w)
    BY <1>3, <2>2 DEF TypeOK, OthersStay, Agent, AgentResumes, AgentStarts, AgentWorks,
       AgentRecorded, AgentStops, AgentIsFenced, MergeConcludes, Blocks, Settles, Leaves,
       Stays, Over, Goto, locals
  <2> QED
    BY <2>1, <2>2
<1>4. CASE Sanity(w)
  BY <1>4 DEF TypeOK, OthersStay, Sanity, SanityStarts, Catalog, Attest, Advance, Advanced,
     Cleanup, Finish, Blocks, Settles, Leaves, Stays, Over, Goto, locals
<1> QED
  BY <1>1, <1>2, <1>3, <1>4

\* A worker that ended is at no place that needs a base, a tip or a verdict.
LEMMA OverLocals ==
    ASSUME TypeOK, NEW w \in Worker, Over(w)
    PROVE  LocalOK(w)'
BY DEF TypeOK, Over, Goto, LocalOK, AfterRead, HasTip, Locked

\* Neither does one that blocked, left or settled its task.
LEMMA SettlesLocals ==
    ASSUME TypeOK, NEW w \in Worker, Blocks(w) \/ Leaves(w) \/ \E result : Settles(w, result)
    PROVE  LocalOK(w)'
BY OverLocals DEF Blocks, Leaves, Settles

\* Moves that keep the base and the tip of the worker.
LEMMA StaysLocals ==
    ASSUME TypeOK, NEW w \in Worker, LocalOK(w), NEW label, Stays(w, label),
           label \in AfterRead => base[w] \in Commit,
           label \in HasTip => tip[w] \in Commit,
           label \notin {"agentDone", "conclude"}
    PROVE  LocalOK(w)'
BY DEF TypeOK, Stays, Goto, LocalOK, locals

\* The merge phase hands on what its worker needs next.
LEMMA MergeLocals ==
    ASSUME TypeOK, TypeOK', NEW w \in Worker, LocalOK(w), Merge(w)
    PROVE  LocalOK(w)'
<1> USE DEF LocalOK, AfterRead, HasTip, Locked
<1>0. TaskOf(w) \in Task /\ head[TaskOf(w)] \in Commit /\ project \in Commit
  BY WorkerParts DEF TypeOK
<1>1. CASE MergeResumes(w)
  BY <1>0, <1>1 DEF TypeOK, MergeResumes, MergeReads, Goto
<1>2. CASE MergeHasBase(w)
  BY <1>0, <1>2 DEF TypeOK, MergeHasBase, MergeReads, Goto
<1>3. CASE MergeStarts(w)
  BY <1>0, <1>3 DEF TypeOK, MergeStarts, Goto
<1>4. CASE GitMerge(w)
  <2>1. pc' = [pc EXCEPT ![w] = "agent"] \/ pc' = [pc EXCEPT ![w] = "verify"]
    BY <1>4 DEF GitMerge, Goto
  <2>2. base' = base /\ pc[w] = "gitMerge"
    BY <1>4 DEF GitMerge, locals
  <2> QED
    BY <2>1, <2>2 DEF TypeOK
<1>5. CASE MergeVerifies(w)
  BY <1>0, <1>5 DEF TypeOK, MergeVerifies, Goto, locals
<1>6. CASE MergeRefuses(w) \/ MergeIsFenced(w) \/ GitMergeFails(w) \/ MergeUnverified(w)
  BY <1>6, SettlesLocals DEF MergeRefuses, MergeIsFenced, GitMergeFails, MergeUnverified
<1> QED
  BY <1>1, <1>2, <1>3, <1>4, <1>5, <1>6 DEF Merge

\* The agent hands on what its worker needs next.
LEMMA AgentLocals ==
    ASSUME TypeOK, TypeOK', NEW w \in Worker, LocalOK(w), Agent(w)
    PROVE  LocalOK(w)'
<1>0. TaskOf(w) \in Task /\ head[TaskOf(w)] \in Commit
  BY WorkerParts DEF TypeOK
<1>1. CASE AgentResumes(w)
  <2>1. CASE Blocks(w)
    BY <2>1, SettlesLocals
  <2>2. CASE ~ Blocks(w)
    BY <1>0, <1>1, <2>2 DEF TypeOK, AgentResumes, Goto, LocalOK, AfterRead, HasTip, Locked
  <2> QED
    BY <2>1, <2>2
<1>2. CASE AgentStarts(w)
  <2>1. pc[w] = "agent" /\ (Stays(w, "agentRuns") \/ Leaves(w))
    BY <1>2 DEF AgentStarts
  <2> QED
    BY <2>1, SettlesLocals, StaysLocals DEF LocalOK, AfterRead, HasTip, Locked
<1>3. CASE AgentWorks(w)
  BY <1>3 DEF AgentWorks, LocalOK, locals
<1>4. CASE AgentEnds(w)
  BY <1>4 DEF TypeOK, AgentEnds, Goto, LocalOK, AfterRead, HasTip, Locked
<1>5. CASE AgentRecorded(w)
  <2> DEFINE good == verdict[w] = "completed" /\ Verified(w)
  <2>1. /\ pc[w] = "agentDone" /\ base' = base /\ base[w] \in Commit
        /\ verdict[w] \in {"completed", "failed", "blocked"}
        /\ tip' = [tip EXCEPT ![w] = IF good THEN head[TaskOf(w)] ELSE NoCommit]
        /\ verdict' = [verdict EXCEPT
                         ![w] = IF @ = "completed" /\ ~ good THEN "blocked" ELSE @]
        /\ pc' = [pc EXCEPT ![w] = IF good THEN "tip" ELSE "conclude"]
    BY <1>5 DEF TypeOK, AgentRecorded, Goto, LocalOK, AfterRead, Locked
  <2>2. CASE good
    <3>1. pc'[w] = "tip" /\ tip'[w] = head[TaskOf(w)]
      BY <2>1, <2>2 DEF TypeOK
    <3> QED
      BY <3>1, <2>1, <1>0 DEF LocalOK
  <2>3. CASE ~ good
    <3>1. pc'[w] = "conclude"
      BY <2>1, <2>3 DEF TypeOK
    <3>2. verdict'[w] = IF verdict[w] = "completed" THEN "blocked" ELSE verdict[w]
      BY <2>1, <2>3 DEF TypeOK
    <3> QED
      BY <3>1, <3>2, <2>1 DEF LocalOK, HasTip
  <2> QED
    BY <2>2, <2>3
<1>6. CASE AgentStops(w)
  BY <1>6, OverLocals DEF AgentStops
<1>7. CASE AgentIsFenced(w) \/ MergeConcludes(w)
  BY <1>7, SettlesLocals DEF AgentIsFenced, MergeConcludes
<1> QED
  BY <1>1, <1>2, <1>3, <1>4, <1>5, <1>6, <1>7 DEF Agent

\* The sanity phase hands on what its worker needs next.
LEMMA SanityLocals ==
    ASSUME TypeOK, NEW w \in Worker, LocalOK(w), Sanity(w)
    PROVE  LocalOK(w)'
<1>1. base[w] \in Commit /\ tip[w] \in Commit
  BY DEF Sanity, SanityStarts, Catalog, Attest, Advance, Advanced, Cleanup, Finish,
     LocalOK, AfterRead, HasTip, Locked
<1>2. CASE Blocks(w) \/ Leaves(w) \/ Finish(w)
  BY <1>2, SettlesLocals DEF Finish
<1>3. CASE \E label \in {"cleanup", "catalog", "attest"} : Stays(w, label)
  BY <1>1, <1>3, StaysLocals
<1>4. CASE ~ Blocks(w) /\ ~ Leaves(w) /\ (Attest(w) \/ Advance(w) \/ Cleanup(w))
  BY <1>1, <1>4 DEF TypeOK, Attest, Advance, Cleanup, Goto, locals, LocalOK
<1> QED
  BY <1>2, <1>3, <1>4 DEF Sanity, SanityStarts, Catalog, Advanced

\* Every step keeps the locals of all workers in order.
LEMMA NextLocals ==
    ASSUME TypeOK, TypeOK', LocalsOK, [Next]_vars
    PROVE  LocalsOK'
<1> USE DEF AfterRead, HasTip, Locked
<1>0. LocalsOK <=> \A w \in Worker : LocalOK(w)
  BY DEF LocalsOK
<1>1. CASE UNCHANGED locals /\ UNCHANGED pc
  BY <1>1 DEF LocalsOK, LocalOK, locals
<1>2. ASSUME NEW p \in Process, Crash(p)
      PROVE  LocalsOK'
  BY <1>2 DEF Crash, LocalsOK, LocalOK
<1>3. ASSUME NEW w \in Worker,
             Claim(w) \/ Enter(w) \/ Merge(w) \/ Agent(w) \/ Sanity(w)
      PROVE  LocalsOK'
  <2>1. LocalOK(w)
    BY <1>0
  <2>2. LocalOK(w)'
    <3>1. CASE Claim(w) \/ Enter(w)
      BY <3>1, <2>1 DEF TypeOK, Claim, Enter, Stays, Goto, locals, LocalOK
    <3> QED
      BY <3>1, <2>1, <1>3, MergeLocals, AgentLocals, SanityLocals
  <2>3. \A v \in Worker \ {w} : LocalOK(v)'
    BY <1>0, <1>3, StepIsLocal DEF OthersStay, LocalOK
  <2> QED
    BY <2>2, <2>3 DEF LocalsOK, LocalOK
<1>4. SourceMoves \/ (\E p \in Process : Acquire(p) \/ Refresh(p) \/ Cancel(p)) \/ Still
      => UNCHANGED locals /\ UNCHANGED pc
  BY DEF SourceMoves, Acquire, Refresh, Cancel, Still
<1> QED
  BY <1>1, <1>2, <1>3, <1>4, NextCases

(***************************************************************************)
(* What is published.                                                      *)
(***************************************************************************)
\* An ancestor of an existing commit remains one.
LEMMA AncestorStays ==
    ASSUME Keeps, NEW c, NEW d \in Commit, c \in history[d]
    PROVE  c \in history'[d]
BY DEF Keeps

Publishing == {"catalog", "attest", "advance", "advanced", "cleanup", "finish"}

\* Only the sanity phase takes a worker to the places Contained speaks of.
LEMMA MergeIsBefore ==
    ASSUME TypeOK, NEW w \in Worker, Claim(w) \/ Enter(w) \/ Merge(w) \/ Agent(w)
    PROVE  pc'[w] \notin Publishing /\ UNCHANGED advances
<1> USE DEF TypeOK, Publishing, Goto, Over
<1>1. CASE Claim(w) \/ Enter(w)
  BY <1>1 DEF Claim, Enter, Stays, store, events
<1>2. CASE Merge(w)
  BY <1>2 DEF Merge, MergeResumes, MergeHasBase, MergeReads, MergeStarts, MergeRefuses,
     MergeIsFenced, GitMerge, GitMergeFails, MergeVerifies, MergeUnverified, Blocks,
     Settles, Leaves, store, events
<1>3. CASE Agent(w)
  BY <1>3 DEF Agent, AgentResumes, AgentStarts, AgentWorks, AgentEnds, AgentRecorded,
     AgentStops, AgentIsFenced, MergeConcludes, Blocks, Settles, Leaves, Stays, store, events
<1> QED
  BY <1>1, <1>2, <1>3

\* Each step of the sanity phase hands on what Contained says of its worker.
LEMMA SanityContains ==
    ASSUME TypeOK, LocalsOK, HistoryOK, Contained, NEW w \in Worker, Sanity(w)
    PROVE  LET approved == ApprovedCommit[TaskOf(w)]
           IN  /\ pc'[w] \in {"catalog", "attest", "advance"} =>
                    approved \in history[tip'[w]]
               /\ pc'[w] \in {"advanced", "cleanup", "finish"} =>
                    approved \in history[project']
               /\ UNCHANGED advances \/
                    /\ approved \in history[tip[w]]
                    /\ advances' = [advances EXCEPT ![TaskOf(w)] =
                                      @ \cup {[from |-> base[w], commit |-> tip[w]]}]
<1> DEFINE approved == ApprovedCommit[TaskOf(w)]
<1>0. TaskOf(w) \in Task /\ approved \in Commit
  BY WorkerParts, PublicationAssumption
<1>1. CASE Blocks(w) \/ Leaves(w) \/ Finish(w)
  BY <1>1 DEF TypeOK, Blocks, Finish, Settles, Leaves, Over, Goto, store, events
<1>2. CASE SanityStarts(w) /\ ~ Blocks(w) /\ ~ Leaves(w)
  <2>1. CASE Stays(w, "cleanup") /\ project = tip[w] /\ AdvanceAttested(w)
    <3>1. approved \in history[project]
      BY <1>0, <2>1 DEF AdvanceAttested, Contained
    <3> QED
      BY <2>1, <3>1 DEF TypeOK, Stays, Goto, git, store, events
  <2>2. CASE Stays(w, "catalog") /\ TipVerified(w)
    <3>1. approved \in history[tip[w]]
      BY <2>2 DEF TipVerified, IsAncestor
    <3> QED
      BY <2>2, <3>1 DEF TypeOK, Stays, Goto, store, events, locals
  <2> QED
    BY <1>2, <2>1, <2>2 DEF SanityStarts
<1>3. CASE Catalog(w) /\ ~ Blocks(w) /\ ~ Leaves(w)
  BY <1>3 DEF TypeOK, Contained, Catalog, Stays, Goto, store, events, locals
<1>4. CASE Attest(w) /\ ~ Leaves(w)
  BY <1>4 DEF TypeOK, Contained, Attest, Goto, locals
<1>5. CASE Advance(w) /\ ~ Blocks(w)
  <2>1. /\ pc[w] = "advance" /\ project' = tip[w] /\ pc' = [pc EXCEPT ![w] = "advanced"]
        /\ UNCHANGED advances
    BY <1>5 DEF Advance, Goto, store, events
  <2>2. approved \in history[tip[w]]
    BY <2>1 DEF Contained
  <2> QED
    BY <2>1, <2>2 DEF TypeOK
<1>6. CASE (Advanced(w) \/ Cleanup(w)) /\ ~ Blocks(w) /\ ~ Leaves(w)
  BY <1>6 DEF TypeOK, Contained, Advanced, Cleanup, Stays, Goto, git, store, events
<1> QED
  BY <1>1, <1>2, <1>3, <1>4, <1>5, <1>6
     DEF Sanity, SanityStarts, Catalog, Attest, Advance, Advanced, Cleanup

\* Every step keeps verified and attested tips containing their approved commits.
LEMMA NextContained ==
    ASSUME TypeOK, TypeOK', LocalsOK, LocalsOK', HistoryOK, Contained, [Next]_vars
    PROVE  Contained'
<1>0. Keeps /\ history[project] \subseteq history'[project']
  BY NextKeeps, ProjectGrows
<1>1. ASSUME UNCHANGED advances
      PROVE  (\A t \in Task : \A e \in advances[t] : ApprovedCommit[t] \in history[e.commit])'
  <2>1. \A t \in Task : \A e \in advances[t] : e.commit \in Commit
    BY DEF TypeOK
  <2> QED
    BY <2>1, <1>0, <1>1, AncestorStays DEF Contained
<1>2. ASSUME NEW v \in Worker,
             pc'[v] = pc[v] /\ tip'[v] = tip[v]
      PROVE  /\ pc'[v] \in {"catalog", "attest", "advance"} =>
                   ApprovedCommit[TaskOf(v)] \in history'[tip'[v]]
             /\ pc'[v] \in {"advanced", "cleanup", "finish"} =>
                   ApprovedCommit[TaskOf(v)] \in history'[project']
  <2>1. pc[v] \in {"catalog", "attest", "advance"} => tip[v] \in Commit
    BY DEF LocalsOK, LocalOK, HasTip
  <2> QED
    BY <2>1, <1>0, <1>2, AncestorStays DEF Contained
<1>3. CASE UNCHANGED <<pc, tip, advances>>
  BY <1>1, <1>2, <1>3 DEF Contained
<1>4. ASSUME NEW p \in Process, Crash(p)
      PROVE  Contained'
  <2>1. UNCHANGED advances
    BY <1>4 DEF Crash, store, events
  <2>2. \A v \in Worker : pc'[v] = "idle" \/ (pc'[v] = pc[v] /\ tip'[v] = tip[v])
    BY <1>4 DEF Crash
  <2> QED
    BY <2>1, <2>2, <1>1, <1>2 DEF Contained
<1>5. ASSUME NEW w \in Worker,
             Claim(w) \/ Enter(w) \/ Merge(w) \/ Agent(w)
      PROVE  Contained'
  <2>1. pc'[w] \notin Publishing /\ UNCHANGED advances
    BY <1>5, MergeIsBefore
  <2>2. \A v \in Worker \ {w} : pc'[v] = pc[v] /\ tip'[v] = tip[v]
    BY <1>5, StepIsLocal DEF OthersStay
  <2> QED
    BY <2>1, <2>2, <1>1, <1>2 DEF Contained, Publishing
<1>6. ASSUME NEW w \in Worker, Sanity(w)
      PROVE  Contained'
  <2>1. \A v \in Worker \ {w} : pc'[v] = pc[v] /\ tip'[v] = tip[v]
    BY <1>6, StepIsLocal DEF OthersStay
  <2>2. UNCHANGED history
    BY <1>6, SanityHistory
  <2>3. (\A t \in Task : \A e \in advances[t] : ApprovedCommit[t] \in history[e.commit])'
    <3>1. CASE UNCHANGED advances
      BY <3>1, <1>1
    <3>2. CASE ~ UNCHANGED advances
      <4>1. /\ ApprovedCommit[TaskOf(w)] \in history[tip[w]]
            /\ advances' = [advances EXCEPT ![TaskOf(w)] =
                              @ \cup {[from |-> base[w], commit |-> tip[w]]}]
        BY <1>6, <3>2, SanityContains
      <4>2. \A t \in Task : \A e \in advances'[t] :
              e \in advances[t] \/ (t = TaskOf(w) /\ e.commit = tip[w])
        BY <4>1, WorkerParts DEF TypeOK
      <4> QED
        BY <4>1, <4>2, <2>2 DEF Contained
    <3> QED
      BY <3>1, <3>2
  <2>4. /\ pc'[w] \in {"catalog", "attest", "advance"} =>
             ApprovedCommit[TaskOf(w)] \in history'[tip'[w]]
        /\ pc'[w] \in {"advanced", "cleanup", "finish"} =>
             ApprovedCommit[TaskOf(w)] \in history'[project']
    BY <1>6, <2>2, SanityContains
  <2> QED
    BY <2>1, <2>3, <2>4, <1>2 DEF Contained
<1>7. SourceMoves \/ (\E p \in Process : Acquire(p) \/ Refresh(p) \/ Cancel(p)) \/ Still
      => UNCHANGED <<pc, tip, advances>>
  BY DEF SourceMoves, Acquire, Refresh, Cancel, Still, store, events, locals
<1> QED
  BY <1>3, <1>4, <1>5, <1>6, <1>7, NextCases

\* A step of one worker gives no task to another and creates no worktree; it
\* arrives at the final transition only after removing its own.
LEMMA WorkerOwnership ==
    ASSUME TypeOK, NEW w \in Worker,
           Claim(w) \/ Enter(w) \/ Merge(w) \/ Agent(w) \/ Sanity(w)
    PROVE  /\ \A v \in Worker \ {w} : Holds(v)' => Holds(v)
           /\ \A t \in Task : worktree'[t] => worktree[t]
           /\ pc'[w] = "finish" => ~ worktree'[TaskOf(w)]
<1> USE DEF TypeOK, Goto, Over
<1>0. TaskOf(w) \in Task
  BY WorkerParts
<1>1. CASE Claim(w)
  <2>1. holder' = [holder EXCEPT ![TaskOf(w)] = ProcessOf(w)] /\ UNCHANGED worktree
        /\ pc' = [pc EXCEPT ![w] = "waiting"]
    BY <1>1 DEF Claim, git
  <2> QED
    BY <2>1, <1>0, WorkerParts DEF Holds
<1>2. CASE Settles(w, "done") \/ Settles(w, "blocked") \/ Settles(w, "failed")
  <2>1. /\ holder' = holder \/ holder' = [holder EXCEPT ![TaskOf(w)] = NoProcess]
        /\ UNCHANGED worktree
        /\ pc' = [pc EXCEPT ![w] = "idle"]
    BY <1>2 DEF Settles, git
  <2>2. \A v \in Worker : ProcessOf(v) # NoProcess /\ TaskOf(v) \in Task
    BY WorkerParts, PublicationAssumption
  <2> QED
    BY <2>1, <2>2, <1>0 DEF Holds
<1>3. CASE Cleanup(w) /\ ~ Blocks(w)
  BY <1>0, <1>3 DEF Cleanup, Holds, store
<1>4. CASE UNCHANGED <<holder, worktree>> /\ pc'[w] # "finish"
  BY <1>4 DEF Holds
<1>5. CASE Merge(w) \/ Enter(w)
  <2>1. Settles(w, "blocked") \/ (UNCHANGED <<holder, worktree>> /\ pc'[w] # "finish")
    BY <1>5 DEF Enter, Merge, MergeResumes, MergeHasBase, MergeReads, MergeStarts,
       MergeRefuses, MergeIsFenced, GitMerge, GitMergeFails, MergeVerifies,
       MergeUnverified, Blocks, Leaves, Stays, git, store
  <2> QED
    BY <2>1, <1>2, <1>4
<1>6. CASE Agent(w)
  <2>1. CASE MergeConcludes(w)
    <3>1. /\ holder' = holder \/ holder' = [holder EXCEPT ![TaskOf(w)] = NoProcess]
          /\ UNCHANGED worktree
          /\ pc' = [pc EXCEPT ![w] = "idle"]
      BY <2>1 DEF MergeConcludes, Settles, git
    <3>2. \A v \in Worker : ProcessOf(v) # NoProcess /\ TaskOf(v) \in Task
      BY WorkerParts, PublicationAssumption
    <3> QED
      BY <3>1, <3>2, <1>0 DEF Holds
  <2>2. CASE ~ MergeConcludes(w)
    <3>1. Settles(w, "blocked") \/ (UNCHANGED <<holder, worktree>> /\ pc'[w] # "finish")
      BY <1>6, <2>2 DEF Agent, AgentResumes, AgentStarts, AgentWorks, AgentEnds,
         AgentRecorded, AgentStops, AgentIsFenced, Blocks, Leaves, Stays, git, store
    <3> QED
      BY <3>1, <1>2, <1>4
  <2> QED
    BY <2>1, <2>2
<1>7. CASE Sanity(w) /\ ~ Cleanup(w)
  <2>1. \/ Settles(w, "blocked") \/ Settles(w, "done")
        \/ (UNCHANGED <<holder, worktree>> /\ pc'[w] # "finish")
    BY <1>7 DEF Sanity, SanityStarts, Catalog, Attest, Advance, Advanced, Finish, Blocks,
       Leaves, Stays, git, store
  <2> QED
    BY <2>1, <1>2, <1>4
<1> QED
  BY <1>1, <1>2, <1>3, <1>5, <1>6, <1>7 DEF Sanity, Blocks

\* Every step keeps a cleaned-up worktree removed while its task is owned.
LEMMA NextRemoved ==
    ASSUME TypeOK, Removed, [Next]_vars
    PROVE  Removed'
<1>1. CASE UNCHANGED <<pc, holder, worktree>>
  BY <1>1 DEF Removed, Holds
<1>2. ASSUME NEW p \in Process, Acquire(p)
      PROVE  Removed'
  <2>1. holder' = [t \in Task |-> NoProcess]
    BY <1>2 DEF Acquire
  <2> QED
    BY <2>1, WorkerParts, PublicationAssumption DEF Removed, Holds
<1>3. ASSUME NEW p \in Process, Crash(p)
      PROVE  Removed'
  BY <1>3 DEF Crash, Removed, Holds, git, store
<1>4. ASSUME NEW w \in Worker,
             Claim(w) \/ Enter(w) \/ Merge(w) \/ Agent(w) \/ Sanity(w)
      PROVE  Removed'
  <2>1. \A v \in Worker \ {w} : pc'[v] = pc[v] /\ (Holds(v)' => Holds(v))
    BY <1>4, StepIsLocal, WorkerOwnership DEF OthersStay
  <2>2. \A v \in Worker : worktree'[TaskOf(v)] => worktree[TaskOf(v)]
    BY <1>4, WorkerParts, WorkerOwnership
  <2>3. pc'[w] = "finish" => ~ worktree'[TaskOf(w)]
    BY <1>4, WorkerOwnership
  <2> QED
    BY <2>1, <2>2, <2>3 DEF Removed
<1>5. SourceMoves \/ (\E p \in Process : Refresh(p) \/ Cancel(p)) \/ Still
      => UNCHANGED <<pc, holder, worktree>>
  BY DEF SourceMoves, Refresh, Cancel, Still, store, git
<1> QED
  BY <1>1, <1>2, <1>3, <1>4, <1>5, NextCases

\* A task becomes done only by the final transition of its owner.
LEMMA OnlyFinishEnds ==
    ASSUME TypeOK, LocalsOK, [Next]_vars, NEW t \in Task, status'[t] = "done"
    PROVE  \/ status[t] = "done"
           \/ \E w \in Worker : Finish(w) /\ Holds(w) /\ TaskOf(w) = t
<1> USE DEF TypeOK
<1>1. CASE UNCHANGED status
  BY <1>1
<1>2. ASSUME NEW w \in Worker, NEW result \in {"failed", "blocked"}, Settles(w, result)
      PROVE  status[t] = "done"
  <2>1. UNCHANGED status \/ status' = [status EXCEPT ![TaskOf(w)] = result]
    BY <1>2 DEF Settles
  <2> QED
    BY <2>1, WorkerParts
<1>3. ASSUME NEW w \in Worker, Finish(w)
      PROVE  status[t] = "done" \/ (Holds(w) /\ TaskOf(w) = t)
  <2>1. UNCHANGED status \/ (Holds(w) /\ status' = [status EXCEPT ![TaskOf(w)] = "done"])
    BY <1>3 DEF Finish, Settles
  <2> QED
    BY <2>1, WorkerParts
<1>4. ASSUME NEW w \in Worker, Claim(w) \/ Enter(w) \/ Merge(w)
      PROVE  UNCHANGED status \/ Settles(w, "blocked")
  BY <1>4 DEF Claim, Enter, Merge, MergeResumes, MergeHasBase, MergeReads, MergeStarts,
     MergeRefuses, MergeIsFenced, GitMerge, GitMergeFails, MergeVerifies,
     MergeUnverified, Blocks, Leaves, Stays, store
<1>5. ASSUME NEW w \in Worker, Agent(w)
      PROVE  UNCHANGED status \/ \E result \in {"failed", "blocked"} : Settles(w, result)
  BY <1>5 DEF Agent, AgentResumes, AgentStarts, AgentWorks, AgentEnds, AgentRecorded,
     AgentStops, AgentIsFenced, MergeConcludes, Blocks, Leaves, Stays, store, LocalsOK,
     LocalOK
<1>6. ASSUME NEW w \in Worker, Sanity(w)
      PROVE  UNCHANGED status \/ Settles(w, "blocked") \/ Finish(w)
  BY <1>6 DEF Sanity, SanityStarts, Catalog, Attest, Advance, Advanced, Cleanup, Blocks,
     Leaves, Stays, store
<1>7. SourceMoves \/ (\E p \in Process : Acquire(p) \/ Refresh(p) \/ Crash(p) \/ Cancel(p))
        \/ Still
      => UNCHANGED status
  BY DEF SourceMoves, Acquire, Refresh, Crash, Cancel, Still, store
<1> QED
  BY <1>1, <1>2, <1>3, <1>4, <1>5, <1>6, <1>7, NextCases

\* Only the setup of a process creates worktrees, and not for done tasks.
LEMMA DoneStaysRemoved ==
    ASSUME TypeOK, [Next]_vars, NEW t \in Task, status[t] = "done", ~ worktree[t]
    PROVE  ~ worktree'[t]
<1>1. ASSUME NEW p \in Process, Acquire(p)
      PROVE  ~ worktree'[t]
  BY <1>1 DEF Acquire
<1>2. ASSUME NEW w \in Worker,
             Claim(w) \/ Enter(w) \/ Merge(w) \/ Agent(w) \/ Sanity(w)
      PROVE  ~ worktree'[t]
  BY <1>2, WorkerOwnership
<1>3. SourceMoves \/ (\E p \in Process : Refresh(p) \/ Crash(p) \/ Cancel(p)) \/ Still
      => UNCHANGED worktree
  BY DEF SourceMoves, Refresh, Crash, Cancel, Still, git
<1> QED
  BY <1>1, <1>2, <1>3, NextCases

\* Every step keeps done tasks published.
LEMMA NextDone ==
    ASSUME TypeOK, TypeOK', LocalsOK, HistoryOK, Contained, Removed, DoneIsPublished,
           [Next]_vars
    PROVE  DoneIsPublished'
<1> SUFFICES ASSUME NEW t \in Task, status'[t] = "done"
             PROVE  ApprovedCommit[t] \in history'[project'] /\ ~ worktree'[t]
  BY DEF DoneIsPublished, IsAncestor
<1>0. history[project] \subseteq history'[project']
  BY ProjectGrows
<1>1. CASE status[t] = "done"
  BY <1>0, <1>1, DoneStaysRemoved DEF DoneIsPublished, IsAncestor
<1>2. ASSUME NEW w \in Worker, Finish(w), Holds(w), TaskOf(w) = t
      PROVE  ApprovedCommit[t] \in history'[project'] /\ ~ worktree'[t]
  <2>1. pc[w] = "finish" /\ UNCHANGED worktree
    BY <1>2 DEF Finish, Settles, git
  <2> QED
    BY <2>1, <1>0, <1>2 DEF Contained, Removed
<1> QED
  BY <1>1, <1>2, OnlyFinishEnds

(***************************************************************************)
(* What the project branch is advanced from.                               *)
(***************************************************************************)
\* Of what contains b, h contains nothing but itself and b.
Tight(b, h) == \A x \in history[h] \ {h} : b \in history[x] => x = b

\* A commit is an ancestor of itself, and no two are of one another.
Acyclic ==
    /\ \A c \in Commit : history[c] # {} => c \in history[c]
    /\ \A c, d \in Commit : c \in history[d] /\ d \in history[c] => c = d

References ==
    /\ project \in history[project] /\ source \in history[source]
    /\ \A t \in Task : head[t] \in history[head[t]]

\* A base was the project branch once, and a merge is active only of one that the
\* worktree does not have.
PastBases ==
    /\ \A w \in Worker : pc[w] \in AfterRead => base[w] \in history[project]
    /\ \A t \in Task : mergeHead[t] # NoCommit =>
                         mergeHead[t] \in history[project] \ history[head[t]]

HeadIsTight == \A t \in Task : Tight(project, head[t])

\* An advance is attested from the base of a tip that is tight on it.
TipOK(w) ==
    /\ pc[w] \in {"catalog", "attest", "advance"} =>
         /\ base[w] \in history[tip[w]] /\ base[w] # tip[w]
         /\ Tight(base[w], tip[w])
    /\ pc[w] = "advance" => AdvanceAttested(w)
TipIsTight == \A w \in Worker : TipOK(w)

BaseInv == Acyclic /\ References /\ PastBases /\ HeadIsTight /\ TipIsTight

\* A commit cannot be an ancestor of those it is created from.
LEMMA NextAcyclic ==
    ASSUME TypeOK, LocalsOK, HistoryOK, Acyclic, [Next]_vars
    PROVE  Acyclic'
<1>1. CASE UNCHANGED history
  BY <1>1 DEF Acyclic
<1>2. CASE Extends
  <2>1. PICK c, a, b \in Commit : history[c] = {} /\ history' = WithMerge(c, a, b)
    BY <1>2 DEF Extends
  <2>2. \A d \in Commit \ {c} : history'[d] = history[d]
    BY <2>1 DEF TypeOK, WithMerge
  <2>3. \A d \in Commit \ {c} : c \notin history'[d]
    BY <2>1, <2>2 DEF HistoryOK
  <2>4. c \in history'[c]
    BY <2>1 DEF TypeOK, WithMerge
  <2> QED
    BY <2>2, <2>3, <2>4 DEF Acyclic
<1> QED
  BY <1>1, <1>2, NextHistory

\* A merge of b into a head h without it: of what contains b, only the merge and b
\* itself are in it, and so it is with a later p.
LEMMA MergeIsTight ==
    ASSUME TypeOK', HistoryOK', Acyclic', NEW c \in Commit, NEW h \in Commit, NEW b \in Commit,
           b \in history'[project'], b \notin history'[h],
           history'[c] = history'[h] \cup history'[b] \cup {c} \/ c = b
    PROVE  Tight(project, c)'
<1> SUFFICES ASSUME NEW x \in history'[c] \ {c}, project' \in history'[x]
             PROVE  x = project'
  BY DEF Tight
<1>1. x \in Commit /\ project' \in Commit
  BY DEF TypeOK
<1>2. b \in history'[x]
  BY <1>1 DEF HistoryOK
<1>3. x \notin history'[h]
  BY <1>1, <1>2 DEF HistoryOK
<1>4. x = b
  BY <1>1, <1>2, <1>3 DEF Acyclic
<1> QED
  BY <1>1, <1>4 DEF Acyclic

\* What a step does to a worktree: a merge is committed, begun or aborted.
Commits(t, c, b) ==
    /\ head' = [head EXCEPT ![t] = c] /\ UNCHANGED <<project, source>>
    /\ b \in history[project] \ history[head[t]]
    /\ history'[c] = history[head[t]] \cup history[b] \cup {c}
       \/ (c = b /\ head[t] \in history[b] /\ UNCHANGED history)
    /\ \A u \in Task : mergeHead'[u] \in {mergeHead[u], NoCommit}
    /\ mergeHead'[t] = NoCommit

Begins(t, b) ==
    /\ mergeHead' = [mergeHead EXCEPT ![t] = b] /\ UNCHANGED <<head, history, project>>
    /\ b \in history[project] \ history[head[t]]

LEMMA WorktreeMoves ==
    ASSUME TypeOK, TypeOK', LocalsOK, HistoryOK, References, PastBases, [Next]_vars
    PROVE  \/ UNCHANGED head /\ \A u \in Task : mergeHead'[u] \in {mergeHead[u], NoCommit}
           \/ \E t \in Task, c \in Commit, b \in Commit : Commits(t, c, b)
           \/ \E t \in Task, b \in Commit : Begins(t, b)
<1>1. CASE SourceMoves \/ Still
  BY <1>1 DEF SourceMoves, Still, git
<1>2. CASE \E p \in Process : Acquire(p) \/ Refresh(p) \/ Crash(p) \/ Cancel(p)
  BY <1>2 DEF Acquire, Refresh, Crash, Cancel, git
<1>3. CASE \E w \in Worker : Claim(w) \/ Enter(w) \/ Sanity(w)
  BY <1>3 DEF Claim, Enter, Sanity, SanityStarts, Catalog, Attest, Advance, Advanced, Cleanup,
     Finish, Blocks, Settles, Leaves, Stays, git
<1>4. ASSUME NEW w \in Worker, GitMerge(w)
      PROVE  \/ UNCHANGED <<head, mergeHead>>
             \/ \E t \in Task, c \in Commit, b \in Commit : Commits(t, c, b)
             \/ \E t \in Task, b \in Commit : Begins(t, b)
  <2> DEFINE t == TaskOf(w)
  <2>1. PICK b \in Commit : b = base[w]
    BY <1>4 DEF GitMerge, LocalsOK, LocalOK, AfterRead, Locked
  <2>2. t \in Task /\ head[t] \in Commit /\ b \in history[project] /\ b \in history[b]
    BY <1>4, <2>1, WorkerParts DEF GitMerge, TypeOK, PastBases, AfterRead, Locked, HistoryOK
  <2>3. CASE UNCHANGED <<head, mergeHead>>
    BY <2>3
  <2>4. CASE /\ ~ IsAncestor(b, head[t]) /\ mergeHead' = [mergeHead EXCEPT ![t] = b]
             /\ UNCHANGED <<history, head, project>>
    BY <2>2, <2>4 DEF Begins, IsAncestor
  <2>5. CASE ~ IsAncestor(b, head[t]) /\ UNCHANGED mergeHead /\ ~ UNCHANGED head
    <3>1. PICK c \in Commit :
             /\ \/ IsMerge(c, head[t], b) /\ UNCHANGED history
                \/ Fresh(c) /\ history' = WithMerge(c, head[t], b)
             /\ head' = [head EXCEPT ![t] = c]
      BY <1>4, <2>1, <2>5 DEF GitMerge
    <3>2. mergeHead[t] = NoCommit /\ UNCHANGED <<project, source>>
      BY <1>4, <2>5 DEF GitMerge
    <3>3. \/ history'[c] = history[head[t]] \cup history[b] \cup {c}
          \/ (c = b /\ head[t] \in history[b] /\ UNCHANGED history)
      BY <3>1 DEF IsMerge, IsAncestor, WithMerge, TypeOK
    <3> QED
      BY <2>2, <2>5, <3>1, <3>2, <3>3 DEF Commits, IsAncestor
  <2> QED
    BY <1>4, <2>1, <2>3, <2>4, <2>5 DEF GitMerge
<1>5. ASSUME NEW w \in Worker, AgentWorks(w)
      PROVE  \/ UNCHANGED head /\ \A u \in Task : mergeHead'[u] \in {mergeHead[u], NoCommit}
             \/ \E t \in Task, c \in Commit, b \in Commit : Commits(t, c, b)
  <2> DEFINE t == TaskOf(w)
  <2>1. t \in Task /\ head[t] \in Commit
    BY WorkerParts DEF TypeOK
  <2>2. CASE UNCHANGED head
    BY <1>5, <2>1, <2>2 DEF AgentWorks, TypeOK
  <2>3. CASE ~ UNCHANGED head
    <3>1. PICK b \in Commit : b = mergeHead[t]
      BY <1>5, <2>1 DEF AgentWorks, TypeOK, OptionalCommit
    <3>2. b \in history[project] \ history[head[t]]
      BY <1>5, <2>1, <3>1 DEF AgentWorks, PastBases
    <3>3. PICK c \in Commit :
             /\ history' = WithMerge(c, head[t], b)
             /\ head' = [head EXCEPT ![t] = c]
             /\ mergeHead' = [mergeHead EXCEPT ![t] = NoCommit]
      BY <1>5, <2>3, <3>1 DEF AgentWorks
    <3>4. history'[c] = history[head[t]] \cup history[b] \cup {c}
      BY <3>3 DEF WithMerge, TypeOK
    <3>5. UNCHANGED <<project, source>>
      BY <1>5 DEF AgentWorks
    <3>6. head \in [Task -> Commit] /\ mergeHead \in [Task -> OptionalCommit]
      BY DEF TypeOK
    <3> HIDE DEF t
    <3> QED
      BY <2>1, <3>2, <3>3, <3>4, <3>5, <3>6 DEF Commits
  <2> QED
    BY <2>2, <2>3
<1>6. ASSUME NEW w \in Worker, Merge(w) \/ Agent(w), ~ GitMerge(w), ~ AgentWorks(w)
      PROVE  UNCHANGED <<head, mergeHead>>
  BY <1>6 DEF Merge, MergeResumes, MergeHasBase, MergeReads, MergeStarts, MergeRefuses,
     MergeIsFenced, GitMergeFails, MergeVerifies, MergeUnverified, Agent, AgentResumes,
     AgentStarts, AgentEnds, AgentRecorded, AgentStops, AgentIsFenced, MergeConcludes,
     Blocks, Settles, Leaves, Stays, git
<1> QED
  BY <1>1, <1>2, <1>3, <1>4, <1>5, <1>6, NextCases

\* Only the user moves the source branch.
LEMMA SourceStays ==
    ASSUME [Next]_vars, ~ SourceMoves
    PROVE  UNCHANGED source
<1>1. ASSUME NEW w \in Worker, Merge(w)
      PROVE  UNCHANGED source
  BY <1>1 DEF Merge, MergeResumes, MergeHasBase, MergeReads, MergeStarts, MergeRefuses,
     MergeIsFenced, GitMerge, GitMergeFails, MergeVerifies, MergeUnverified, Blocks,
     Settles, Leaves, git
<1>2. ASSUME NEW w \in Worker, Agent(w)
      PROVE  UNCHANGED source
  BY <1>2 DEF Agent, AgentResumes, AgentStarts, AgentWorks, AgentEnds, AgentRecorded,
     AgentStops, AgentIsFenced, MergeConcludes, Blocks, Settles, Leaves, Stays, git
<1>3. ASSUME NEW w \in Worker, Sanity(w)
      PROVE  UNCHANGED source
  BY <1>3 DEF Sanity, SanityStarts, Catalog, Attest, Advance, Advanced, Cleanup, Finish,
     Blocks, Settles, Leaves, Stays, git
<1>4. (\E p \in Process : Acquire(p) \/ Refresh(p) \/ Crash(p) \/ Cancel(p)) \/ Still
        \/ (\E w \in Worker : Claim(w) \/ Enter(w)) => UNCHANGED source
  BY DEF Acquire, Refresh, Crash, Cancel, Claim, Enter, Stays, Still, git
<1> QED
  BY <1>1, <1>2, <1>3, <1>4, NextCases

\* Every reference is to a commit that exists.
LEMMA NextReferences ==
    ASSUME TypeOK, TypeOK', LocalsOK, HistoryOK, Acyclic', References, PastBases, [Next]_vars
    PROVE  References'
<1>1. Keeps
  BY NextKeeps
<1>2. (project \in history[project])'
  <2>1. history'[project'] # {}
    BY ProjectGrows DEF References
  <2> QED
    BY <2>1 DEF Acyclic, TypeOK
<1>3. (source \in history[source])'
  <2>1. CASE SourceMoves
    <3>1. PICK c \in Commit, a \in Commit : source' = c /\ history' = WithMerge(c, source, a)
      BY <2>1 DEF SourceMoves, TypeOK
    <3> QED
      BY <3>1 DEF WithMerge, TypeOK
  <2>2. CASE UNCHANGED source
    BY <1>1, <2>2 DEF References, Keeps, TypeOK
  <2> QED
    BY <2>1, <2>2, SourceStays
<1>4. ASSUME NEW t \in Task
      PROVE  (head[t] \in history[head[t]])'
  <2>1. CASE head'[t] = head[t]
    BY <1>1, <2>1 DEF References, Keeps, TypeOK
  <2>2. CASE head'[t] # head[t]
    <3>1. PICK c \in Commit, b \in Commit : Commits(t, c, b)
      BY <2>2, WorktreeMoves DEF Commits, Begins, TypeOK
    <3>2. history[b] # {} /\ head'[t] = c /\ history'[c] # {}
      BY <3>1 DEF Commits, TypeOK, HistoryOK
    <3> QED
      BY <3>2 DEF Acyclic
  <2> QED
    BY <2>1, <2>2
<1> QED
  BY <1>2, <1>3, <1>4 DEF References

\* A worker keeps the base it read.
LEMMA BaseIsRead ==
    ASSUME TypeOK, TypeOK', NEW w \in Worker,
           Claim(w) \/ Enter(w) \/ Merge(w) \/ Agent(w) \/ Sanity(w)
    PROVE  pc'[w] \in AfterRead =>
             \/ pc[w] \in AfterRead /\ base'[w] = base[w]
             \/ base'[w] = project' /\ UNCHANGED project
<1> USE DEF TypeOK, AfterRead, Locked, Goto, Over
<1>1. CASE Claim(w) \/ Enter(w)
  BY <1>1 DEF Claim, Enter, Stays, locals
<1>2. CASE Merge(w)
  BY <1>2 DEF Merge, MergeResumes, MergeHasBase, MergeReads, MergeStarts, MergeRefuses,
     MergeIsFenced, GitMerge, GitMergeFails, MergeVerifies, MergeUnverified, Blocks,
     Settles, Leaves, git, locals
<1>3. CASE Agent(w)
  BY <1>3 DEF Agent, AgentResumes, AgentStarts, AgentWorks, AgentEnds, AgentRecorded,
     AgentStops, AgentIsFenced, MergeConcludes, Blocks, Settles, Leaves, Stays, locals
<1>4. CASE Sanity(w)
  BY <1>4 DEF Sanity, SanityStarts, Catalog, Attest, Advance, Advanced, Cleanup, Finish,
     Blocks, Settles, Leaves, Stays, locals
<1> QED
  BY <1>1, <1>2, <1>3, <1>4

LEMMA NextPastBases ==
    ASSUME TypeOK, TypeOK', LocalsOK, HistoryOK, References, References', PastBases, [Next]_vars
    PROVE  PastBases'
<1>1. Keeps /\ history[project] \subseteq history'[project']
  BY NextKeeps, ProjectGrows
<1>2. ASSUME NEW w \in Worker, pc'[w] \in AfterRead
      PROVE  base'[w] \in history'[project']
  <2>1. CASE pc[w] \in AfterRead /\ base'[w] = base[w]
    BY <1>1, <2>1 DEF PastBases
  <2>2. CASE base'[w] = project'
    BY <2>2 DEF References
  <2>3. ASSUME NEW v \in Worker, Claim(v) \/ Enter(v) \/ Merge(v) \/ Agent(v) \/ Sanity(v)
        PROVE  (pc[w] \in AfterRead /\ base'[w] = base[w]) \/ base'[w] = project'
    <3>1. CASE v = w
      BY <1>2, <2>3, <3>1, BaseIsRead
    <3>2. CASE v # w
      BY <1>2, <2>3, <3>2, StepIsLocal DEF OthersStay
    <3> QED
      BY <3>1, <3>2
  <2>4. ASSUME NEW p \in Process, Crash(p)
        PROVE  pc[w] \in AfterRead /\ base'[w] = base[w]
    BY <1>2, <2>4 DEF Crash, AfterRead, Locked
  <2>5. SourceMoves \/ (\E p \in Process : Acquire(p) \/ Refresh(p) \/ Cancel(p)) \/ Still
        => UNCHANGED <<pc, base>>
    BY DEF SourceMoves, Acquire, Refresh, Cancel, Still, locals
  <2> QED
    BY <1>2, <2>1, <2>2, <2>3, <2>4, <2>5, NextCases
<1>3. ASSUME NEW t \in Task, mergeHead'[t] # NoCommit
      PROVE  mergeHead'[t] \in history'[project'] \ history'[head'[t]]
  <2>1. CASE mergeHead'[t] = mergeHead[t] /\ head'[t] = head[t]
    BY <1>1, <1>3, <2>1 DEF PastBases, References, Keeps, TypeOK
  <2>2. ASSUME NEW u \in Task, NEW c \in Commit, NEW b \in Commit, Commits(u, c, b)
        PROVE  mergeHead'[t] = mergeHead[t] /\ head'[t] = head[t]
    BY <1>3, <2>2 DEF Commits, TypeOK
  <2>3. ASSUME NEW u \in Task, NEW b \in Commit, Begins(u, b), ~ (mergeHead'[t] = mergeHead[t])
        PROVE  mergeHead'[t] \in history'[project'] \ history'[head'[t]]
    BY <2>3 DEF Begins, TypeOK, OptionalCommit
  <2>4. ASSUME NEW u \in Task, NEW b \in Commit, Begins(u, b)
        PROVE  head'[t] = head[t]
    BY <2>4 DEF Begins
  <2> QED
    BY <1>3, <2>1, <2>2, <2>3, <2>4, WorktreeMoves
<1> QED
  BY <1>2, <1>3 DEF PastBases

\* The branch a worktree is to be merged with is where the last merge came from, or
\* nowhere in it.
LEMMA NextHeadIsTight ==
    ASSUME TypeOK, TypeOK', LocalsOK, HistoryOK, HistoryOK', Acyclic, Acyclic', References,
           References', PastBases, HeadIsTight, [Next]_vars
    PROVE  HeadIsTight'
<1>1. Keeps /\ history[project] \subseteq history'[project']
  BY NextKeeps, ProjectGrows
<1>2. project \in Commit /\ project' \in Commit /\ project \in history'[project']
  BY <1>1 DEF TypeOK, References
<1> SUFFICES ASSUME NEW t \in Task
             PROVE  Tight(project, head[t])'
  BY DEF HeadIsTight
<1>3. head[t] \in Commit /\ history'[head[t]] = history[head[t]]
  BY <1>1 DEF References, Keeps, TypeOK
<1>4. CASE head'[t] = head[t]
  <2> SUFFICES ASSUME NEW x \in history'[head[t]] \ {head[t]}, project' \in history'[x]
               PROVE  x = project'
    BY <1>4 DEF Tight
  <2>1. x \in Commit /\ x \in history[head[t]] /\ history'[x] = history[x]
    BY <1>1, <1>3 DEF TypeOK, HistoryOK, Keeps
  <2>2. project \in history[x]
    BY <1>2, <2>1 DEF HistoryOK
  <2>3. x = project
    BY <2>1, <2>2 DEF HeadIsTight, Tight
  <2> QED
    BY <1>2, <2>3 DEF Acyclic
<1>5. CASE head'[t] # head[t]
  <2>1. PICK c \in Commit, b \in Commit : Commits(t, c, b)
    BY <1>5, WorktreeMoves DEF Commits, Begins, TypeOK
  <2>2. head'[t] = c /\ b \in history'[project'] /\ b \notin history'[head[t]]
    BY <1>1, <1>3, <2>1 DEF Commits, TypeOK
  <2>3. history[b] # {}
    BY <2>1 DEF Commits, HistoryOK, TypeOK
  <2>4. history'[c] = history'[head[t]] \cup history'[b] \cup {c} \/ c = b
    BY <1>1, <1>3, <2>1, <2>3 DEF Commits, Keeps
  <2>5. Tight(project, c)'
    BY <1>3, <2>2, <2>4, MergeIsTight
  <2> QED
    BY <2>2, <2>5
<1> QED
  BY <1>4, <1>5

\* A worker brings its tip to the place where it is attested from the branch as it
\* is then, and attests it before it moves the branch.
LEMMA SanityTip ==
    ASSUME TypeOK, TypeOK', LocalsOK, HeadIsTight, NEW w \in Worker, TipOK(w), Sanity(w)
    PROVE  TipOK(w)'
<1>0. TaskOf(w) \in Task
  BY WorkerParts
<1>1. UNCHANGED history
  BY SanityHistory
<1>2. CASE Blocks(w) \/ Leaves(w) \/ Finish(w)
  BY <1>2 DEF TypeOK, Finish, Blocks, Settles, Leaves, Over, Goto, TipOK
<1>3. CASE Stays(w, "cleanup")
  BY <1>3 DEF TypeOK, Stays, Goto, TipOK
<1>4. CASE SanityStarts(w) /\ Stays(w, "catalog")
  <2>1. /\ head[TaskOf(w)] = tip[w] /\ base[w] \in history[tip[w]]
        /\ project = base[w] /\ base[w] # tip[w]
    BY <1>4 DEF SanityStarts, TipVerified, IsAncestor, Stays, Goto, Blocks, Settles, Leaves, Over,
       TypeOK
  <2>2. Tight(base[w], tip[w])
    BY <1>0, <2>1 DEF HeadIsTight
  <2> QED
    BY <1>1, <1>4, <2>1, <2>2 DEF TipOK, Tight, Stays, Goto, locals, TypeOK
<1>5. CASE Catalog(w) /\ Stays(w, "attest")
  BY <1>1, <1>5 DEF Catalog, TipOK, Tight, Stays, Goto, locals, TypeOK
<1>6. CASE Attest(w) /\ ~ Leaves(w)
  <2>1. [from |-> base[w], commit |-> tip[w]] \in advances'[TaskOf(w)]
    BY <1>0, <1>6 DEF Attest, TypeOK
  <2>2. UNCHANGED <<base, tip>> /\ pc[w] = "attest"
    BY <1>6 DEF Attest, locals
  <2> QED
    BY <1>1, <2>1, <2>2 DEF TipOK, Tight, AdvanceAttested
<1>7. CASE (Advance(w) \/ Cleanup(w)) /\ ~ Blocks(w)
  BY <1>7 DEF Advance, Cleanup, Goto, TipOK, TypeOK
<1> QED
  BY <1>2, <1>3, <1>4, <1>5, <1>6, <1>7
     DEF Sanity, SanityStarts, Catalog, Attest, Advance, Advanced, Cleanup

LEMMA NextTipIsTight ==
    ASSUME TypeOK, TypeOK', LocalsOK, HistoryOK, HeadIsTight, TipIsTight, [Next]_vars
    PROVE  TipIsTight'
<1>1. Keeps
  BY NextKeeps
<1>2. ASSUME NEW v \in Worker, pc'[v] = pc[v], base'[v] = base[v], tip'[v] = tip[v],
             advances[TaskOf(v)] \subseteq advances'[TaskOf(v)]
      PROVE  TipOK(v)'
  <2>1. CASE pc[v] \in {"catalog", "attest", "advance"}
    <3>1. tip[v] \in Commit /\ base[v] \in history[tip[v]]
      BY <2>1 DEF TipIsTight, TipOK, LocalsOK, LocalOK, HasTip
    <3>2. history'[tip[v]] = history[tip[v]]
      BY <1>1, <3>1 DEF Keeps
    <3>3. \A x \in history[tip[v]] : history'[x] = history[x]
      BY <1>1, <3>1 DEF Keeps, HistoryOK, TypeOK
    <3> QED
      BY <1>2, <2>1, <3>2, <3>3 DEF TipIsTight, TipOK, Tight, AdvanceAttested
  <2>2. CASE pc[v] \notin {"catalog", "attest", "advance"}
    BY <1>2, <2>2 DEF TipOK
  <2> QED
    BY <2>1, <2>2
<1>3. CASE UNCHANGED <<pc, base, tip, advances>>
  BY <1>2, <1>3 DEF TipIsTight
<1>4. ASSUME NEW p \in Process, Crash(p)
      PROVE  TipIsTight'
  <2>1. UNCHANGED advances
    BY <1>4 DEF Crash, store, events
  <2>2. \A v \in Worker : pc'[v] = "idle"
                           \/ (pc'[v] = pc[v] /\ base'[v] = base[v] /\ tip'[v] = tip[v])
    BY <1>4 DEF Crash
  <2>3. \A v \in Worker : pc'[v] = "idle" => TipOK(v)'
    BY DEF TipOK
  <2> QED
    BY <1>2, <2>1, <2>2, <2>3 DEF TipIsTight
<1>5. ASSUME NEW w \in Worker, Claim(w) \/ Enter(w) \/ Merge(w) \/ Agent(w)
      PROVE  TipIsTight'
  <2>1. pc'[w] \notin Publishing /\ UNCHANGED advances
    BY <1>5, MergeIsBefore
  <2>2. TipOK(w)'
    BY <2>1 DEF TipOK, Publishing
  <2> QED
    BY <1>2, <1>5, <2>1, <2>2, StepIsLocal DEF TipIsTight, OthersStay
<1>6. ASSUME NEW w \in Worker, Sanity(w)
      PROVE  TipIsTight'
  <2>1. \A t \in Task : advances[t] \subseteq advances'[t]
    <3>1. CASE Attest(w) /\ ~ Leaves(w)
      <4>1. advances' = [advances EXCEPT ![TaskOf(w)] =
                           @ \cup {[from |-> base[w], commit |-> tip[w]]}]
        BY <3>1 DEF Attest
      <4> QED
        BY <4>1 DEF TypeOK
    <3>2. CASE ~ Attest(w) \/ Leaves(w)
      BY <1>6, <3>2 DEF Sanity, SanityStarts, Catalog, Advance, Advanced, Cleanup, Finish,
         Blocks, Settles, Leaves, Stays, store, events
    <3> QED
      BY <3>1, <3>2
  <2>2. TipOK(w)'
    BY <1>6, SanityTip DEF TipIsTight
  <2> QED
    BY <1>2, <1>6, <2>1, <2>2, StepIsLocal, WorkerParts DEF TipIsTight, OthersStay
<1>7. SourceMoves \/ (\E p \in Process : Acquire(p) \/ Refresh(p) \/ Cancel(p)) \/ Still
      => UNCHANGED <<pc, base, tip, advances>>
  BY DEF SourceMoves, Acquire, Refresh, Cancel, Still, store, events, locals
<1> QED
  BY <1>3, <1>4, <1>5, <1>6, <1>7, NextCases

\* Only a new process and a worker that advances move the project branch.
LEMMA ProjectMovers ==
    ASSUME [Next]_vars, project' # project
    PROVE  (\E p \in Process : Acquire(p) \/ Refresh(p)) \/ (\E w \in Worker : Advance(w))
<1>1. ASSUME NEW w \in Worker, Merge(w)
      PROVE  UNCHANGED project
  BY <1>1 DEF Merge, MergeResumes, MergeHasBase, MergeReads, MergeStarts, MergeRefuses,
     MergeIsFenced, GitMerge, GitMergeFails, MergeVerifies, MergeUnverified, Blocks,
     Settles, Leaves, git
<1>2. ASSUME NEW w \in Worker, Agent(w)
      PROVE  UNCHANGED project
  BY <1>2 DEF Agent, AgentResumes, AgentStarts, AgentWorks, AgentEnds, AgentRecorded,
     AgentStops, AgentIsFenced, MergeConcludes, Blocks, Settles, Leaves, Stays, git
<1>3. ASSUME NEW w \in Worker, Sanity(w), ~ Advance(w)
      PROVE  UNCHANGED project
  BY <1>3 DEF Sanity, SanityStarts, Catalog, Attest, Advanced, Cleanup, Finish, Blocks,
     Settles, Leaves, Stays, git
<1>4. SourceMoves \/ (\E p \in Process : Crash(p) \/ Cancel(p)) \/ Still
      \/ (\E w \in Worker : Claim(w) \/ Enter(w)) => UNCHANGED project
  BY DEF SourceMoves, Crash, Cancel, Claim, Enter, Stays, Still, git
<1> QED
  BY <1>1, <1>2, <1>3, <1>4, NextCases

\* Who moves the project branch, and to what.
LEMMA AdvanceIsAttested ==
    ASSUME IInv, BaseInv, [Next]_vars, project' # project
    PROVE  /\ IsAncestor(project, project')
           /\ \/ project' = source
              \/ \E t \in Task :
                   /\ [from |-> project, commit |-> project'] \in advances[t]
                   /\ IsAncestor(ApprovedCommit[t], project')
<1>1. UNCHANGED history /\ IsAncestor(project, project')
  BY NextProject DEF IInv, IsAncestor
<1>2. CASE \E p \in Process : Acquire(p) \/ Refresh(p)
  BY <1>1, <1>2 DEF Acquire, Refresh
<1>3. ASSUME NEW w \in Worker, Advance(w)
      PROVE  /\ [from |-> project, commit |-> project'] \in advances[TaskOf(w)]
             /\ IsAncestor(ApprovedCommit[TaskOf(w)], project')
  <2>1. /\ pc[w] = "advance" /\ project' = tip[w]
        /\ project # tip[w] /\ project \in history[tip[w]]
    BY <1>3 DEF Advance, IsAncestor, Blocks, Settles, git
  <2>2. base[w] \in history[project] /\ Tight(base[w], tip[w]) /\ AdvanceAttested(w)
    BY <2>1 DEF BaseInv, PastBases, TipIsTight, TipOK, AfterRead, Locked
  <2>3. project = base[w]
    BY <2>1, <2>2 DEF Tight
  <2>4. ApprovedCommit[TaskOf(w)] \in history[tip[w]]
    BY <2>1 DEF IInv, Contained
  <2> QED
    BY <2>1, <2>2, <2>3, <2>4 DEF AdvanceAttested, IsAncestor
<1> QED
  BY <1>1, <1>2, <1>3, ProjectMovers, WorkerParts

(***************************************************************************)
(* One process at a time.                                                  *)
(***************************************************************************)
Active == {"running", "cancelled"}
WorkerStep(w) == Claim(w) \/ Enter(w) \/ Merge(w) \/ Agent(w) \/ Sanity(w)

\* One process is active, its workers hold their tasks, and one is in the lock.
Alone ==
    /\ \A p, q \in Process : process[p] \in Active /\ process[q] \in Active => p = q
    /\ \A w \in Worker : pc[w] # "idle" =>
         /\ process[ProcessOf(w)] \in Active
         /\ Holds(w)
         /\ status[TaskOf(w)] = "merging"
    /\ \A v, w \in Worker : pc[v] \in Locked /\ pc[w] \in Locked => v = w

\* No two workers are on one task.
LEMMA OneWorkerPerTask ==
    ASSUME Alone, NEW v \in Worker, NEW w \in Worker, pc[v] # "idle", pc[w] # "idle",
           TaskOf(v) = TaskOf(w)
    PROVE  v = w
BY WorkerParts DEF Alone, Holds

\* The step of a worker writes the status and the holder of its own task, when it
\* begins or ends, and enters the lock in one place.
LEMMA WorkerWrites ==
    ASSUME TypeOK, NEW w \in Worker, WorkerStep(w)
    PROVE  /\ \A t \in Task \ {TaskOf(w)} : holder'[t] = holder[t] /\ status'[t] = status[t]
           /\ pc'[w] = "idle" \/ Claim(w) \/ UNCHANGED <<holder, status>>
           /\ pc'[w] \in Locked => pc[w] \in Locked \/ Enter(w)
           /\ pc[w] = "idle" => Claim(w)
           /\ \A p \in Process : /\ process'[p] \in Active <=> process[p] \in Active
                                 /\ process'[p] = "new" <=> process[p] = "new"
<1> USE DEF TypeOK, Goto, Over, Locked
<1>1. CASE Claim(w)
  BY <1>1, WorkerParts DEF Claim
<1>2. CASE Enter(w)
  BY <1>2 DEF Enter, Stays, store
<1>3. ASSUME NEW result, Settles(w, result)
      PROVE  /\ pc'[w] = "idle" /\ UNCHANGED process
             /\ \A t \in Task \ {TaskOf(w)} : holder'[t] = holder[t] /\ status'[t] = status[t]
  BY <1>3, WorkerParts DEF Settles
<1>5. CASE Merge(w)
  <2>1. pc[w] \in Locked
    BY <1>5 DEF Merge, MergeResumes, MergeHasBase, MergeReads, MergeStarts, MergeRefuses,
       MergeIsFenced, GitMerge, GitMergeFails, MergeVerifies, MergeUnverified
  <2>2. UNCHANGED <<holder, status, process>> \/ Settles(w, "blocked")
    BY <1>5 DEF Merge, MergeResumes, MergeHasBase, MergeReads, MergeStarts, MergeRefuses,
       MergeIsFenced, GitMerge, GitMergeFails, MergeVerifies, MergeUnverified, Blocks, Leaves,
       store
  <2> QED
    BY <1>3, <2>1, <2>2
<1>6. CASE Agent(w)
  <2>1. pc[w] \in Locked
    BY <1>6 DEF Agent, AgentResumes, AgentStarts, AgentWorks, AgentEnds, AgentRecorded,
       AgentStops, AgentIsFenced, MergeConcludes
  <2>2. CASE AgentStops(w)
    <3>1. /\ process' = [process EXCEPT ![ProcessOf(w)] = IF @ = "running" THEN "cancelled"
                                                          ELSE @]
          /\ UNCHANGED <<holder, status>>
      BY <2>2 DEF AgentStops, store
    <3>2. \A p \in Process : /\ process'[p] \in Active <=> process[p] \in Active
                             /\ process'[p] = "new" <=> process[p] = "new"
      BY <3>1 DEF Active
    <3> QED
      BY <2>1, <3>1, <3>2
  <2>3. CASE ~ AgentStops(w)
    <3>1. UNCHANGED <<holder, status, process>> \/ \E result : Settles(w, result)
      BY <1>6, <2>3 DEF Agent, AgentResumes, AgentStarts, AgentWorks, AgentEnds, AgentRecorded,
         AgentIsFenced, MergeConcludes, Blocks, Leaves, Stays, store
    <3> QED
      BY <1>3, <2>1, <3>1
  <2> QED
    BY <2>2, <2>3
<1>7. CASE Sanity(w)
  <2>1. pc[w] \in Locked
    BY <1>7 DEF Sanity, SanityStarts, Catalog, Attest, Advance, Advanced, Cleanup, Finish
  <2>2. UNCHANGED <<holder, status, process>> \/ \E result : Settles(w, result)
    BY <1>7 DEF Sanity, SanityStarts, Catalog, Attest, Advance, Advanced, Cleanup, Finish,
       Blocks, Leaves, Stays, store
  <2> QED
    BY <1>3, <2>1, <2>2
<1> QED
  BY <1>1, <1>2, <1>5, <1>6, <1>7 DEF WorkerStep

\* What can happen to a worker: it makes a step, its process dies, or nothing.
LEMMA WorkerStepsOrStays ==
    ASSUME TypeOK, [Next]_vars, NEW w \in Worker
    PROVE  \/ WorkerStep(w)
           \/ pc'[w] = "idle"
           \/ pc'[w] = pc[w] /\ base'[w] = base[w] /\ tip'[w] = tip[w]
<1>1. ASSUME NEW v \in Worker, WorkerStep(v), v # w
      PROVE  pc'[w] = pc[w] /\ base'[w] = base[w] /\ tip'[w] = tip[w]
  BY <1>1, StepIsLocal DEF OthersStay, WorkerStep
<1>2. ASSUME NEW p \in Process, Crash(p)
      PROVE  pc'[w] = "idle" \/ (pc'[w] = pc[w] /\ base'[w] = base[w] /\ tip'[w] = tip[w])
  BY <1>2 DEF Crash
<1>3. SourceMoves \/ (\E p \in Process : Acquire(p) \/ Refresh(p) \/ Cancel(p)) \/ Still
      => UNCHANGED <<pc, base, tip>>
  BY DEF SourceMoves, Acquire, Refresh, Cancel, Still, locals
<1> QED
  BY <1>1, <1>2, <1>3, NextCases DEF WorkerStep

LEMMA NextAlone ==
    ASSUME TypeOK, TypeOK', "lapse" \notin Disturbances, Alone, [Next]_vars
    PROVE  Alone'
<1>1. ASSUME NEW p \in Process, Acquire(p)
      PROVE  Alone'
  <2>1. UNCHANGED pc /\ \A w \in Worker : pc[w] = "idle"
    BY <1>1 DEF Acquire
  <2>2. \A q \in Process : process'[q] \in Active => q = p
    BY <1>1 DEF Acquire, Active
  <2> QED
    BY <2>1, <2>2 DEF Alone, Locked
<1>2. ASSUME NEW p \in Process, Crash(p)
      PROVE  Alone'
  <2>1. UNCHANGED <<holder, status>>
    BY <1>2 DEF Crash, store
  <2>2. \A q \in Process : process'[q] \in Active => process[q] \in Active /\ q # p
    BY <1>2 DEF Crash, Active, TypeOK
  <2>3. \A q \in Process \ {p} : process'[q] = process[q]
    BY <1>2 DEF Crash, TypeOK
  <2>4. \A w \in Worker : pc'[w] # "idle" => ProcessOf(w) # p /\ pc'[w] = pc[w]
    BY <1>2 DEF Crash
  <2> QED
    BY <2>1, <2>2, <2>3, <2>4, WorkerParts DEF Alone, Holds, Locked
<1>3. ASSUME NEW p \in Process, Cancel(p)
      PROVE  Alone'
  <2>1. UNCHANGED <<holder, status, pc>>
    BY <1>3 DEF Cancel, store
  <2>2. \A q \in Process : process'[q] \in Active <=> process[q] \in Active
    BY <1>3 DEF Cancel, Active, TypeOK
  <2> QED
    BY <2>1, <2>2, WorkerParts DEF Alone, Holds
<1>4. ASSUME NEW w \in Worker, WorkerStep(w)
      PROVE  Alone'
  <2>1. \A p \in Process : process'[p] \in Active <=> process[p] \in Active
    BY <1>4, WorkerWrites
  <2>2. \A v \in Worker \ {w} : pc'[v] = pc[v]
    BY <1>4, StepIsLocal DEF WorkerStep, OthersStay
  <2>3. pc[w] = "idle" => Claim(w)
    BY <1>4, WorkerWrites
  <2>4. ASSUME NEW v \in Worker \ {w}, pc'[v] # "idle"
        PROVE  /\ process'[ProcessOf(v)] \in Active
               /\ Holds(v)' /\ status'[TaskOf(v)] = "merging"
    <3>1. pc[v] # "idle" /\ TaskOf(v) \in Task /\ ProcessOf(v) \in Process
      BY <2>2, <2>4, WorkerParts
    <3>2. TaskOf(v) # TaskOf(w)
      <4>1. CASE Claim(w)
        BY <3>1, <4>1, PublicationAssumption DEF Claim, Alone, Holds
      <4>2. CASE ~ Claim(w)
        BY <2>3, <3>1, <4>2, OneWorkerPerTask
      <4> QED
        BY <4>1, <4>2
    <3>3. holder'[TaskOf(v)] = holder[TaskOf(v)] /\ status'[TaskOf(v)] = status[TaskOf(v)]
      BY <1>4, <3>1, <3>2, WorkerWrites
    <3> QED
      BY <2>1, <3>1, <3>3 DEF Alone, Holds
  <2>5. ASSUME pc'[w] # "idle"
        PROVE  /\ process'[ProcessOf(w)] \in Active
               /\ Holds(w)' /\ status'[TaskOf(w)] = "merging"
    <3>1. TaskOf(w) \in Task /\ ProcessOf(w) \in Process
      BY WorkerParts
    <3>2. CASE Claim(w)
      BY <3>1, <3>2 DEF Claim, Holds, Active, TypeOK
    <3>3. CASE ~ Claim(w)
      <4>1. UNCHANGED <<holder, status>>
        BY <1>4, <2>5, <3>3, WorkerWrites
      <4> QED
        BY <2>1, <2>3, <3>1, <3>3, <4>1 DEF Alone, Holds
    <3> QED
      BY <3>2, <3>3
  <2>6. ASSUME NEW v \in Worker \ {w}, pc'[v] \in Locked, pc'[w] \in Locked
        PROVE  FALSE
    <3>1. pc[v] \in Locked
      BY <2>2, <2>6
    <3>2. CASE pc[w] \in Locked
      BY <3>1, <3>2 DEF Alone
    <3>3. CASE Enter(w)
      <4>1. ProcessOf(v) # ProcessOf(w)
        BY <3>1, <3>3 DEF Enter, WorkersOf
      <4> QED
        BY <3>1, <3>3, <4>1, WorkerParts DEF Enter, Alone, Locked
    <3> QED
      BY <1>4, <2>6, <3>2, <3>3, WorkerWrites
  <2> QED
    BY <2>1, <2>2, <2>4, <2>5, <2>6 DEF Alone
<1>5. CASE SourceMoves \/ (\E p \in Process : Refresh(p)) \/ Still
  BY <1>5 DEF SourceMoves, Refresh, Still, store, Alone, Holds
<1> QED
  BY <1>1, <1>2, <1>3, <1>4, <1>5, NextCases DEF WorkerStep

(***************************************************************************)
(* An owner and who it took over from.                                     *)
(***************************************************************************)
TwoProcesses == \A p, q, r \in Process : p = q \/ q = r \/ p = r

\* Of the workers at work those of the active process hold their tasks, and while some
\* are of another process, no process is yet to come.
Claims ==
    /\ \A p, q \in Process : process[p] \in Active /\ process[q] \in Active => p = q
    /\ \A w \in Worker : pc[w] # "idle" =>
         /\ process[ProcessOf(w)] # "new"
         /\ Holds(w) <=> process[ProcessOf(w)] \in Active
    /\ \A v, w \in Worker :
         pc[v] # "idle" /\ pc[w] # "idle" /\ ProcessOf(v) # ProcessOf(w) =>
           /\ process[ProcessOf(v)] \in Active \/ process[ProcessOf(w)] \in Active
           /\ \A q \in Process : process[q] # "new"

\* It is so where no process outlives its lease.
LEMMA AloneClaims == Alone => Claims
BY WorkerParts DEF Alone, Claims, Active

\* A step of one worker takes no task from another.
LEMMA OthersHold ==
    ASSUME TypeOK, NEW w \in Worker, WorkerStep(w), NEW v \in Worker \ {w}
    PROVE  Holds(v)' <=> Holds(v)
<1>1. Holds(v)' => Holds(v)
  BY WorkerOwnership DEF WorkerStep
<1>2. ASSUME Holds(v)
      PROVE  Holds(v)'
  <2>0. TaskOf(v) \in Task /\ TaskOf(w) \in Task /\ ProcessOf(v) # NoProcess
    BY WorkerParts, PublicationAssumption
  <2>1. CASE TaskOf(v) # TaskOf(w)
    BY <1>2, <2>0, <2>1, WorkerWrites DEF Holds
  <2>2. CASE TaskOf(v) = TaskOf(w)
    <3>1. ~ Claim(w) /\ ~ Holds(w)
      BY <1>2, <2>0, <2>2, WorkerParts DEF Claim, Holds
    <3>2. UNCHANGED holder
      <4>1. CASE Merge(w)
        BY <3>1, <4>1 DEF Merge, MergeResumes, MergeHasBase, MergeReads, MergeStarts, MergeRefuses,
           MergeIsFenced, GitMerge, GitMergeFails, MergeVerifies, MergeUnverified, Blocks,
           Settles, Leaves, store
      <4>2. CASE Agent(w)
        BY <3>1, <4>2 DEF Agent, AgentResumes, AgentStarts, AgentWorks, AgentEnds, AgentRecorded,
           AgentStops, AgentIsFenced, MergeConcludes, Blocks, Settles, Leaves, Stays, store
      <4>3. CASE Enter(w) \/ Sanity(w)
        BY <3>1, <4>3 DEF Enter, Sanity, SanityStarts, Catalog, Attest, Advance, Advanced,
           Cleanup, Finish, Blocks, Settles, Leaves, Stays, store
      <4> QED
        BY <3>1, <4>1, <4>2, <4>3 DEF WorkerStep
    <3> QED
      BY <1>2, <3>2 DEF Holds
  <2> QED
    BY <2>1, <2>2
<1> QED
  BY <1>1, <1>2

\* And where there are two processes, however they overlap.
LEMMA NextClaims ==
    ASSUME TypeOK, TypeOK', TwoProcesses, Claims, [Next]_vars
    PROVE  Claims'
<1>1. ASSUME NEW p \in Process, Acquire(p)
      PROVE  Claims'
  <2>1. /\ UNCHANGED pc /\ holder' = [t \in Task |-> NoProcess]
        /\ process' = [q \in Process |-> IF q = p THEN "running"
                                        ELSE IF process[q] = "new" THEN "new" ELSE "lost"]
        /\ process[p] = "new"
    BY <1>1 DEF Acquire
  <2>2. \A q \in Process : process'[q] \in Active => q = p
    BY <2>1 DEF Active
  <2>3. \A w \in Worker : pc'[w] # "idle" =>
          /\ ProcessOf(w) \in Process \ {p}
          /\ process'[ProcessOf(w)] = "lost"
          /\ ~ Holds(w)'
    BY <2>1, WorkerParts, PublicationAssumption DEF Claims, Holds
  <2>4. \A v, w \in Worker : pc'[v] # "idle" /\ pc'[w] # "idle" => ProcessOf(v) = ProcessOf(w)
    BY <2>3 DEF TwoProcesses
  <2> QED
    BY <2>2, <2>3, <2>4 DEF Claims, Active
<1>2. ASSUME NEW p \in Process, Crash(p)
      PROVE  Claims'
  <2>1. UNCHANGED holder /\ process' = [process EXCEPT ![p] = "lost"]
        /\ process[p] \in Active
    BY <1>2 DEF Crash, store, Active
  <2>2. \A q \in Process \ {p} : process'[q] = process[q]
    BY <2>1 DEF TypeOK
  <2>3. \A q \in Process : process'[q] \in Active => process[q] \in Active /\ q # p
    BY <2>1 DEF Active, TypeOK
  <2>4. \A q \in Process : process'[q] = "new" => process[q] = "new"
    BY <2>1 DEF TypeOK
  <2>5. \A w \in Worker : pc'[w] # "idle" => ProcessOf(w) # p /\ pc'[w] = pc[w]
    BY <1>2 DEF Crash
  <2> QED
    BY <2>1, <2>2, <2>3, <2>4, <2>5, WorkerParts DEF Claims, Holds
<1>3. ASSUME NEW p \in Process, Cancel(p)
      PROVE  Claims'
  <2>1. UNCHANGED <<holder, pc>>
    BY <1>3 DEF Cancel, store
  <2>2. \A q \in Process : /\ process'[q] \in Active <=> process[q] \in Active
                           /\ process'[q] = "new" <=> process[q] = "new"
    BY <1>3 DEF Cancel, Active, TypeOK
  <2> QED
    BY <2>1, <2>2, WorkerParts DEF Claims, Holds
<1>4. ASSUME NEW w \in Worker, WorkerStep(w)
      PROVE  Claims'
  <2>1. \A p \in Process : /\ process'[p] \in Active <=> process[p] \in Active
                           /\ process'[p] = "new" <=> process[p] = "new"
    BY <1>4, WorkerWrites
  <2>2. \A v \in Worker \ {w} : pc'[v] = pc[v] /\ (Holds(v)' <=> Holds(v))
    BY <1>4, StepIsLocal, OthersHold DEF WorkerStep, OthersStay
  <2>3. ASSUME pc'[w] # "idle"
        PROVE  /\ process[ProcessOf(w)] # "new"
               /\ Holds(w)' <=> process[ProcessOf(w)] \in Active
    <3>1. CASE Claim(w)
      BY <3>1, WorkerParts DEF Claim, Holds, Active, TypeOK
    <3>2. CASE ~ Claim(w)
      <4>1. UNCHANGED holder /\ pc[w] # "idle"
        BY <1>4, <2>3, <3>2, WorkerWrites
      <4> QED
        BY <4>1 DEF Claims, Holds
    <3> QED
      BY <3>1, <3>2
  <2>4. ASSUME NEW v \in Worker, pc'[v] # "idle", pc'[w] # "idle", ProcessOf(v) # ProcessOf(w)
        PROVE  /\ process[ProcessOf(v)] \in Active \/ process[ProcessOf(w)] \in Active
               /\ \A q \in Process : process[q] # "new"
    <3>1. pc[v] # "idle" /\ process[ProcessOf(v)] # "new" /\ process[ProcessOf(w)] # "new"
      BY <2>2, <2>3, <2>4 DEF Claims
    <3>2. CASE pc[w] # "idle"
      BY <2>4, <3>1, <3>2 DEF Claims
    <3>3. CASE Claim(w)
      BY <2>4, <3>1, <3>3, WorkerParts DEF Claim, Active, TwoProcesses
    <3> QED
      BY <1>4, <3>2, <3>3, WorkerWrites
  <2> QED
    BY <2>1, <2>2, <2>3, <2>4, WorkerParts DEF Claims
<1>5. CASE SourceMoves \/ (\E p \in Process : Refresh(p)) \/ Still
  BY <1>5 DEF SourceMoves, Refresh, Still, store, Claims, Holds
<1> QED
  BY <1>1, <1>2, <1>3, <1>4, <1>5, NextCases DEF WorkerStep

\* A worker that nobody at work was before: it lost its task, or nobody took over yet.
First(w) == ~ Holds(w) \/ \E q \in Process : process[q] = "new"
Others(w) == {v \in Worker \ {w} : TaskOf(v) = TaskOf(w) /\ pc[v] # "idle"}

\* Of two workers on a task, the first lost it to the other, and there is no third.
LEMMA FirstAndLast ==
    ASSUME Claims, NEW w \in Worker, pc[w] # "idle", NEW v \in Others(w)
    PROVE  /\ First(w) => Holds(v) /\ ~ Holds(w) /\ ~ First(v)
           /\ ~ First(w) => Holds(w) /\ ~ Holds(v) /\ First(v)
           /\ Others(w) = {v}
<1>1. v \in Worker /\ pc[v] # "idle" /\ TaskOf(v) = TaskOf(w) /\ v # w
  BY DEF Others
<1>2. ProcessOf(v) # ProcessOf(w) /\ ProcessOf(v) \in Process /\ ProcessOf(w) \in Process
  BY <1>1, WorkerParts
<1>3. /\ process[ProcessOf(v)] \in Active \/ process[ProcessOf(w)] \in Active
      /\ \A q \in Process : process[q] # "new"
  BY <1>1, <1>2 DEF Claims
<1>4. ~ (Holds(v) /\ Holds(w)) /\ (Holds(v) \/ Holds(w))
  BY <1>1, <1>2, <1>3 DEF Claims, Holds
<1>5. ASSUME NEW u \in Others(w), u # v
      PROVE  FALSE
  <2>1. u \in Worker /\ pc[u] # "idle" /\ TaskOf(u) = TaskOf(w) /\ u # w
    BY DEF Others
  <2>2. ProcessOf(u) # ProcessOf(w) /\ ProcessOf(u) # ProcessOf(v) /\ ProcessOf(u) \in Process
    BY <1>1, <1>5, <2>1, WorkerParts
  <2> QED
    BY <1>1, <1>2, <2>1, <2>2 DEF Claims
<1> QED
  BY <1>3, <1>4, <1>5 DEF First

\* Who was first stays so.
LEMMA FirstStays ==
    ASSUME TypeOK, TypeOK', Claims, [Next]_vars, NEW w \in Worker, pc[w] # "idle",
           pc'[w] # "idle"
    PROVE  First(w)' <=> First(w)
<1>0. ProcessOf(w) \in Process /\ TaskOf(w) \in Task /\ NoProcess \notin Process
  BY WorkerParts, PublicationAssumption
<1>1. ASSUME NEW p \in Process, Acquire(p)
      PROVE  First(w)' <=> First(w)
  BY <1>0, <1>1 DEF Acquire, First, Holds
<1>2. ASSUME NEW p \in Process, Crash(p) \/ Cancel(p)
      PROVE  First(w)' <=> First(w)
  <2>1. UNCHANGED holder
    BY <1>2 DEF Crash, Cancel, store
  <2>2. /\ process[p] # "new" /\ process'[p] # "new"
        /\ \A q \in Process \ {p} : process'[q] = process[q]
    BY <1>2 DEF Crash, Cancel, TypeOK
  <2> QED
    BY <2>1, <2>2 DEF First, Holds
<1>3. ASSUME NEW v \in Worker, WorkerStep(v)
      PROVE  First(w)' <=> First(w)
  <2>1. \A q \in Process : process'[q] = "new" <=> process[q] = "new"
    BY <1>3, WorkerWrites
  <2>2. Holds(w)' <=> Holds(w)
    <3>1. CASE v # w
      BY <1>3, <3>1, OthersHold
    <3>2. CASE v = w
      <4>1. UNCHANGED holder
        BY <1>3, <3>2, WorkerWrites DEF Claim
      <4> QED
        BY <4>1 DEF Holds
    <3> QED
      BY <3>1, <3>2
  <2> QED
    BY <2>1, <2>2 DEF First
<1>4. CASE SourceMoves \/ (\E p \in Process : Refresh(p)) \/ Still
  BY <1>4 DEF SourceMoves, Refresh, Still, store, First, Holds
<1> QED
  BY <1>1, <1>2, <1>3, <1>4, NextCases DEF WorkerStep

(***************************************************************************)
(* Who answers for a commit.                                               *)
(***************************************************************************)
AllTrusted(c) == \A d \in history[c] : Trusted(d)
BelowTrusted(c) == \A d \in history[c] \ {c} : Trusted(d)

\* A worker about to merge merges into a trusted HEAD, or has its base in it already.
\* While it was first, whatever others merge contains its base, and else its HEAD is
\* still the one its tip was built from; while it was not, nobody else's agent has a
\* merge to resolve.
MergeOK(w) ==
    LET t == TaskOf(w)
    IN  /\ Trusted(head[t]) \/ base[w] \in history[head[t]]
        /\ First(w) =>
             /\ \A v \in Others(w) : pc[v] \in AfterRead => base[w] \in history[base[v]]
             /\ mergeHead[t] # NoCommit => base[w] \in history[mergeHead[t]]
             /\ \/ base[w] \in history[head[t]]
                \/ tip[w] = NoCommit
                \/ IsMerge(tip[w], head[t], base[w]) /\ Trusted(tip[w])
        /\ ~ First(w) => \A v \in Others(w) : pc[v] = "agentRuns" => mergeHead[t] = NoCommit

\* What may be published: the project branch, the tips workers have verified, and
\* below the tip of a worktree, which is trusted itself while it is being merged.
TrustInv ==
    /\ AllTrusted(project)
    /\ \A t \in Task :
         /\ BelowTrusted(head[t])
         /\ mergeHead[t] # NoCommit => Trusted(head[t])
    /\ \A w \in Worker :
         /\ pc[w] = "gitMerge" => MergeOK(w)
         /\ pc[w] \in HasTip => tip[w] \in history[tip[w]] /\ AllTrusted(tip[w])

\* Events are only added, so who is trusted stays so.
Records ==
    /\ \A t \in Task :
         /\ started[t] \subseteq started'[t] /\ merged[t] \subseteq merged'[t]
         /\ \A i \in 1..Len(attempts[t]) :
              i \in 1..Len(attempts'[t]) /\ attempts'[t][i] = attempts[t][i]

LEMMA NextRecords ==
    ASSUME TypeOK, TypeOK', [Next]_vars
    PROVE  Records
<1> USE DEF TypeOK
<1>1. CASE UNCHANGED <<started, merged, attempts>>
  BY <1>1 DEF Records
<1>2. ASSUME NEW w \in Worker, MergeHasBase(w) \/ MergeVerifies(w)
      PROVE  Records
  <2>1. /\ UNCHANGED <<started, attempts>>
        /\ merged' = merged \/ \E x : merged' = [merged EXCEPT ![TaskOf(w)] = @ \cup {x}]
    BY <1>2 DEF MergeHasBase, MergeVerifies
  <2>2. ASSUME NEW x, merged' = [merged EXCEPT ![TaskOf(w)] = @ \cup {x}], NEW t \in Task
        PROVE  merged[t] \subseteq merged'[t]
    <3>1. merged'[t] = IF t = TaskOf(w) THEN merged[t] \cup {x} ELSE merged[t]
      BY <2>2
    <3> QED
      BY <3>1
  <2> QED
    BY <2>1, <2>2 DEF Records
<1>3. ASSUME NEW w \in Worker, MergeStarts(w)
      PROVE  Records
  <2>1. UNCHANGED <<merged, attempts>> /\ \A t \in Task : started[t] \subseteq started'[t]
    BY <1>3 DEF MergeStarts
  <2> QED
    BY <2>1 DEF Records
<1>4. ASSUME NEW w \in Worker, AgentRecorded(w)
      PROVE  Records
  <2>1. UNCHANGED <<started, merged>>
    BY <1>4 DEF AgentRecorded
  <2>2. PICK x : attempts' = [attempts EXCEPT ![TaskOf(w)] = Append(@, x)]
    BY <1>4 DEF AgentRecorded
  <2>3. \A t \in Task : attempts'[t] = attempts[t] \/ attempts'[t] = Append(attempts[t], x)
    BY <2>2
  <2>4. ASSUME NEW t \in Task, NEW i \in 1..Len(attempts[t])
        PROVE  i \in 1..Len(attempts'[t]) /\ attempts'[t][i] = attempts[t][i]
    <3>1. PICK S : attempts[t] \in Seq(S) /\ attempts'[t] \in Seq(S)
      OBVIOUS
    <3>2. attempts'[t] = Append(attempts[t], x) =>
            Len(attempts'[t]) = Len(attempts[t]) + 1 /\ attempts'[t][i] = attempts[t][i]
      BY <3>1
    <3> QED
      BY <2>3, <3>1, <3>2
  <2> QED
    BY <2>1, <2>4 DEF Records
<1>5. ASSUME NEW w \in Worker, Merge(w), ~ MergeHasBase(w), ~ MergeVerifies(w), ~ MergeStarts(w)
      PROVE  UNCHANGED <<started, merged, attempts>>
  BY <1>5 DEF Merge, MergeResumes, MergeReads, MergeRefuses, MergeIsFenced, GitMerge,
     GitMergeFails, MergeUnverified, Blocks, Settles, Leaves, store, events
<1>6. ASSUME NEW w \in Worker, Agent(w), ~ AgentRecorded(w)
      PROVE  UNCHANGED <<started, merged, attempts>>
  BY <1>6 DEF Agent, AgentResumes, AgentStarts, AgentWorks, AgentEnds, AgentStops,
     AgentIsFenced, MergeConcludes, Blocks, Settles, Leaves, Stays, store, events
<1>7. ASSUME NEW w \in Worker, Sanity(w)
      PROVE  UNCHANGED <<started, merged, attempts>>
  BY <1>7 DEF Sanity, SanityStarts, Catalog, Attest, Advance, Advanced, Cleanup, Finish,
     Blocks, Settles, Leaves, Stays, store, events
<1>8. SourceMoves \/ (\E p \in Process : Acquire(p) \/ Refresh(p) \/ Crash(p) \/ Cancel(p))
        \/ (\E w \in Worker : Claim(w) \/ Enter(w)) \/ Still
      => UNCHANGED <<started, merged, attempts>>
  BY DEF SourceMoves, Acquire, Refresh, Crash, Cancel, Claim, Enter, Stays, Still, store, events
<1> QED
  BY <1>1, <1>2, <1>3, <1>4, <1>5, <1>6, <1>7, <1>8, NextCases

\* The source branch keeps what it has.
LEMMA SourceGrows ==
    ASSUME TypeOK, TypeOK', LocalsOK, HistoryOK, References, [Next]_vars
    PROVE  history[source] \subseteq history'[source']
<1>1. CASE SourceMoves
  <2>1. PICK c \in Commit, a \in Commit : source' = c /\ history' = WithMerge(c, source, a)
    BY <1>1 DEF SourceMoves, TypeOK
  <2> QED
    BY <2>1 DEF WithMerge, TypeOK
<1>2. CASE ~ SourceMoves
  BY <1>2, SourceStays, NextKeeps DEF Keeps, TypeOK
<1> QED
  BY <1>1, <1>2

LEMMA TrustedStays ==
    ASSUME TypeOK, TypeOK', LocalsOK, HistoryOK, References, [Next]_vars, NEW c, Trusted(c)
    PROVE  Trusted(c)'
BY NextRecords, SourceGrows DEF Records, Trusted, IsAncestor

\* So are the histories of commits that exist.
LEMMA HistoryStaysTrusted ==
    ASSUME TypeOK, TypeOK', LocalsOK, HistoryOK, References, [Next]_vars,
           NEW c \in Commit, c \in history[c]
    PROVE  /\ history'[c] = history[c]
           /\ AllTrusted(c) => AllTrusted(c)'
           /\ BelowTrusted(c) => BelowTrusted(c)'
<1>1. history'[c] = history[c]
  BY NextKeeps DEF Keeps
<1> QED
  BY <1>1, TrustedStays DEF AllTrusted, BelowTrusted

\* Attested tips are trusted.
LEMMA AttestedIsTrusted ==
    ASSUME TypeOK, NEW t \in Task, NEW c \in Commit, Attested(t, c, project)
    PROVE  Trusted(c)
BY DEF Attested, StartedOn, MergedOn, AgentsOn, Trusted, TypeOK

\* HEAD and MERGE_HEAD are written by git merge and by the agent.
LEMMA WorktreeWriters ==
    ASSUME TypeOK, [Next]_vars, NEW t \in Task,
           ~ (head'[t] = head[t] /\ mergeHead'[t] = mergeHead[t])
    PROVE  \E w \in Worker : TaskOf(w) = t /\ (GitMerge(w) \/ AgentWorks(w))
<1>1. ASSUME NEW w \in Worker, Merge(w) \/ Agent(w), ~ GitMerge(w), ~ AgentWorks(w)
      PROVE  UNCHANGED <<head, mergeHead>>
  BY <1>1 DEF Merge, MergeResumes, MergeHasBase, MergeReads, MergeStarts, MergeRefuses,
     MergeIsFenced, GitMergeFails, MergeVerifies, MergeUnverified, Agent, AgentResumes,
     AgentStarts, AgentEnds, AgentRecorded, AgentStops, AgentIsFenced, MergeConcludes,
     Blocks, Settles, Leaves, Stays, git
<1>2. ASSUME NEW w \in Worker, Claim(w) \/ Enter(w) \/ Sanity(w)
      PROVE  UNCHANGED <<head, mergeHead>>
  BY <1>2 DEF Claim, Enter, Sanity, SanityStarts, Catalog, Attest, Advance, Advanced, Cleanup,
     Finish, Blocks, Settles, Leaves, Stays, git
<1>3. SourceMoves \/ (\E p \in Process : Acquire(p) \/ Refresh(p) \/ Crash(p) \/ Cancel(p))
        \/ Still => UNCHANGED <<head, mergeHead>>
  BY DEF SourceMoves, Acquire, Refresh, Crash, Cancel, Still, git
<1>4. ASSUME NEW w \in Worker, GitMerge(w) \/ AgentWorks(w)
      PROVE  TaskOf(w) = t
  BY <1>4, WorkerParts DEF GitMerge, AgentWorks, TypeOK
<1> QED
  BY <1>1, <1>2, <1>3, <1>4, NextCases

\* The base of a worker about to merge.
LEMMA MergingBase ==
    ASSUME TypeOK, LocalsOK, HistoryOK, PastBases, NEW w \in Worker, pc[w] = "gitMerge"
    PROVE  base[w] \in Commit /\ base[w] \in history[base[w]]
<1>1. pc[w] \in AfterRead /\ project \in Commit
  BY DEF AfterRead, Locked, TypeOK
<1>2. base[w] \in Commit
  BY <1>1 DEF LocalsOK, LocalOK
<1>3. base[w] \in history[project]
  BY <1>1 DEF PastBases
<1> QED
  BY <1>1, <1>2, <1>3 DEF HistoryOK

\* What the two write: a merge is begun, made by Git, or resolved or aborted.
LEMMA WorktreeWrites ==
    ASSUME TypeOK, TypeOK', LocalsOK, HistoryOK, PastBases, NEW w \in Worker,
           NEW t \in Task, t = TaskOf(w), GitMerge(w) \/ AgentWorks(w),
           ~ (head'[t] = head[t] /\ mergeHead'[t] = mergeHead[t])
    PROVE  \/ /\ pc[w] = "gitMerge" /\ pc'[w] = "agent"
              /\ UNCHANGED <<history, head>>
              /\ base[w] \notin history[head[t]] /\ mergeHead'[t] = base[w]
           \/ /\ pc[w] = "gitMerge" /\ pc'[w] = "verify"
              /\ base[w] \notin history[head[t]] /\ mergeHead'[t] = NoCommit
              /\ tip[w] # NoCommit
              /\ IsMerge(tip[w], head[t], base[w]) => head'[t] = tip[w]
              /\ history[base[w]] \subseteq history'[head'[t]]
           \/ /\ pc[w] = "agentRuns"
              /\ mergeHead[t] # NoCommit /\ mergeHead'[t] = NoCommit
              /\ \/ UNCHANGED <<history, head>>
                 \/ history[mergeHead[t]] \subseteq history'[head'[t]]
<1>0. t \in Task /\ head[t] \in Commit
  BY DEF TypeOK
<1>1. CASE GitMerge(w)
  <2>0. pc[w] = "gitMerge" /\ base[w] \in Commit /\ base[w] \in history[base[w]]
    <3>1. pc[w] = "gitMerge"
      BY <1>1 DEF GitMerge
    <3> QED
      BY <3>1, MergingBase
  <2>1. CASE UNCHANGED head
    <3>1. /\ ~ IsAncestor(base[w], head[t]) /\ mergeHead' = [mergeHead EXCEPT ![t] = base[w]]
          /\ pc' = [pc EXCEPT ![w] = "agent"] /\ UNCHANGED <<history, head>>
      BY <1>1, <2>1 DEF GitMerge, Goto
    <3> QED
      BY <2>0, <3>1 DEF IsAncestor, TypeOK
  <2>2. CASE ~ UNCHANGED head
    <3>1. /\ mergeHead[t] = NoCommit /\ UNCHANGED mergeHead
          /\ ~ IsAncestor(base[w], head[t]) /\ tip[w] # NoCommit
          /\ pc' = [pc EXCEPT ![w] = "verify"]
      BY <1>1, <2>2 DEF GitMerge, Goto
    <3>2. PICK c \in Commit :
             /\ \/ /\ IsMerge(tip[w], head[t], base[w])
                   /\ c = tip[w]
                   /\ UNCHANGED history
                \/ /\ ~ IsMerge(tip[w], head[t], base[w])
                   /\ Fresh(c)
                   /\ history' = WithMerge(c, head[t], base[w])
             /\ head' = [head EXCEPT ![t] = c]
      BY <1>1, <2>2, <3>1 DEF GitMerge
    <3>3. head'[t] = c
      BY <3>2 DEF TypeOK
    <3>4. history[base[w]] \subseteq history'[c]
      BY <3>2 DEF IsMerge, WithMerge, TypeOK
    <3> QED
      BY <2>0, <3>1, <3>2, <3>3, <3>4 DEF IsAncestor, TypeOK
  <2> QED
    BY <2>1, <2>2
<1>2. CASE AgentWorks(w)
  <2>1. /\ pc[w] = "agentRuns" /\ mergeHead[t] # NoCommit
        /\ mergeHead' = [mergeHead EXCEPT ![t] = NoCommit]
        /\ \/ UNCHANGED <<history, head>>
           \/ \E c \in Commit : /\ history' = WithMerge(c, head[t], mergeHead[t])
                                /\ head' = [head EXCEPT ![t] = c]
    BY <1>2 DEF AgentWorks
  <2> QED
    BY <2>1 DEF WithMerge, TypeOK
<1> QED
  BY <1>1, <1>2

\* They merge only into what is trusted.
LEMMA MergedIsTrusted ==
    ASSUME TypeOK, TypeOK', LocalsOK, HistoryOK, PastBases, TrustInv, [Next]_vars,
           NEW t \in Task, head'[t] # head[t] \/ mergeHead'[t] \notin {mergeHead[t], NoCommit}
    PROVE  Trusted(head[t])
<1>1. PICK w \in Worker : TaskOf(w) = t /\ (GitMerge(w) \/ AgentWorks(w))
  BY WorktreeWriters
<1>2. CASE pc[w] = "gitMerge" /\ base[w] \notin history[head[t]]
  BY <1>1, <1>2 DEF TrustInv, MergeOK
<1>3. CASE mergeHead[t] # NoCommit
  BY <1>3 DEF TrustInv
<1> QED
  BY <1>1, <1>2, <1>3, WorktreeWrites

LEMMA NextHeadIsTrusted ==
    ASSUME TypeOK, TypeOK', LocalsOK, HistoryOK, References, PastBases, TrustInv, [Next]_vars,
           NEW t \in Task
    PROVE  /\ BelowTrusted(head[t])'
           /\ mergeHead'[t] # NoCommit => Trusted(head[t])'
<1>0. head[t] \in Commit /\ head[t] \in history[head[t]]
  BY DEF TypeOK, References
<1>1. CASE head'[t] = head[t]
  <2>1. BelowTrusted(head[t])'
    BY <1>0, <1>1, HistoryStaysTrusted DEF TrustInv, BelowTrusted
  <2>2. ASSUME mergeHead'[t] # NoCommit
        PROVE  Trusted(head[t])'
    <3>1. Trusted(head[t])
      BY <2>2, MergedIsTrusted DEF TrustInv
    <3> QED
      BY <1>1, <3>1, TrustedStays DEF Trusted
  <2> QED
    BY <2>1, <2>2
<1>2. CASE head'[t] # head[t]
  <2>1. PICK c \in Commit, b \in Commit : Commits(t, c, b)
    BY <1>2, WorktreeMoves DEF Commits, Begins, TypeOK
  <2>2. mergeHead'[t] = NoCommit /\ head'[t] = c
    BY <2>1 DEF Commits, TypeOK
  <2>3. Trusted(head[t])
    BY <1>2, MergedIsTrusted
  <2>4. history[b] \subseteq history[project]
    BY <2>1 DEF Commits, HistoryOK, TypeOK
  <2>5. \A d \in history'[c] \ {c} : Trusted(d)
    BY <2>1, <2>3, <2>4 DEF Commits, TrustInv, AllTrusted, BelowTrusted
  <2>6. \A d \in history'[c] \ {c} : Trusted(d)'
    BY <2>5, TrustedStays
  <2> QED
    BY <2>2, <2>6 DEF BelowTrusted
<1> QED
  BY <1>1, <1>2

\* A worker comes to its merge by starting it.
LEMMA MergeIsStarted ==
    ASSUME TypeOK, TypeOK', NEW w \in Worker, WorkerStep(w), pc'[w] = "gitMerge"
    PROVE  MergeStarts(w) \/ (pc[w] = "gitMerge" /\ UNCHANGED <<pc, base, tip>>)
<1>2. CASE Merge(w)
  BY <1>2 DEF Merge, MergeResumes, MergeHasBase, MergeReads, MergeRefuses,
     MergeIsFenced, GitMerge, GitMergeFails, MergeVerifies, MergeUnverified, Blocks,
     Settles, Leaves, Over, Goto, TypeOK
<1>3. CASE Agent(w)
  BY <1>3 DEF Agent, AgentResumes, AgentStarts, AgentWorks, AgentEnds, AgentRecorded,
     AgentStops, AgentIsFenced, MergeConcludes, Blocks, Settles, Leaves, Stays, Over, Goto,
     locals, TypeOK
<1>4. CASE Claim(w) \/ Enter(w) \/ Sanity(w)
  BY <1>4 DEF Claim, Enter, Sanity, SanityStarts, Catalog, Attest, Advance, Advanced,
     Cleanup, Finish, Blocks, Settles, Leaves, Stays, Over, Goto, TypeOK
<1> QED
  BY <1>2, <1>3, <1>4 DEF WorkerStep

\* What it announces is what git merge makes of HEAD and the base as they are.
LEMMA StartedIsMerge ==
    ASSUME TypeOK, TypeOK', HistoryOK, References, NEW w \in Worker, MergeStarts(w)
    PROVE  LET t == TaskOf(w)
           IN  /\ UNCHANGED <<head, project, source, mergeHead, holder, process>>
               /\ pc'[w] = "gitMerge" /\ base'[w] = project
               /\ mergeHead[t] = NoCommit /\ Holds(w) /\ Attested(t, head[t], project)
               /\ [starting |-> head[t], base |-> project, expected |-> tip'[w]] \in started'[t]
               /\ project \notin history'[head[t]]
               /\ tip'[w] \in Commit => IsMerge(tip[w], head[t], base[w])'
<1> USE DEF TypeOK
<1> DEFINE t == TaskOf(w)
<1>0. t \in Task /\ head[t] \in Commit /\ project \in Commit
  BY WorkerParts
<1>1. PICK c \in Commit \cup {NoCommit} :
           /\ \/ IsAncestor(head[t], project) /\ c = project /\ UNCHANGED history
              \/ /\ ~ IsAncestor(head[t], project)
                 /\ Fresh(c)
                 /\ history' = WithMerge(c, head[t], project)
              \/ c = NoCommit /\ UNCHANGED history
           /\ tip' = [tip EXCEPT ![w] = c]
           /\ started' = [started EXCEPT
                            ![t] = @ \cup {[starting |-> head[t], base |-> project,
                                            expected |-> c]}]
  BY DEF MergeStarts
<1>2. /\ pc' = [pc EXCEPT ![w] = "gitMerge"] /\ base' = [base EXCEPT ![w] = project]
      /\ UNCHANGED <<head, project, source, mergeHead, holder, process>>
      /\ project \notin history[head[t]] /\ mergeHead[t] = NoCommit
      /\ Holds(w) /\ Attested(t, head[t], project)
  BY DEF MergeStarts, IsAncestor, Goto
<1>3. [starting |-> head[t], base |-> project, expected |-> c] \in started'[t]
  BY <1>0, <1>1
<1>4. head[t] \in history[head[t]] /\ project \in history[project]
  BY <1>0 DEF References
<1>5. CASE IsAncestor(head[t], project) /\ c = project /\ UNCHANGED history
  BY <1>1, <1>2, <1>3, <1>5 DEF IsMerge, IsAncestor
<1>6. CASE c \in Commit /\ ~ IsAncestor(head[t], project)
           /\ Fresh(c) /\ history' = WithMerge(c, head[t], project)
  <2>1. history[c] = {}
    BY <1>6, FreshIsNew
  <2>2. c # head[t] /\ c # project
    BY <1>4, <2>1
  <2>3. /\ history'[c] = history[head[t]] \cup history[project] \cup {c}
        /\ history'[head[t]] = history[head[t]] /\ history'[project] = history[project]
    BY <1>0, <1>6, <2>2 DEF WithMerge
  <2> QED
    BY <1>1, <1>2, <1>3, <1>6, <2>3 DEF IsMerge, IsAncestor
<1>7. CASE c = NoCommit /\ UNCHANGED history
  BY <1>1, <1>2, <1>3, <1>7, PublicationAssumption
<1> QED
  BY <1>1, <1>5, <1>6, <1>7 DEF Fresh

LEMMA StartedIsOK ==
    ASSUME TypeOK, TypeOK', LocalsOK, HistoryOK, References, Claims', [Next]_vars,
           NEW w \in Worker, MergeStarts(w)
    PROVE  MergeOK(w)'
<1> DEFINE t == TaskOf(w)
<1>0. t \in Task /\ head[t] \in Commit
  BY WorkerParts DEF TypeOK
<1>1. /\ head' = head /\ mergeHead'[t] = NoCommit /\ Holds(w)' /\ pc'[w] = "gitMerge"
      /\ tip'[w] \in Commit => IsMerge(tip[w], head[t], base[w])'
      /\ [starting |-> head[t], base |-> project, expected |-> tip'[w]] \in started'[t]
  BY StartedIsMerge DEF Holds
<1>2. Trusted(head[t])'
  <2>1. Trusted(head[t])
    BY <1>0, StartedIsMerge, AttestedIsTrusted
  <2> QED
    BY <1>1, <2>1, TrustedStays DEF Trusted
<1>3. ASSUME First(w)', NEW v \in Others(w)'
      PROVE  FALSE
  <2>1. v \in Worker /\ pc'[v] # "idle" /\ ProcessOf(v) # ProcessOf(w)
    BY WorkerParts DEF Others
  <2>2. \E q \in Process : process'[q] = "new"
    BY <1>1, <1>3 DEF First
  <2> QED
    BY <1>1, <2>1, <2>2 DEF Claims
<1>4. tip'[w] = NoCommit \/ (IsMerge(tip[w], head[t], base[w]) /\ Trusted(tip[w]))'
  BY <1>0, <1>1 DEF TypeOK, OptionalCommit, Trusted
<1> QED
  BY <1>1, <1>2, <1>3, <1>4 DEF MergeOK

\* The bases of the others stay above that of the first.
LEMMA OthersReadLater ==
    ASSUME TypeOK, TypeOK', LocalsOK, HistoryOK, References, PastBases, [Next]_vars,
           NEW w \in Worker, pc[w] = "gitMerge", base'[w] = base[w],
           \A v \in Others(w) : pc[v] \in AfterRead => base[w] \in history[base[v]],
           NEW v \in Others(w)', pc'[v] \in AfterRead
    PROVE  base'[w] \in history'[base'[v]]
<1>0. /\ base[w] \in history[project] /\ project \in Commit
      /\ v \in Worker /\ v # w /\ TaskOf(v) = TaskOf(w)
  BY DEF PastBases, AfterRead, Locked, Others, TypeOK
<1>1. Keeps
  BY NextKeeps
<1>2. CASE pc[v] \in AfterRead /\ base'[v] = base[v]
  <2>1. v \in Others(w) /\ base[v] \in Commit
    BY <1>0, <1>2 DEF Others, AfterRead, Locked, LocalsOK, LocalOK
  <2> QED
    BY <1>1, <1>2, <2>1 DEF Keeps
<1>3. CASE base'[v] = project
  BY <1>0, <1>1, <1>3 DEF Keeps
<1>4. CASE WorkerStep(v)
  BY <1>0, <1>2, <1>3, <1>4, BaseIsRead DEF WorkerStep
<1>5. CASE pc'[v] = pc[v] /\ base'[v] = base[v]
  BY <1>2, <1>5
<1> QED
  BY <1>0, <1>4, <1>5, WorkerStepsOrStays DEF AfterRead, Locked

\* An agent is started by the owner.
LEMMA AgentIsStarted ==
    ASSUME TypeOK, TypeOK', [Next]_vars, NEW w \in Worker, pc'[w] = "agentRuns"
    PROVE  pc[w] = "agentRuns" \/ (pc[w] = "agent" /\ Holds(w))
<1>1. CASE Merge(w)
  BY <1>1 DEF Merge, MergeResumes, MergeHasBase, MergeReads, MergeStarts, MergeRefuses,
     MergeIsFenced, GitMerge, GitMergeFails, MergeVerifies, MergeUnverified, Blocks,
     Settles, Leaves, Over, Goto, TypeOK
<1>2. CASE Agent(w)
  BY <1>2 DEF Agent, AgentResumes, AgentStarts, AgentWorks, AgentEnds, AgentRecorded,
     AgentStops, AgentIsFenced, MergeConcludes, Blocks, Settles, Leaves, Stays, Over, Goto,
     TypeOK
<1>3. CASE Claim(w) \/ Enter(w) \/ Sanity(w)
  BY <1>3 DEF Claim, Enter, Sanity, SanityStarts, Catalog, Attest, Advance, Advanced,
     Cleanup, Finish, Blocks, Settles, Leaves, Stays, Over, Goto, TypeOK
<1> QED
  BY <1>1, <1>2, <1>3, WorkerStepsOrStays DEF WorkerStep

\* A worker about to merge while nothing happens in its worktree.
LEMMA MergeOKStays ==
    ASSUME TypeOK, TypeOK', LocalsOK, HistoryOK, References, PastBases, Claims, TrustInv,
           [Next]_vars, NEW w \in Worker, pc[w] = "gitMerge", pc'[w] = "gitMerge",
           base'[w] = base[w], tip'[w] = tip[w],
           head'[TaskOf(w)] = head[TaskOf(w)], mergeHead'[TaskOf(w)] = mergeHead[TaskOf(w)]
    PROVE  MergeOK(w)'
<1> DEFINE t == TaskOf(w)
<1>0. /\ t \in Task /\ head[t] \in Commit /\ MergeOK(w)
      /\ base[w] \in Commit /\ base[w] \in history[base[w]]
      /\ head[t] \in history[head[t]]
  BY WorkerParts DEF TrustInv, TypeOK, References, LocalsOK, LocalOK, PastBases, HistoryOK,
     AfterRead, Locked
<1>1. Keeps
  BY NextKeeps
<1>2. history'[head[t]] = history[head[t]] /\ history'[base[w]] = history[base[w]]
  BY <1>0, <1>1 DEF Keeps
<1>3. Trusted(head[t])' \/ base'[w] \in history'[head'[t]]
  <2>1. CASE Trusted(head[t])
    BY <2>1, TrustedStays DEF Trusted
  <2>2. CASE base[w] \in history[head[t]]
    BY <1>2, <2>2
  <2> QED
    BY <1>0, <2>1, <2>2 DEF MergeOK
<1>4. First(w)' <=> First(w)
  BY FirstStays
<1>5. ASSUME First(w)
      PROVE  /\ \A v \in Others(w)' : pc'[v] \in AfterRead => base'[w] \in history'[base'[v]]
             /\ mergeHead'[t] # NoCommit => base'[w] \in history'[mergeHead'[t]]
             /\ \/ base'[w] \in history'[head'[t]]
                \/ tip'[w] = NoCommit
                \/ (IsMerge(tip[w], head[t], base[w]) /\ Trusted(tip[w]))'
  <2>1. \A v \in Others(w)' : pc'[v] \in AfterRead => base'[w] \in history'[base'[v]]
    BY <1>0, <1>5, OthersReadLater DEF MergeOK
  <2>2. mergeHead[t] # NoCommit => base[w] \in history'[mergeHead[t]]
    BY <1>0, <1>1, <1>5 DEF MergeOK, Keeps, TypeOK, OptionalCommit
  <2>3. ASSUME IsMerge(tip[w], head[t], base[w]), Trusted(tip[w]), tip[w] # NoCommit
        PROVE  (IsMerge(tip[w], head[t], base[w]) /\ Trusted(tip[w]))'
    <3>1. tip[w] \in Commit /\ history[tip[w]] # {}
      BY <1>0, <2>3 DEF IsMerge, TypeOK, OptionalCommit
    <3>2. history'[tip[w]] = history[tip[w]]
      BY <1>1, <3>1 DEF Keeps
    <3>3. Trusted(tip[w])'
      BY <2>3, TrustedStays DEF Trusted
    <3> QED
      BY <1>2, <2>3, <3>2, <3>3 DEF IsMerge, IsAncestor
  <2> QED
    BY <1>0, <1>2, <1>5, <2>1, <2>2, <2>3 DEF MergeOK
<1>6. ASSUME ~ First(w), NEW v \in Others(w)', pc'[v] = "agentRuns"
      PROVE  mergeHead'[t] = NoCommit
  <2>0. v \in Worker /\ v # w /\ TaskOf(v) = TaskOf(w)
    BY DEF Others
  <2>1. pc[v] = "agentRuns" \/ (pc[v] = "agent" /\ Holds(v))
    BY <1>6, <2>0, AgentIsStarted
  <2>2. v \in Others(w)
    BY <2>0, <2>1 DEF Others
  <2>3. ~ Holds(v)
    BY <1>6, <2>2, FirstAndLast
  <2> QED
    BY <1>0, <1>6, <2>1, <2>2, <2>3 DEF MergeOK
<1> QED
  BY <1>3, <1>4, <1>5, <1>6 DEF MergeOK

\* While another writes into it: to one that was first, the other brings its base; of
\* one that was not, the other makes the merge it had announced.
LEMMA MergeOKBeside ==
    ASSUME TypeOK, TypeOK', LocalsOK, HistoryOK, References, PastBases, Claims, Claims',
           TrustInv, [Next]_vars,
           NEW w \in Worker, pc[w] = "gitMerge", pc'[w] = "gitMerge",
           base'[w] = base[w], tip'[w] = tip[w],
           NEW u \in Others(w), GitMerge(u) \/ AgentWorks(u),
           ~ (head'[TaskOf(w)] = head[TaskOf(w)] /\ mergeHead'[TaskOf(w)] = mergeHead[TaskOf(w)])
    PROVE  MergeOK(w)'
<1> DEFINE t == TaskOf(w)
<1>0. /\ t \in Task /\ MergeOK(w) /\ u \in Worker /\ TaskOf(u) = t /\ u # w /\ pc[u] # "idle"
      /\ base[w] \in Commit /\ base[w] \in history[base[w]]
  BY WorkerParts, MergingBase DEF TrustInv, Others
<1>1. Keeps
  BY NextKeeps
<1>2. First(w)' <=> First(w)
  BY FirstStays
<1>3. /\ First(w) => Holds(u) /\ ~ First(u)
      /\ ~ First(w) => ~ Holds(u) /\ First(u)
      /\ Others(w) = {u}
  BY FirstAndLast
<1> DEFINE Begun == /\ pc[u] = "gitMerge" /\ pc'[u] = "agent"
                    /\ UNCHANGED <<history, head>>
                    /\ base[u] \notin history[head[t]] /\ mergeHead'[t] = base[u]
           Made == /\ pc[u] = "gitMerge" /\ pc'[u] = "verify"
                   /\ base[u] \notin history[head[t]] /\ mergeHead'[t] = NoCommit
                   /\ tip[u] # NoCommit
                   /\ IsMerge(tip[u], head[t], base[u]) => head'[t] = tip[u]
                   /\ history[base[u]] \subseteq history'[head'[t]]
           Resolved == /\ pc[u] = "agentRuns"
                       /\ mergeHead[t] # NoCommit /\ mergeHead'[t] = NoCommit
                       /\ \/ UNCHANGED <<history, head>>
                          \/ history[mergeHead[t]] \subseteq history'[head'[t]]
<1>4. Begun \/ Made \/ Resolved
  BY <1>0, WorktreeWrites
<1>5. CASE First(w)
  <2>1. /\ \A v \in Others(w) : pc[v] \in AfterRead => base[w] \in history[base[v]]
        /\ mergeHead[t] # NoCommit => base[w] \in history[mergeHead[t]]
        /\ \/ base[w] \in history[head[t]]
           \/ tip[w] = NoCommit
           \/ IsMerge(tip[w], head[t], base[w]) /\ Trusted(tip[w])
    BY <1>0, <1>5 DEF MergeOK
  <2>2. \A v \in Others(w)' : pc'[v] \in AfterRead => base'[w] \in history'[base'[v]]
    BY <2>1, OthersReadLater
  <2>3. pc[u] = "gitMerge" => base[w] \in history[base[u]]
    BY <2>1 DEF AfterRead, Locked
  <2>4. CASE UNCHANGED <<history, head>>
    <3>1. mergeHead'[t] # NoCommit => base'[w] \in history'[mergeHead'[t]]
      BY <1>4, <2>3, <2>4
    <3>2. Trusted(head[t])' \/ base'[w] \in history'[head'[t]]
      <4>1. Trusted(head[t]) => Trusted(head[t])'
        BY <2>4, TrustedStays DEF Trusted
      <4> QED
        BY <1>0, <2>4, <4>1 DEF MergeOK
    <3>3. \/ base'[w] \in history'[head'[t]]
          \/ tip'[w] = NoCommit
          \/ (IsMerge(tip[w], head[t], base[w]) /\ Trusted(tip[w]))'
      <4>1. Trusted(tip[w]) => Trusted(tip[w])'
        BY TrustedStays DEF Trusted
      <4> QED
        BY <2>1, <2>4, <4>1 DEF IsMerge, IsAncestor
    <3> QED
      BY <1>2, <1>5, <2>2, <3>1, <3>2, <3>3 DEF MergeOK
  <2>5. CASE ~ UNCHANGED <<history, head>>
    <3>1. base[w] \in history'[head'[t]] /\ mergeHead'[t] = NoCommit
      BY <1>4, <2>1, <2>3, <2>5
    <3> QED
      BY <1>2, <1>5, <2>2, <3>1 DEF MergeOK
  <2> QED
    BY <2>4, <2>5
<1>6. CASE ~ First(w)
  <2>1. pc[u] = "gitMerge"
    BY <1>0, <1>4, <1>6 DEF MergeOK
  <2>2. MergeOK(u)
    BY <1>0, <2>1 DEF TrustInv
  <2>3. Trusted(head[t])'
    <3>1. base[u] \notin history[head[t]]
      BY <1>4, <2>1
    <3>2. Trusted(head[t])
      BY <1>0, <2>2, <3>1 DEF MergeOK
    <3>3. CASE Begun
      BY <3>2, <3>3, TrustedStays DEF Trusted
    <3>4. CASE Made
      <4>1. IsMerge(tip[u], head[t], base[u]) /\ Trusted(tip[u])
        BY <1>0, <1>3, <1>6, <2>2, <3>4 DEF MergeOK
      <4>2. head'[t] = tip[u] /\ Trusted(tip[u])
        BY <3>4, <4>1
      <4> QED
        BY <4>2, TrustedStays DEF Trusted
    <3> QED
      BY <1>4, <2>1, <3>3, <3>4
  <2>4. ASSUME NEW v \in Others(w)', pc'[v] = "agentRuns"
        PROVE  FALSE
    <3>1. v \in Worker /\ v # w /\ TaskOf(v) = TaskOf(w)
      BY DEF Others
    <3>2. pc[v] # "idle"
      BY <2>4, <3>1, AgentIsStarted
    <3>3. v = u
      BY <1>3, <3>1, <3>2 DEF Others
    <3> QED
      BY <1>4, <2>1, <2>4, <3>3
  <2> QED
    BY <1>2, <1>6, <2>3, <2>4 DEF MergeOK
<1> QED
  BY <1>5, <1>6

LEMMA NextMergeOK ==
    ASSUME TypeOK, TypeOK', LocalsOK, HistoryOK, References, PastBases, Claims, Claims',
           TrustInv, [Next]_vars, NEW w \in Worker, pc'[w] = "gitMerge"
    PROVE  MergeOK(w)'
<1>0. TaskOf(w) \in Task
  BY WorkerParts
<1>1. CASE MergeStarts(w)
  BY <1>1, StartedIsOK
<1>2. CASE ~ MergeStarts(w)
  <2>1. pc[w] = "gitMerge" /\ base'[w] = base[w] /\ tip'[w] = tip[w]
    BY <1>2, WorkerStepsOrStays, MergeIsStarted
  <2>2. CASE head'[TaskOf(w)] = head[TaskOf(w)] /\ mergeHead'[TaskOf(w)] = mergeHead[TaskOf(w)]
    BY <2>1, <2>2, MergeOKStays
  <2>3. CASE ~ (/\ head'[TaskOf(w)] = head[TaskOf(w)]
                /\ mergeHead'[TaskOf(w)] = mergeHead[TaskOf(w)])
    <3>1. PICK u \in Worker : TaskOf(u) = TaskOf(w) /\ (GitMerge(u) \/ AgentWorks(u))
      BY <1>0, <2>3, WorktreeWriters
    <3>2. u # w /\ pc[u] # "idle"
      BY <2>1, <3>1 DEF GitMerge, AgentWorks, Goto, TypeOK
    <3>3. u \in Others(w)
      BY <3>1, <3>2 DEF Others
    <3> QED
      BY <2>1, <2>3, <3>1, <3>3, MergeOKBeside
  <2> QED
    BY <2>2, <2>3
<1> QED
  BY <1>1, <1>2

\* A worker takes its tip from a worktree whose HEAD it has attested.
LEMMA TipIsRead ==
    ASSUME TypeOK, TypeOK', NEW w \in Worker, WorkerStep(w), pc'[w] \in HasTip
    PROVE  \/ pc[w] \in HasTip /\ tip'[w] = tip[w]
           \/ /\ tip'[w] = head[TaskOf(w)] /\ UNCHANGED head
              /\ Trusted(head[TaskOf(w)])'
<1> USE DEF TypeOK, HasTip, Goto, Over
<1> DEFINE t == TaskOf(w)
<1>0. t \in Task /\ head[t] \in Commit
  BY WorkerParts
<1>1. CASE Claim(w) \/ Enter(w)
  BY <1>1 DEF Claim, Enter, Stays
<1>2. CASE MergeHasBase(w)
  <2>1. UNCHANGED <<history, project, source, head, started, attempts>>
        /\ tip'[w] = head[t] /\ Attested(t, head[t], project)
    BY <1>2 DEF MergeHasBase, MergeReads, git
  <2>2. \A u \in Task : merged[u] \subseteq merged'[u]
    BY <1>2 DEF MergeHasBase
  <2>3. Trusted(head[t])
    BY <1>0, <2>1, AttestedIsTrusted
  <2> QED
    BY <2>1, <2>2, <2>3 DEF Trusted, IsAncestor
<1>3. CASE MergeVerifies(w)
  <2>1. UNCHANGED <<head, tip>> /\ head[t] = tip[w]
        /\ merged' = [merged EXCEPT ![t] = @ \cup {[base |-> base[w], commit |-> head[t]]}]
    BY <1>3 DEF MergeVerifies, git, locals
  <2>2. [base |-> base[w], commit |-> head[t]] \in merged'[t]
    BY <1>0, <2>1
  <2> QED
    BY <1>0, <2>1, <2>2 DEF Trusted
<1>4. CASE Merge(w) /\ ~ MergeHasBase(w) /\ ~ MergeVerifies(w)
  BY <1>4 DEF Merge, MergeResumes, MergeReads, MergeStarts, MergeRefuses, MergeIsFenced,
     GitMerge, GitMergeFails, MergeUnverified, Blocks, Settles, Leaves
<1>5. CASE AgentResumes(w)
  <2>1. /\ UNCHANGED <<head, attempts>> /\ tip'[w] = head[t]
        /\ attempts[t] # <<>> /\ head[t] = attempts[t][Len(attempts[t])].commit
    BY <1>5 DEF AgentResumes, Resumable, LastAttempt, Blocks, Settles, git, store, events
  <2>2. Len(attempts[t]) \in 1..Len(attempts[t])
    BY <1>0, <2>1
  <2> QED
    BY <1>0, <2>1, <2>2 DEF Trusted
<1>6. CASE AgentRecorded(w)
  <2> DEFINE good == verdict[w] = "completed" /\ Verified(w)
             outcome == [base |-> base[w], commit |-> IF good THEN head[t] ELSE NoCommit]
  <2>1. /\ UNCHANGED head
        /\ attempts' = [attempts EXCEPT ![t] = Append(@, outcome)]
        /\ tip' = [tip EXCEPT ![w] = outcome.commit]
        /\ pc' = [pc EXCEPT ![w] = IF good THEN "tip" ELSE "conclude"]
    BY <1>6 DEF AgentRecorded, git
  <2>2. good
    BY <2>1
  <2>3. outcome.commit = head[t]
    BY <2>2
  <2>4. tip'[w] = head[t]
    BY <2>1, <2>3
  <2>5. attempts[t] \in Seq([base : Commit, commit : OptionalCommit])
        /\ attempts'[t] = Append(attempts[t], outcome)
    BY <1>0, <2>1
  <2>6. Len(attempts[t]) + 1 \in 1..Len(attempts'[t])
        /\ attempts'[t][Len(attempts[t]) + 1] = outcome
    <3> HIDE DEF outcome
    <3> QED
      BY <2>5
  <2> QED
    BY <1>0, <2>1, <2>3, <2>4, <2>6 DEF Trusted
<1>7. CASE Agent(w) /\ ~ AgentResumes(w) /\ ~ AgentRecorded(w)
  BY <1>7 DEF Agent, AgentStarts, AgentWorks, AgentEnds, AgentStops, AgentIsFenced,
     MergeConcludes, Settles, Leaves, Stays
<1>8. CASE Sanity(w)
  BY <1>8 DEF Sanity, SanityStarts, Catalog, Attest, Advance, Advanced, Cleanup, Finish,
     Blocks, Settles, Leaves, Stays, locals
<1> QED
  BY <1>1, <1>2, <1>3, <1>4, <1>5, <1>6, <1>7, <1>8 DEF WorkerStep

LEMMA NextTipsAreTrusted ==
    ASSUME TypeOK, TypeOK', LocalsOK, HistoryOK, References, TrustInv, [Next]_vars,
           NEW w \in Worker, pc'[w] \in HasTip
    PROVE  tip'[w] \in history'[tip'[w]] /\ AllTrusted(tip[w])'
<1>1. CASE pc[w] \in HasTip /\ tip'[w] = tip[w]
  <2>1. tip[w] \in Commit /\ tip[w] \in history[tip[w]] /\ AllTrusted(tip[w])
    BY <1>1 DEF TrustInv, LocalsOK, LocalOK
  <2>2. history'[tip[w]] = history[tip[w]] /\ \A d \in history[tip[w]] : Trusted(d)'
    BY <2>1, TrustedStays, HistoryStaysTrusted DEF AllTrusted
  <2> QED
    BY <1>1, <2>1, <2>2 DEF AllTrusted
<1>2. CASE tip'[w] = head[TaskOf(w)] /\ UNCHANGED head /\ Trusted(head[TaskOf(w)])'
  <2> DEFINE c == head[TaskOf(w)]
  <2>1. c \in Commit /\ c \in history[c] /\ BelowTrusted(c)
    BY WorkerParts DEF TypeOK, References, TrustInv
  <2>2. history'[c] = history[c] /\ \A d \in history[c] \ {c} : Trusted(d)'
    BY <2>1, TrustedStays, HistoryStaysTrusted DEF BelowTrusted
  <2> QED
    BY <1>2, <2>1, <2>2 DEF AllTrusted
<1>3. ASSUME NEW v \in Worker, WorkerStep(v)
      PROVE  \/ pc[w] \in HasTip /\ tip'[w] = tip[w]
             \/ tip'[w] = head[TaskOf(w)] /\ UNCHANGED head /\ Trusted(head[TaskOf(w)])'
  <2>1. CASE v = w
    BY <1>3, <2>1, TipIsRead
  <2>2. CASE v # w
    BY <1>3, <2>2, StepIsLocal DEF OthersStay, WorkerStep
  <2> QED
    BY <2>1, <2>2
<1>4. ASSUME NEW p \in Process, Crash(p)
      PROVE  pc[w] \in HasTip /\ tip'[w] = tip[w]
  BY <1>4 DEF Crash, HasTip
<1>5. SourceMoves \/ (\E p \in Process : Acquire(p) \/ Refresh(p) \/ Cancel(p)) \/ Still
      => UNCHANGED <<pc, tip>>
  BY DEF SourceMoves, Acquire, Refresh, Cancel, Still, locals
<1> QED
  BY <1>1, <1>2, <1>3, <1>4, <1>5, NextCases DEF WorkerStep

\* The project branch moves to the source branch or to the tip of a worker.
LEMMA NextProjectIsTrusted ==
    ASSUME TypeOK, TypeOK', LocalsOK, HistoryOK, References, TrustInv, [Next]_vars
    PROVE  AllTrusted(project)'
<1>1. CASE project' = project
  <2>1. project \in Commit /\ project \in history[project] /\ AllTrusted(project)
    BY DEF TypeOK, References, TrustInv
  <2>2. history'[project] = history[project] /\ \A d \in history[project] : Trusted(d)'
    BY <2>1, TrustedStays, HistoryStaysTrusted DEF AllTrusted
  <2> QED
    BY <1>1, <2>2 DEF AllTrusted
<1>2. CASE project' # project
  <2>1. project' = source' \/ \E w \in Worker : Advance(w) /\ project' = tip[w]
    <3>1. ASSUME NEW p \in Process, Acquire(p) \/ Refresh(p)
          PROVE  project' = source'
      BY <1>2, <3>1 DEF Acquire, Refresh
    <3>2. ASSUME NEW w \in Worker, Advance(w)
          PROVE  project' = tip[w]
      BY <1>2, <3>2 DEF Advance, Blocks, Settles, git
    <3> QED
      BY <1>2, <3>1, <3>2, ProjectMovers
  <2>2. CASE project' = source'
    BY <2>2 DEF AllTrusted, Trusted, IsAncestor
  <2>3. ASSUME NEW w \in Worker, Advance(w), project' = tip[w]
        PROVE  AllTrusted(project)'
    <3>1. pc[w] \in HasTip /\ AllTrusted(tip[w]) /\ UNCHANGED history
      BY <2>3, SanityHistory DEF Advance, TrustInv, HasTip, Sanity
    <3> QED
      BY <2>3, <3>1, TrustedStays DEF AllTrusted
  <2> QED
    BY <2>1, <2>2, <2>3
<1> QED
  BY <1>1, <1>2

LEMMA NextTrust ==
    ASSUME TypeOK, TypeOK', LocalsOK, HistoryOK, References, PastBases, Claims, Claims',
           TrustInv, [Next]_vars
    PROVE  TrustInv'
<1>1. AllTrusted(project)'
  BY NextProjectIsTrusted
<1>2. \A t \in Task : BelowTrusted(head[t])' /\ (mergeHead'[t] # NoCommit => Trusted(head[t])')
  BY NextHeadIsTrusted
<1>3. \A w \in Worker : pc'[w] = "gitMerge" => MergeOK(w)'
  BY NextMergeOK
<1>4. \A w \in Worker : pc'[w] \in HasTip =>
         tip'[w] \in history'[tip'[w]] /\ AllTrusted(tip[w])'
  BY NextTipsAreTrusted
<1> QED
  BY <1>1, <1>2, <1>3, <1>4 DEF TrustInv

(***************************************************************************)
(* A clean merge that stopped anywhere.                                    *)
(***************************************************************************)
\* A task branch keeps its approved commit, and only a task about to be done lacks its
\* worktree.
Undisturbed ==
    /\ \A t \in Task : ApprovedCommit[t] \in history[head[t]]
    /\ \A t \in Task :
         (\E p \in Process : process[p] \in Active) /\ status[t] # "done" /\ ~ worktree[t]
         => \E w \in Worker : TaskOf(w) = t /\ pc[w] = "finish"

\* A worker of a task without conflicts merges what it announced: HEAD is the commit it
\* started from until it is the announced one.
CleanOK(w) ==
    LET t == TaskOf(w)
    IN  /\ pc[w] \notin {"agent", "agentRuns", "agentDone", "conclude"}
        /\ pc[w] = "gitMerge" =>
             /\ [starting |-> head[t], base |-> base[w], expected |-> tip[w]] \in started[t]
             /\ tip[w] \in Commit
             /\ IsMerge(tip[w], head[t], base[w])
             /\ base[w] \notin history[head[t]]
        /\ pc[w] \in {"verify", "tip"} => head[t] = tip[w] /\ base[w] \in history[tip[w]]

CleanTask(t) ==
    /\ mergeHead[t] = NoCommit
    /\ \/ head[t] = ApprovedCommit[t]
       \/ \E e \in started[t] : e.expected = head[t] /\ e.base \in history[project]
    /\ \A w \in Worker : TaskOf(w) = t => CleanOK(w)

CleanTasks == \A t \in Task : ~ Conflicted(t) => CleanTask(t)

LEMMA NextHasApproved ==
    ASSUME TypeOK, TypeOK', LocalsOK, HistoryOK, References, PastBases, Undisturbed,
           [Next]_vars, NEW t \in Task
    PROVE  ApprovedCommit[t] \in history'[head'[t]]
<1>1. head[t] \in Commit /\ ApprovedCommit[t] \in history[head[t]]
  BY DEF TypeOK, Undisturbed
<1>2. CASE head'[t] = head[t]
  BY <1>1, <1>2, NextKeeps DEF Keeps
<1>3. CASE head'[t] # head[t]
  <2>1. PICK c \in Commit, b \in Commit : Commits(t, c, b)
    BY <1>3, WorktreeMoves DEF Commits, Begins, TypeOK
  <2>2. head'[t] = c
    BY <2>1 DEF Commits, TypeOK
  <2>3. head[t] \in history[b] => ApprovedCommit[t] \in history[b]
    BY <1>1, <2>1 DEF HistoryOK
  <2> QED
    BY <1>1, <2>1, <2>2, <2>3 DEF Commits
<1> QED
  BY <1>2, <1>3

\* Only the clean-up removes a worktree.
LEMMA WorktreeRemoved ==
    ASSUME TypeOK, [Next]_vars, NEW t \in Task, worktree[t], ~ worktree'[t]
    PROVE  \E w \in Worker : TaskOf(w) = t /\ pc'[w] = "finish"
<1>1. ASSUME NEW w \in Worker, Cleanup(w)
      PROVE  TaskOf(w) = t /\ pc'[w] = "finish"
  <2>1. worktree' = [worktree EXCEPT ![TaskOf(w)] = FALSE] /\ pc' = [pc EXCEPT ![w] = "finish"]
    BY <1>1 DEF Cleanup, Blocks, Settles, git, Goto
  <2> QED
    BY <2>1 DEF TypeOK
<1>2. ASSUME NEW w \in Worker, Merge(w) \/ Agent(w)
      PROVE  UNCHANGED worktree
  BY <1>2 DEF Merge, MergeResumes, MergeHasBase, MergeReads, MergeStarts, MergeRefuses,
     MergeIsFenced, GitMerge, GitMergeFails, MergeVerifies, MergeUnverified, Agent,
     AgentResumes, AgentStarts, AgentWorks, AgentEnds, AgentRecorded, AgentStops,
     AgentIsFenced, MergeConcludes, Blocks, Settles, Leaves, Stays, git
<1>3. ASSUME NEW w \in Worker, Claim(w) \/ Enter(w) \/ (Sanity(w) /\ ~ Cleanup(w))
      PROVE  UNCHANGED worktree
  BY <1>3 DEF Claim, Enter, Sanity, SanityStarts, Catalog, Attest, Advance, Advanced, Finish,
     Blocks, Settles, Leaves, Stays, git
<1>4. SourceMoves \/ (\E p \in Process : Refresh(p) \/ Crash(p) \/ Cancel(p)) \/ Still
      => UNCHANGED worktree
  BY DEF SourceMoves, Refresh, Crash, Cancel, Still, git
<1>5. ASSUME NEW p \in Process, Acquire(p)
      PROVE  FALSE
  BY <1>5 DEF Acquire
<1> QED
  BY <1>1, <1>2, <1>3, <1>4, <1>5, NextCases

LEMMA NextPresent ==
    ASSUME TypeOK, TypeOK', Alone, Undisturbed, [Next]_vars, NEW t \in Task,
           \E p \in Process : process'[p] \in Active, status'[t] # "done", ~ worktree'[t]
    PROVE  \E w \in Worker : TaskOf(w) = t /\ pc'[w] = "finish"
<1>1. CASE worktree[t]
  BY <1>1, WorktreeRemoved
<1>2. CASE ~ worktree[t]
  <2>1. ASSUME NEW p \in Process, Acquire(p)
        PROVE  FALSE
    BY <2>1 DEF Acquire, store
  <2>2. ASSUME NEW p \in Process, Crash(p)
        PROVE  FALSE
    <3>1. \A q \in Process : process'[q] \in Active => process[q] \in Active /\ q # p
      BY <2>2 DEF Crash, Active, TypeOK
    <3> QED
      BY <2>2, <3>1 DEF Crash, Alone, Active
  <2>3. ASSUME NEW p \in Process, Cancel(p)
        PROVE  \E w \in Worker : TaskOf(w) = t /\ pc'[w] = "finish"
    BY <1>2, <2>3 DEF Cancel, Undisturbed, store, Active
  <2>4. ASSUME NEW w \in Worker, WorkerStep(w)
        PROVE  \E v \in Worker : TaskOf(v) = t /\ pc'[v] = "finish"
    <3>1. \E p \in Process : process[p] \in Active
      BY <2>4, WorkerWrites
    <3>2. status[t] # "done"
      <4>1. CASE TaskOf(w) = t
        <5>1. pc[w] = "idle" => Claim(w)
          BY <2>4, WorkerWrites
        <5> QED
          BY <4>1, <5>1 DEF Claim, Alone
      <4>2. CASE TaskOf(w) # t
        BY <2>4, <4>2, WorkerWrites
      <4> QED
        BY <4>1, <4>2
    <3>3. PICK v \in Worker : TaskOf(v) = t /\ pc[v] = "finish"
      BY <1>2, <3>1, <3>2 DEF Undisturbed
    <3>4. CASE v # w
      BY <2>4, <3>3, <3>4, StepIsLocal DEF OthersStay, WorkerStep
    <3>5. CASE v = w
      <4>1. Finish(w)
        BY <2>4, <3>3, <3>5 DEF WorkerStep, Claim, Enter, Merge, MergeResumes, MergeHasBase,
           MergeReads, MergeStarts, MergeRefuses, MergeIsFenced, GitMerge, GitMergeFails,
           MergeVerifies, MergeUnverified, Agent, AgentResumes, AgentStarts, AgentWorks,
           AgentEnds, AgentRecorded, AgentStops, AgentIsFenced, MergeConcludes, Sanity,
           SanityStarts, Catalog, Attest, Advance, Advanced, Cleanup
      <4>2. Holds(w) /\ status[t] = "merging"
        BY <3>3, <3>5 DEF Alone
      <4> QED
        BY <3>3, <3>5, <4>1, <4>2 DEF Finish, Settles, TypeOK
    <3> QED
      BY <3>4, <3>5
  <2>5. CASE SourceMoves \/ (\E p \in Process : Refresh(p)) \/ Still
    BY <1>2, <2>5 DEF SourceMoves, Refresh, Still, store, Undisturbed
  <2> QED
    BY <2>1, <2>2, <2>3, <2>4, <2>5, NextCases DEF WorkerStep
<1> QED
  BY <1>1, <1>2

LEMMA NextUndisturbed ==
    ASSUME TypeOK, TypeOK', LocalsOK, HistoryOK, References, PastBases,
           Alone, Undisturbed, [Next]_vars
    PROVE  Undisturbed'
<1>1. \A t \in Task : ApprovedCommit[t] \in history'[head'[t]]
  BY NextHasApproved
<1>2. \A t \in Task :
        (\E p \in Process : process'[p] \in Active) /\ status'[t] # "done" /\ ~ worktree'[t]
        => \E w \in Worker : TaskOf(w) = t /\ pc'[w] = "finish"
  BY NextPresent
<1> QED
  BY <1>1, <1>2 DEF Undisturbed

\* No step makes a task clean again.
LEMMA CleanBefore ==
    ASSUME TypeOK, TypeOK', [Next]_vars, NEW t \in Task, ~ Conflicted(t)'
    PROVE  ~ Conflicted(t)
BY NextRecords DEF Conflicted, Records

\* Git writes into the worktree of a clean task nothing but its announced merge.
LEMMA CleanWrites ==
    ASSUME TypeOK, TypeOK', LocalsOK, NEW t \in Task, CleanTask(t), [Next]_vars,
           ~ (head'[t] = head[t] /\ mergeHead'[t] = mergeHead[t])
    PROVE  \E w \in Worker :
             /\ TaskOf(w) = t /\ GitMerge(w) /\ CleanOK(w)
             /\ pc[w] = "gitMerge" /\ pc'[w] = "verify" /\ tip[w] \in Commit
             /\ UNCHANGED <<history, mergeHead, started, base, tip>> /\ head'[t] = tip[w]
<1>1. PICK w \in Worker : TaskOf(w) = t /\ (GitMerge(w) \/ AgentWorks(w))
  BY WorktreeWriters
<1>2. CleanOK(w) /\ mergeHead[t] = NoCommit
  BY <1>1 DEF CleanTask
<1>3. GitMerge(w) /\ pc[w] = "gitMerge"
  BY <1>1, <1>2 DEF CleanOK, AgentWorks, GitMerge
<1>4. tip[w] \in Commit /\ tip[w] # NoCommit /\ base[w] \notin history[head[t]]
      /\ IsMerge(tip[w], head[t], base[w])
  BY <1>1, <1>2, <1>3, PublicationAssumption DEF CleanOK
<1>5. /\ pc' = [pc EXCEPT ![w] = "verify"]
      /\ head' = [head EXCEPT ![t] = tip[w]]
      /\ UNCHANGED <<history, mergeHead, started, base, tip>>
  BY <1>1, <1>2, <1>3, <1>4 DEF GitMerge, Goto, IsAncestor, store, events, locals
<1> QED
  BY <1>1, <1>2, <1>3, <1>4, <1>5 DEF TypeOK

\* HEAD of a clean task stays a tip that its own events attest.
LEMMA NextCleanHead ==
    ASSUME TypeOK, TypeOK', LocalsOK, HistoryOK, PastBases, NEW t \in Task, CleanTask(t),
           [Next]_vars
    PROVE  /\ mergeHead'[t] = NoCommit
           /\ \/ head'[t] = ApprovedCommit[t]
              \/ \E e \in started'[t] : e.expected = head'[t] /\ e.base \in history'[project']
<1>1. Records /\ history[project] \subseteq history'[project']
  BY NextRecords, ProjectGrows
<1>2. CASE head'[t] = head[t] /\ mergeHead'[t] = mergeHead[t]
  BY <1>1, <1>2 DEF CleanTask, Records
<1>3. CASE ~ (head'[t] = head[t] /\ mergeHead'[t] = mergeHead[t])
  <2>1. PICK w \in Worker :
             /\ TaskOf(w) = t /\ CleanOK(w) /\ pc[w] = "gitMerge"
             /\ UNCHANGED <<mergeHead, started>> /\ head'[t] = tip[w]
    BY <1>3, CleanWrites
  <2>2. base[w] \in history[project]
    BY <2>1 DEF PastBases, AfterRead, Locked
  <2>3. [starting |-> head[t], base |-> base[w], expected |-> tip[w]] \in started'[t]
    BY <2>1 DEF CleanOK
  <2> QED
    BY <1>1, <2>1, <2>2, <2>3 DEF CleanTask
<1> QED
  BY <1>2, <1>3

\* The worker of a clean task stays on the announced merge.
LEMMA CleanSteps ==
    ASSUME TypeOK, TypeOK', LocalsOK, HistoryOK, HistoryOK', References, PastBases,
           NEW w \in Worker, CleanTask(TaskOf(w)), ~ Conflicted(TaskOf(w))', WorkerStep(w)
    PROVE  CleanOK(w)'
<1> USE DEF TypeOK, Goto
<1> DEFINE t == TaskOf(w)
<1>0. /\ t \in Task /\ head[t] \in Commit /\ project \in Commit
      /\ CleanOK(w) /\ mergeHead[t] = NoCommit
  BY WorkerParts DEF CleanTask
<1>1. CASE pc'[w] \notin {"agent", "agentRuns", "agentDone", "conclude", "gitMerge", "verify",
                          "tip"}
  BY <1>1 DEF CleanOK
<1>2. CASE MergeHasBase(w)
  <2>1. /\ pc'[w] = "tip" /\ tip'[w] = head[t] /\ base'[w] = project
        /\ UNCHANGED <<head, history>> /\ project \in history[head[t]]
    BY <1>2 DEF MergeHasBase, MergeReads, IsAncestor, git
  <2> QED
    BY <2>1 DEF CleanOK
<1>3. CASE MergeStarts(w)
  <2>1. /\ head' = head /\ base'[w] = project /\ pc'[w] = "gitMerge"
        /\ [starting |-> head[t], base |-> project, expected |-> tip'[w]] \in started'[t]
        /\ project \notin history'[head[t]]
        /\ tip'[w] \in Commit => IsMerge(tip[w], head[t], base[w])'
    BY <1>3, StartedIsMerge
  <2>2. tip'[w] \in Commit
    BY <1>0, <2>1 DEF Conflicted, OptionalCommit
  <2> QED
    BY <2>1, <2>2 DEF CleanOK, IsMerge, IsAncestor
<1>4. CASE GitMerge(w)
  <2>1. pc[w] = "gitMerge" /\ base[w] \in Commit
    BY <1>4 DEF GitMerge, LocalsOK, LocalOK, AfterRead, Locked
  <2>2. tip[w] \in Commit /\ tip[w] # NoCommit /\ base[w] \notin history[head[t]]
        /\ IsMerge(tip[w], head[t], base[w])
    BY <1>0, <2>1, PublicationAssumption DEF CleanOK
  <2>3. /\ pc' = [pc EXCEPT ![w] = "verify"]
        /\ head' = [head EXCEPT ![t] = tip[w]]
        /\ UNCHANGED <<history, base, tip>>
    BY <1>0, <1>4, <2>2 DEF GitMerge, IsAncestor, locals
  <2>4. base[w] \in history[base[w]]
    BY <2>1 DEF PastBases, HistoryOK, AfterRead, Locked
  <2>5. base[w] \in history[tip[w]]
    BY <2>2, <2>4 DEF IsMerge
  <2> QED
    BY <1>0, <2>3, <2>5 DEF CleanOK
<1>5. CASE MergeVerifies(w)
  <2>1. /\ pc[w] = "verify" /\ pc'[w] = "tip"
        /\ UNCHANGED <<head, history, base, tip>>
    BY <1>5 DEF MergeVerifies, git, locals
  <2> QED
    BY <1>0, <2>1 DEF CleanOK
<1>6. CASE Agent(w)
  BY <1>0, <1>6 DEF CleanOK, Agent, AgentResumes, AgentStarts, AgentWorks, AgentEnds,
     AgentRecorded, AgentStops, AgentIsFenced, MergeConcludes
<1>7. CASE MergeResumes(w)
  BY <1>0, <1>7 DEF MergeResumes, MergeReads
<1>8. CASE MergeRefuses(w) \/ MergeIsFenced(w) \/ GitMergeFails(w) \/ MergeUnverified(w)
  <2>1. pc'[w] = "idle"
    BY <1>8 DEF MergeRefuses, MergeIsFenced, GitMergeFails, MergeUnverified, Blocks, Settles,
       Leaves, Over
  <2> QED
    BY <1>1, <2>1
<1>9. CASE Claim(w) \/ Enter(w) \/ Sanity(w)
  <2>1. pc'[w] \in {"idle", "waiting", "merge"} \cup Publishing
    BY <1>9 DEF Claim, Enter, Sanity, SanityStarts, Catalog, Attest, Advance, Advanced, Cleanup,
       Finish, Blocks, Settles, Leaves, Stays, Over, Publishing
  <2> QED
    BY <1>1, <2>1 DEF Publishing
<1> QED
  BY <1>2, <1>3, <1>4, <1>5, <1>6, <1>7, <1>8, <1>9 DEF WorkerStep, Merge

\* So does one that makes no step: nobody else writes into its worktree.
LEMMA CleanStays ==
    ASSUME TypeOK, TypeOK', LocalsOK, HistoryOK, References, PastBases, Alone,
           NEW w \in Worker, CleanTask(TaskOf(w)), [Next]_vars,
           pc'[w] = pc[w], base'[w] = base[w], tip'[w] = tip[w]
    PROVE  CleanOK(w)'
<1> DEFINE t == TaskOf(w)
<1>0. t \in Task /\ head[t] \in Commit /\ CleanOK(w) /\ head[t] \in history[head[t]]
  BY WorkerParts DEF CleanTask, TypeOK, References
<1>1. CASE pc[w] \in {"gitMerge", "verify", "tip"}
  <2>1. head'[t] = head[t]
    <3> SUFFICES ASSUME head'[t] # head[t]
                 PROVE  FALSE
      OBVIOUS
    <3>1. PICK v \in Worker : TaskOf(v) = t /\ pc[v] = "gitMerge" /\ pc'[v] = "verify"
      BY <1>0, CleanWrites
    <3>2. v = w
      BY <1>1, <3>1, OneWorkerPerTask
    <3> QED
      BY <3>1, <3>2
  <2>2. base[w] \in Commit /\ base[w] \in history[base[w]]
    BY <1>1 DEF PastBases, HistoryOK, LocalsOK, LocalOK, AfterRead, Locked, TypeOK
  <2>3. Keeps /\ Records
    BY NextKeeps, NextRecords
  <2>4. history'[head[t]] = history[head[t]] /\ history'[base[w]] = history[base[w]]
    BY <1>0, <2>2, <2>3 DEF Keeps
  <2>5. CASE pc[w] = "gitMerge"
    <3>1. tip[w] \in Commit /\ history[tip[w]] # {}
      BY <1>0, <2>2, <2>5 DEF CleanOK, IsMerge
    <3>2. history'[tip[w]] = history[tip[w]]
      BY <2>3, <3>1 DEF Keeps
    <3> QED
      BY <1>0, <2>1, <2>3, <2>4, <2>5, <3>1, <3>2 DEF CleanOK, IsMerge, IsAncestor, Records
  <2>6. CASE pc[w] \in {"verify", "tip"}
    BY <1>0, <2>1, <2>4, <2>6 DEF CleanOK
  <2> QED
    BY <1>1, <2>5, <2>6
<1>2. CASE pc[w] \notin {"gitMerge", "verify", "tip"}
  BY <1>0, <1>2 DEF CleanOK
<1> QED
  BY <1>1, <1>2

LEMMA NextCleanTasks ==
    ASSUME TypeOK, TypeOK', LocalsOK, HistoryOK, HistoryOK', References, PastBases, Alone,
           CleanTasks, [Next]_vars
    PROVE  CleanTasks'
<1> SUFFICES ASSUME NEW t \in Task, ~ Conflicted(t)'
             PROVE  CleanTask(t)'
  BY DEF CleanTasks
<1>1. CleanTask(t)
  BY CleanBefore DEF CleanTasks
<1>2. ASSUME NEW w \in Worker, TaskOf(w) = t
      PROVE  CleanOK(w)'
  <2>1. CASE WorkerStep(w)
    BY <1>1, <1>2, <2>1, CleanSteps DEF Conflicted
  <2>2. CASE pc'[w] = "idle"
    BY <2>2 DEF CleanOK
  <2>3. CASE pc'[w] = pc[w] /\ base'[w] = base[w] /\ tip'[w] = tip[w]
    BY <1>1, <1>2, <2>3, CleanStays
  <2> QED
    BY <2>1, <2>2, <2>3, WorkerStepsOrStays
<1> QED
  BY <1>1, <1>2, NextCleanHead DEF CleanTask

\* The worker of a task without conflicts or foreign files, on the base it read, is
\* blocked by nothing the code looks at, before its tip is published.
LEMMA CleanIsNotBlocked ==
    ASSUME IInv, BaseInv, Alone, Undisturbed, CleanTasks, "catalog" \notin Disturbances,
           NEW w \in Worker, WorkerStep(w), ~ Conflicted(TaskOf(w)), ~ dirty[TaskOf(w)],
           base[w] # NoCommit => base[w] = project, status'[TaskOf(w)] = "blocked"
    PROVE  ApprovedCommit[TaskOf(w)] \in history[project]
<1> DEFINE t == TaskOf(w)
<1>0. /\ TypeOK /\ t \in Task /\ ProcessOf(w) \in Process
      /\ head[t] \in Commit /\ project \in Commit
  BY WorkerParts DEF IInv, TypeOK
<1>1. CleanTask(t) /\ CleanOK(w)
  BY <1>0 DEF CleanTasks, CleanTask
<1>2. status[t] = "merging" /\ (~ Claim(w) => pc[w] # "idle")
  <2>1. pc[w] = "idle" => Claim(w)
    BY <1>0, WorkerWrites
  <2> QED
    BY <2>1 DEF Alone, Claim
<1>3. pc[w] \notin {"idle", "finish"} => worktree[t]
  <2> SUFFICES ASSUME pc[w] \notin {"idle", "finish"}, ~ worktree[t]
               PROVE  FALSE
    OBVIOUS
  <2>1. PICK v \in Worker : TaskOf(v) = t /\ pc[v] = "finish"
    BY <1>0, <1>2 DEF Undisturbed, Alone
  <2> QED
    BY <2>1, OneWorkerPerTask
<1>4. mergeHead[t] = NoCommit /\ ApprovedCommit[t] \in history[head[t]]
  BY <1>0, <1>1 DEF CleanTask, Undisturbed
<1>5. CASE MergeRefuses(w)
  <2>1. Attested(t, head[t], project)
    BY <1>1 DEF CleanTask, Attested, StartedOn, IsAncestor
  <2> QED
    BY <1>3, <1>4, <1>5, <2>1 DEF MergeRefuses, IsAncestor
<1>6. CASE GitMergeFails(w)
  BY <1>3, <1>6 DEF GitMergeFails
<1>7. CASE MergeUnverified(w)
  <2>1. pc[w] = "verify" /\ base[w] = project
    BY <1>7, <1>0, PublicationAssumption DEF MergeUnverified, IInv, LocalsOK, LocalOK, AfterRead,
       Locked
  <2>2. Verified(w) /\ head[t] = tip[w]
    BY <1>1, <1>3, <1>4, <2>1 DEF Verified, CleanOK, IsAncestor
  <2> QED
    BY <1>2, <1>7, <2>2 DEF MergeUnverified, Leaves, store
<1>8. CASE Agent(w)
  BY <1>1, <1>8 DEF CleanOK, Agent, AgentResumes, AgentStarts, AgentWorks, AgentEnds,
     AgentRecorded, AgentStops, AgentIsFenced, MergeConcludes
<1>9. CASE SanityStarts(w)
  <2>1. pc[w] = "tip" /\ base[w] = project
    BY <1>9, <1>0, PublicationAssumption DEF SanityStarts, IInv, LocalsOK, LocalOK, AfterRead,
       Locked
  <2>2. TipVerified(w) /\ worktree[t]
    BY <1>1, <1>3, <1>4, <2>1 DEF TipVerified, CleanOK, IsAncestor
  <2>3. CASE project = tip[w]
    BY <1>4, <2>2, <2>3 DEF TipVerified
  <2>4. CASE project # tip[w]
    BY <1>2, <1>9, <2>1, <2>2, <2>4 DEF SanityStarts, Leaves, Stays, store
  <2> QED
    BY <2>3, <2>4
<1>10. CASE Catalog(w)
  BY <1>2, <1>10 DEF Catalog, Leaves, Stays, store
<1>11. CASE Advance(w)
  <2>1. pc[w] = "advance" /\ base[w] = project
    BY <1>11, <1>0, PublicationAssumption DEF Advance, IInv, LocalsOK, LocalOK, AfterRead,
       Locked
  <2>2. project \in history[tip[w]] /\ project # tip[w]
    BY <2>1 DEF BaseInv, TipIsTight, TipOK
  <2> QED
    BY <1>2, <1>11, <2>2 DEF Advance, IsAncestor, store
<1>12. CASE Cleanup(w)
  BY <1>12 DEF Cleanup, IInv, Contained
<1>13. CASE Finish(w)
  BY <1>0, <1>2, <1>13 DEF Finish, Settles, TypeOK
<1>14. CASE Attest(w) \/ Advanced(w) \/ Enter(w) \/ Claim(w)
  BY <1>2, <1>14 DEF Attest, Advanced, Enter, Claim, Leaves, Stays, store
<1>15. CASE Merge(w) /\ ~ MergeRefuses(w) /\ ~ GitMergeFails(w) /\ ~ MergeUnverified(w)
  BY <1>2, <1>15 DEF Merge, MergeResumes, MergeHasBase, MergeReads, MergeStarts, MergeIsFenced,
     GitMerge, MergeVerifies, Leaves, store
<1> QED
  BY <1>5, <1>6, <1>7, <1>8, <1>9, <1>10, <1>11, <1>12, <1>13, <1>14, <1>15
     DEF WorkerStep, Sanity

LEMMA CleanSurvives ==
    ASSUME IInv, BaseInv, Alone, Undisturbed, CleanTasks, "catalog" \notin Disturbances,
           [Next]_vars, NEW t \in Task, status[t] # "blocked", status'[t] = "blocked"
    PROVE  \/ Conflicted(t)
           \/ IsAncestor(ApprovedCommit[t], project)
           \/ dirty[t]
           \/ \E w \in Worker :
                TaskOf(w) = t /\ base[w] # NoCommit /\ base[w] # project
<1>1. ASSUME NEW w \in Worker, WorkerStep(w), ~ Conflicted(t), ~ dirty[t],
             TaskOf(w) = t => (base[w] # NoCommit => base[w] = project)
      PROVE  ApprovedCommit[t] \in history[project]
  <2>1. TaskOf(w) = t
    BY <1>1, WorkerWrites DEF IInv
  <2> QED
    BY <1>1, <2>1, CleanIsNotBlocked
<1>2. SourceMoves \/ (\E p \in Process : Acquire(p) \/ Refresh(p) \/ Crash(p) \/ Cancel(p))
      \/ Still => UNCHANGED status
  BY DEF SourceMoves, Acquire, Refresh, Crash, Cancel, Still, store
<1> QED
  BY <1>1, <1>2, NextCases DEF WorkerStep, IsAncestor

\* With one process after the other, each is alone and finds what a clean merge can have
\* left.
SoloInv == Alone /\ Undisturbed /\ CleanTasks

LEMMA InitSolo == Init => SoloInv
<1> SUFFICES ASSUME Init
             PROVE  SoloInv
  OBVIOUS
<1>1. Alone
  BY DEF Init, Alone, Active, Locked
<1>2. Undisturbed
  BY PublicationAssumption DEF Init, Undisturbed
<1>3. CleanTasks
  BY DEF Init, CleanTasks, CleanTask, CleanOK
<1> QED
  BY <1>1, <1>2, <1>3 DEF SoloInv

LEMMA NextSolo ==
    ASSUME "lapse" \notin Disturbances
    PROVE  IInv /\ IInv' /\ BaseInv /\ SoloInv /\ [Next]_vars => SoloInv'
<1> SUFFICES ASSUME IInv, IInv', BaseInv, SoloInv, [Next]_vars
             PROVE  SoloInv'
  OBVIOUS
<1> USE DEF IInv, BaseInv, SoloInv
<1>1. Alone'
  BY NextAlone
<1>2. Undisturbed'
  BY NextUndisturbed
<1>3. CleanTasks'
  BY NextCleanTasks
<1> QED
  BY <1>1, <1>2, <1>3

LEMMA InitClaims == Init => Claims
BY DEF Init, Claims, Active

LEMMA InitTrust == Init => TrustInv
<1> SUFFICES ASSUME Init
             PROVE  TrustInv
  OBVIOUS
<1>1. \A t \in Task : BelowTrusted(head[t])
  BY PublicationAssumption DEF Init, BelowTrusted, Trusted, IsAncestor
<1>2. AllTrusted(project)
  BY DEF Init, AllTrusted, Trusted, IsAncestor
<1> QED
  BY <1>1, <1>2 DEF Init, TrustInv, HasTip

(***************************************************************************)
(* The theorems.                                                           *)
(***************************************************************************)
\* The invariant holds initially.
LEMMA InitHolds == Init => IInv
<1> SUFFICES ASSUME Init
             PROVE  IInv
  OBVIOUS
<1>1. TypeOK
  <2>1. attempts \in [Task -> Seq([base : Commit, commit : OptionalCommit])]
    BY DEF Init
  <2> QED
    BY <2>1, PublicationAssumption DEF Init, TypeOK, OptionalCommit
<1>2. LocalsOK
  BY DEF Init, LocalsOK, LocalOK, AfterRead, HasTip, Locked
<1>3. HistoryOK
  BY PublicationAssumption DEF Init, HistoryOK
<1>4. Contained
  BY DEF Init, Contained
<1>5. Removed
  BY DEF Init, Removed
<1>6. DoneIsPublished
  BY DEF Init, DoneIsPublished
<1> QED
  BY <1>1, <1>2, <1>3, <1>4, <1>5, <1>6 DEF IInv

\* Every step preserves the invariant.
LEMMA NextHolds == IInv /\ [Next]_vars => IInv'
<1> SUFFICES ASSUME IInv, [Next]_vars
             PROVE  IInv'
  OBVIOUS
<1>1. TypeOK'
  BY NextType DEF IInv
<1>2. LocalsOK'
  BY <1>1, NextLocals DEF IInv
<1>3. HistoryOK'
  BY NextKeeps DEF IInv
<1>4. Contained'
  BY <1>1, <1>2, NextContained DEF IInv
<1>5. Removed'
  BY NextRemoved DEF IInv
<1>6. DoneIsPublished'
  BY <1>1, NextDone DEF IInv
<1> QED
  BY <1>1, <1>2, <1>3, <1>4, <1>5, <1>6 DEF IInv

\* It holds initially.
LEMMA InitBase == Init => BaseInv
<1> SUFFICES ASSUME Init
             PROVE  BaseInv
  OBVIOUS
<1>1. \A c \in Commit : history[c] \in {{}, {c}, {Root, c}}
  BY DEF Init
<1>2. history[Root] = {Root}
  BY PublicationAssumption DEF Init
<1>3. Acyclic
  BY <1>1, <1>2, PublicationAssumption DEF Acyclic
<1>4. References
  BY PublicationAssumption DEF Init, References
<1>5. PastBases
  BY DEF Init, PastBases, AfterRead, Locked
<1>6. HeadIsTight
  BY PublicationAssumption DEF Init, HeadIsTight, Tight
<1>7. TipIsTight
  BY DEF Init, TipIsTight, TipOK
<1> QED
  BY <1>3, <1>4, <1>5, <1>6, <1>7 DEF BaseInv

\* Every step preserves it.
LEMMA NextBase == IInv /\ BaseInv /\ [Next]_vars => BaseInv'
<1> SUFFICES ASSUME IInv, BaseInv, [Next]_vars
             PROVE  BaseInv'
  OBVIOUS
<1>1. TypeOK' /\ HistoryOK'
  BY NextHolds DEF IInv
<1>2. Acyclic'
  BY NextAcyclic DEF IInv, BaseInv
<1>3. References'
  BY <1>1, <1>2, NextReferences DEF IInv, BaseInv
<1>4. PastBases'
  BY <1>1, <1>3, NextPastBases DEF IInv, BaseInv
<1>5. HeadIsTight'
  BY <1>1, <1>2, <1>3, NextHeadIsTight DEF IInv, BaseInv
<1>6. TipIsTight'
  BY <1>1, NextTipIsTight DEF IInv, BaseInv
<1> QED
  BY <1>2, <1>3, <1>4, <1>5, <1>6 DEF BaseInv

\* The inductive invariant of publication holds in every reachable state.
THEOREM PublicationInvariant == Spec => []IInv
  BY InitHolds, NextHolds, PTL DEF Spec

\* Every variable of Publication keeps its type: no worker is ever at a store
\* write with a base, a tip or a verdict the store could not take.
THEOREM PublicationTypes == Spec => []TypeOK
<1>1. IInv => TypeOK
  BY DEF IInv
<1> QED
  BY <1>1, PublicationInvariant, PTL

\* A task recorded as done has its approved commit in the project branch and no
\* worktree, for good: sanity.py reaches its last transition only so.
THEOREM DoneMeansPublished == Spec => []DoneIsPublished
<1>1. IInv => DoneIsPublished
  BY DEF IInv
<1> QED
  BY <1>1, PublicationInvariant, PTL

\* Worktrees and tips are tight on the branch they are merged with: what git
\* merge --ff makes of a base is on that base and on nothing that came after it.
THEOREM BasesAreTight == Spec => []BaseInv
<1>1. IInv /\ IInv' /\ BaseInv /\ [Next]_vars => BaseInv'
  BY NextBase
<1> QED
  BY <1>1, InitBase, PublicationInvariant, PTL DEF Spec

\* The project branch moves only forward, and only to the source branch or to a tip
\* that was attested for an advance from exactly the commit it moves from, however
\* many stale workers still advance it (sanity.py, fast_forward_branch).
THEOREM AdvancesAreAttested == Spec => BaseAdvancesAsAttested
<1>1. IInv /\ BaseInv /\ [Next]_vars =>
        [project' # project =>
           /\ IsAncestor(project, project')
           /\ \/ project' = source
              \/ \E t \in Task :
                   /\ [from |-> project, commit |-> project'] \in advances[t]
                   /\ IsAncestor(ApprovedCommit[t], project')]_vars
  BY AdvanceIsAttested
<1> QED
  BY <1>1, PublicationInvariant, BasesAreTight, PTL DEF Spec, BaseAdvancesAsAttested

\* Where no process outlives its lease, at most one is active, its workers hold their
\* tasks, one of them is in the lock, and the worktree of a task without conflicts holds
\* what was announced.
THEOREM ProcessesFollowOneAnother ==
    ASSUME "lapse" \notin Disturbances
    PROVE  Spec => []SoloInv
<1>1. IInv /\ IInv' /\ BaseInv /\ SoloInv /\ [Next]_vars => SoloInv'
  BY NextSolo
<1> QED
  BY <1>1, InitSolo, PublicationInvariant, BasesAreTight, PTL DEF Spec

\* There, or with no more than an owner and a process it took over from, a worker at work
\* either holds its task or lost it to the one that does.
THEOREM OwnersAreKnown ==
    ASSUME "lapse" \notin Disturbances \/ TwoProcesses
    PROVE  Spec => []Claims
<1>1. ASSUME "lapse" \notin Disturbances
      PROVE  Spec => []Claims
  <2>1. SoloInv => Claims
    BY AloneClaims DEF SoloInv
  <2>2. Spec => []SoloInv
    BY <1>1, ProcessesFollowOneAnother
  <2> QED
    BY <2>1, <2>2, PTL
<1>2. ASSUME TwoProcesses
      PROVE  Spec => []Claims
  <2>1. IInv /\ IInv' /\ Claims /\ [Next]_vars => Claims'
    BY <1>2, NextClaims DEF IInv
  <2> QED
    BY <2>1, InitClaims, PublicationInvariant, PTL DEF Spec
<1> QED
  BY <1>1, <1>2

\* Then every commit of the project branch is the source branch's or is approved,
\* announced or recorded, wherever a merge or its agent was interrupted and whatever a
\* process does that was taken over from (merge.py, _attested_tip_agent_used).
THEOREM PublishedIsTrusted ==
    ASSUME "lapse" \notin Disturbances \/ TwoProcesses
    PROVE  Spec => []OnlyTrustedCommitsArePublished
<1>1. IInv /\ IInv' /\ BaseInv /\ Claims /\ Claims' /\ TrustInv /\ [Next]_vars => TrustInv'
  BY NextTrust DEF IInv, BaseInv
<1>2. TrustInv => OnlyTrustedCommitsArePublished
  BY DEF TrustInv, AllTrusted, OnlyTrustedCommitsArePublished
<1> QED
  BY <1>1, <1>2, InitTrust, PublicationInvariant, BasesAreTight, OwnersAreKnown, PTL DEF Spec

\* And a task whose catalog passes and which never met a conflict is not blocked before
\* it is published, unless files were left in its worktree or the project branch moved on
\* from the base its worker read: wherever it was interrupted, the next claim recognises
\* the merge by the attestation written before it (merge.py, run).
THEOREM CleanMergesSurvive ==
    ASSUME "lapse" \notin Disturbances, "catalog" \notin Disturbances
    PROVE  Spec => CleanMergeSurvivesCrashes
<1>1. IInv /\ BaseInv /\ SoloInv /\ [Next]_vars =>
        [\A t \in Task :
           status[t] # "blocked" /\ status'[t] = "blocked" =>
              \/ Conflicted(t)
              \/ IsAncestor(ApprovedCommit[t], project)
              \/ dirty[t]
              \/ \E w \in Worker :
                   TaskOf(w) = t /\ base[w] # NoCommit /\ base[w] # project]_vars
  BY CleanSurvives DEF SoloInv
<1> QED
  BY <1>1, PublicationInvariant, BasesAreTight, ProcessesFollowOneAnother, PTL
     DEF Spec, CleanMergeSurvivesCrashes
=============================================================================
