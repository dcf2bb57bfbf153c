--------------------------- MODULE TaskPipelineProofs ---------------------------
(***************************************************************************)
(* Theorems about TaskPipeline, for any number of rounds, any budget, any  *)
(* plans, severities and effects of agents, and any number of crashes and  *)
(* stops: what is merged was reviewed, no completed turn is repeated, the  *)
(* budget bounds the loop, the ledger follows its rounds, a fix answers    *)
(* something on a note where one is due, and agents work in a checkout     *)
(* prepared, or knowingly taken unprepared, for their plan.                *)
(*                                                                         *)
(* Each follows from IInv.  Its parts say where the process is and what    *)
(* the task's row says there (Placed), how the completed attempts follow   *)
(* one another (Recorded), which of them the row waits for (Positioned),   *)
(* what the last of them has established (Reviewed), what the rounds have  *)
(* cost (Assessed), and what the worktree was prepared for (Prepared).     *)
(***************************************************************************)
EXTENDS TaskPipeline, FiniteSetTheorems, SequenceTheorems, TLAPS

Resumable == {"environment", "coding", "review", "fix", "merging"}
InEnvironment ==
    {"environment", "preparing", "unprepared", "installed", "marked", "ready"}
InCheckout ==
    {"ready", "prepared", "coding", "restoring", "loop", "turn", "steered", "outcome",
     "merge"}
Place == {"idle", "unstarted", "claimed", "returned"} \cup InEnvironment \cup InCheckout

Turn == [phase : Phase \cup {"none"}, acted : BOOLEAN, base : Nat]
Result == [status : TaskStatus, resume : TaskStatus, round : Nat]
Outcome == [status : TaskStatus \cup {"none"}, resume : TaskStatus \cup {"none"},
            round : Nat]

Shapes ==
    /\ PipelineTypeOK
    /\ at \in Place /\ resumed \in Resumable
    /\ turn \in Turn /\ outcome \in Outcome
    /\ commits \in Nat /\ stops \in Nat
    /\ key \in PlanKey

\* What the row of the task says where the process is.
Placed ==
    /\ task.status \in Terminal => at \in {"returned", "idle"}
    /\ task.status \notin Terminal => task.resume \in Resumable
    /\ task.status = "merging" => task.resume = "merging"
    /\ at = "idle" => task.status \in Terminal \cup {"pending"}
    /\ at \in {"unstarted", "claimed"} =>
         task.status = "claimed" /\ task.resume = resumed
    /\ at \in InEnvironment => task.status = "environment" /\ task.resume = resumed
    /\ at = "prepared" =>
         /\ task.status = "coding"
         /\ task.resume = IF resumed = "environment" THEN "coding" ELSE resumed
    /\ at = "restoring" =>
         /\ task.status = "review" /\ task.resume = resumed
         /\ resumed \in {"fix", "merging"}
    /\ at \in {"coding", "loop", "turn", "steered", "outcome", "merge"} =>
         task.resume = task.status
    /\ at = "coding" => task.status = "coding"
    /\ at = "loop" => task.status \in {"review", "fix"}
    /\ at = "turn" =>
         /\ turn.phase \in Phase
         /\ task.status = IF turn.phase = "steering" THEN "fix" ELSE turn.phase
    /\ at = "steered" => task.status = "fix"
    /\ at = "outcome" => task.status \in {"coding", "review", "fix"}
    /\ at = "merge" => task.status = "merging"

\* What a completed attempt leads to, and how attempts follow one another.
LeadsTo(a) ==
    /\ a.phase = "coding" => a.outcome \in {"review", "blocked", "failed"}
    /\ a.phase = "review" => a.outcome \in {"fix", "merging", "blocked", "failed"}
    /\ a.phase = "fix" => a.outcome \in {"review", "blocked", "failed"}
    /\ a.outcome \in {"review", "merging"} => a.next = a.round
    /\ a.outcome = "fix" => a.next = a.round + 1
    /\ a.phase = "coding" /\ a.outcome = "review" => a.commit # a.base
Follows(a, b) == b.phase = a.outcome /\ b.round = a.next

Recorded ==
    /\ \A k \in DOMAIN attempts : LeadsTo(attempts[k])
    /\ attempts # <<>> => attempts[1].phase = "coding" /\ attempts[1].round = 0
    /\ \A k \in DOMAIN attempts : k > 1 => Follows(attempts[k - 1], attempts[k])
    /\ \A j, k \in DOMAIN attempts : j <= k => attempts[j].round <= attempts[k].round
    /\ CompletedTurnsAreNotRepeated

\* The attempt the row waits for is the next one, or the last one whose
\* outcome has not been applied yet.
Last == attempts[Len(attempts)]
Due(phase) == attempts # <<>> /\ Last.outcome = phase /\ Last.next = task.round
Completed(phase) == attempts # <<>> /\ Last.phase = phase /\ Last.round = task.round
InHand ==
    /\ outcome \in Result
    /\ \/ outcome.status \in {"blocked", "failed"}
       \/ outcome.status = task.status
       \/ /\ Completed(task.status)
          /\ outcome = [status |-> Last.outcome, resume |-> Last.outcome,
                         round |-> Last.next]

Positioned ==
    /\ task.status \notin Terminal =>
         /\ task.resume \in {"environment", "coding"} =>
              task.round = 0 /\ Len(attempts) <= 1
         /\ task.resume \in {"review", "fix"} => Due(task.resume) \/ Completed(task.resume)
         /\ task.resume = "merging" => Due("merging")
    /\ task.status = "done" => attempts # <<>> /\ Last.outcome = "merging"
    /\ at \in {"turn", "steered"} => CompletedHere = {}
    /\ at = "outcome" => InHand

\* What a review is of, what the last one established, and what steers a fix.
Reviewed ==
    /\ at = "turn" /\ turn.phase = "review" => turn.base = DeclaredCommit
    /\ at = "turn" /\ turn.phase = "steering" => StuckRound(assessments)
    /\ attempts # <<>> /\ Last.outcome = "merging" =>
         Last.commit = DeclaredCommit /\ Open(ledger) = {}
    /\ attempts # <<>> /\ Last.outcome = "fix" => Open(ledger) # {}
    /\ at = "steered" => Verdict \in notes
    /\ at = "turn" /\ turn.phase = "fix" /\ StuckRound(assessments) => Verdict \in notes

\* A round is assessed when its review is completed; past the minimum it is
\* charged or refunded.
Refunded(s) == Cardinality({k \in DOMAIN s : s[k].refunded = "refunded"})
Accounted ==
    IF Len(assessments) <= MinRounds
    THEN Charged(assessments) = 0 /\ Refunded(assessments) = 0
    ELSE Len(assessments) = MinRounds + Charged(assessments) + Refunded(assessments)
Assessed ==
    /\ \A k \in DOMAIN assessments : (assessments[k].refunded = "inside") <=> k <= MinRounds
    /\ Accounted
    /\ attempts = <<>> => assessments = <<>>
    /\ attempts # <<>> /\ Last.outcome \in {"review", "fix"} => Len(assessments) = Last.next
    /\ LedgerFollowsTheRounds
    /\ BudgetBoundsGrinding

\* What a marker of this key says of the checkout, when nobody meddled.
Vouched(k) == installed = k \/ accepted = k \/ foreign

Prepared ==
    /\ marker # NoKey => Vouched(marker)
    /\ at \in {"preparing", "unprepared", "installed"} => marker = NoKey \/ foreign
    /\ at \in {"installed", "marked"} \cup InCheckout => Vouched(key)
    /\ stale.at = "preparing" => foreign

IInv == Shapes /\ Placed /\ Recorded /\ Positioned /\ Reviewed /\ Assessed /\ Prepared

---------------------------------------------------------------------------------
\* The attempts as they are read.
LEMMA LastIsThere ==
    ASSUME Shapes, attempts # <<>>
    PROVE  /\ Len(attempts) \in DOMAIN attempts /\ Len(attempts) \in Nat \ {0}
           /\ DOMAIN attempts = 1..Len(attempts)
           /\ Last \in AttemptRecord
BY DEF Shapes, PipelineTypeOK, Last

LEMMA AttemptsAreRecords ==
    ASSUME Shapes, NEW k \in DOMAIN attempts
    PROVE  /\ k \in Nat \ {0} /\ k <= Len(attempts) /\ attempts[k] \in AttemptRecord
           /\ attempts[k].phase \in {"coding", "review", "fix"}
           /\ attempts[k].outcome \in TaskStatus
           /\ attempts[k].round \in Nat /\ attempts[k].next \in Nat
           /\ attempts[k].base \in Nat /\ attempts[k].commit \in Nat
<1>1. attempts \in Seq(AttemptRecord)  BY DEF Shapes, PipelineTypeOK
<1>2. k \in Nat \ {0} /\ k <= Len(attempts) /\ attempts[k] \in AttemptRecord  BY <1>1
<1> QED  BY <1>2 DEF AttemptRecord

\* The declared commit is that of the one attempt no other declaring one is after.
LEMMA DeclaredIs ==
    ASSUME Shapes, NEW k \in Declaring, DeclaredBy(k)
    PROVE  DeclaredCommit = attempts[k].commit
<1> DEFINE d == CHOOSE i \in Declaring : DeclaredBy(i)
<1>1. d \in Declaring /\ DeclaredBy(d)  OBVIOUS
<1>2. \A i \in DOMAIN attempts : i \in Nat /\ attempts[i].round \in Nat
  BY AttemptsAreRecords
<1>3. Declaring \subseteq DOMAIN attempts  BY DEF Declaring
<1>4. d = k
  <2> HIDE DEF d
  <2>1. \/ attempts[k].round < attempts[d].round
        \/ attempts[k].round = attempts[d].round /\ k <= d
    BY <1>1 DEF DeclaredBy
  <2>2. \/ attempts[d].round < attempts[k].round
        \/ attempts[d].round = attempts[k].round /\ d <= k
    BY <1>1 DEF DeclaredBy
  <2> QED  BY <1>1, <1>2, <1>3, <2>1, <2>2
<1> QED  BY <1>4 DEF DeclaredCommit

\* Whatever comes after the coding attempt, that attempt declares the base.
LEMMA FirstDeclares ==
    ASSUME Shapes, Recorded, attempts # <<>>, Last.outcome \in {"review", "fix", "merging"}
    PROVE  1 \in Declaring /\ DeclaredBase \in Nat
<1> DEFINE n == Len(attempts)
<1>1. n \in DOMAIN attempts /\ n \in Nat \ {0} /\ DOMAIN attempts = 1..n  BY LastIsThere
<1>2. 1 \in DOMAIN attempts  BY <1>1
<1>3. LeadsTo(attempts[1]) /\ attempts[1].phase = "coding"  BY <1>2 DEF Recorded
<1>4. attempts[1].outcome = "review"
  <2>1. CASE n = 1  BY <1>3, <2>1 DEF Last, LeadsTo
  <2>2. CASE n # 1
    <3>1. 2 \in DOMAIN attempts  BY <1>1, <2>2
    <3>2. \A k \in DOMAIN attempts : k > 1 => Follows(attempts[k - 1], attempts[k])
      BY DEF Recorded
    <3>3. Follows(attempts[2 - 1], attempts[2])
      <4>1. 2 > 1  OBVIOUS
      <4> QED  BY <3>1, <3>2, <4>1
    <3>4. attempts[2].phase \in {"coding", "review", "fix"}  BY <3>1, AttemptsAreRecords
    <3> QED  BY <1>3, <3>3, <3>4 DEF Follows, LeadsTo
  <2> QED  BY <2>1, <2>2
<1>5. 1 \in Declaring  BY <1>2, <1>3, <1>4 DEF LeadsTo, Declaring
<1>6. DeclaredBase \in Nat
  <2> DEFINE d == CHOOSE k \in Declaring : \A j \in Declaring : k <= j
  <2>1. \A j \in Declaring : 1 <= j  BY <1>1 DEF Declaring
  <2>2. d \in Declaring  BY <1>5, <2>1
  <2> HIDE DEF d
  <2>3. d \in DOMAIN attempts  BY <2>2 DEF Declaring
  <2>4. attempts[d].base \in Nat  BY <2>3, AttemptsAreRecords
  <2> QED  BY <2>4 DEF DeclaredBase, d
<1> QED  BY <1>5, <1>6

\* On the way to a review, the last attempt declares the commit.
LEMMA LastDeclares ==
    ASSUME Shapes, Recorded, attempts # <<>>, Last.outcome = "review"
    PROVE  /\ Len(attempts) \in Declaring /\ DeclaredBy(Len(attempts))
           /\ DeclaredCommit = Last.commit
<1> DEFINE n == Len(attempts)
<1>1. n \in DOMAIN attempts /\ n \in Nat \ {0} /\ DOMAIN attempts = 1..n /\ Last \in AttemptRecord
  BY LastIsThere
<1>2. LeadsTo(Last)  BY <1>1 DEF Recorded, Last
<1>3. n \in Declaring  BY <1>1, <1>2 DEF LeadsTo, AttemptRecord, Declaring, Last
<1>4. \A j \in Declaring : j \in 1..n /\ attempts[j].round <= attempts[n].round
  BY <1>1 DEF Declaring, Recorded
<1>5. \A j \in 1..n : attempts[j].round \in Nat
  BY <1>1, AttemptsAreRecords
<1>6. DeclaredBy(n)  BY <1>1, <1>4, <1>5 DEF DeclaredBy
<1>7. DeclaredCommit = Last.commit  BY <1>3, <1>6, DeclaredIs DEF Last
<1> QED  BY <1>3, <1>6, <1>7

---------------------------------------------------------------------------------
\* Where a turn is, nothing of its phase and round has been completed, so it is
\* the next attempt that the row waits for.
LEMMA TurnIsDue ==
    ASSUME IInv, at \in {"turn", "steered"}
    PROVE  /\ task.status \in {"coding", "review", "fix"} /\ task.resume = task.status
           /\ task.round \in Nat
           /\ task.status = "coding" => attempts = <<>> /\ task.round = 0
           /\ task.status \in {"review", "fix"} => Due(task.status)
           /\ \A k \in DOMAIN attempts :
                attempts[k].phase # task.status \/ attempts[k].round # task.round
<1>1. /\ task.resume = task.status
      /\ task.status \in {"coding", "review", "fix"}
  BY DEF IInv, Placed, Phase
<1>2. task.status \notin Terminal  BY <1>1 DEF Terminal
<1>3. \A k \in DOMAIN attempts :
        attempts[k].phase # task.status \/ attempts[k].round # task.round
  BY DEF IInv, Positioned, CompletedHere
<1>4. task.status \in {"review", "fix"} => Due(task.status)
  <2>1. ~Completed(task.status)  BY <1>3, LastIsThere DEF Completed, Last, IInv
  <2> QED  BY <1>1, <1>2, <2>1 DEF IInv, Positioned
<1>5. task.status = "coding" => attempts = <<>> /\ task.round = 0
  <2> SUFFICES ASSUME task.status = "coding"  PROVE attempts = <<>> /\ task.round = 0  OBVIOUS
  <2>1. task.round = 0 /\ Len(attempts) <= 1  BY <1>1, <1>2 DEF IInv, Positioned
  <2>2. ASSUME attempts # <<>>  PROVE FALSE
    <3>1. Len(attempts) = 1 /\ 1 \in DOMAIN attempts
      BY <2>1, <2>2, LastIsThere DEF IInv
    <3>2. attempts[1].phase = "coding" /\ attempts[1].round = 0
      BY <2>2 DEF IInv, Recorded
    <3> QED  BY <1>3, <2>1, <3>1, <3>2
  <2> QED  BY <2>1, <2>2
<1>6. task.round \in Nat  BY DEF IInv, Shapes, PipelineTypeOK
<1> QED  BY <1>1, <1>3, <1>4, <1>5, <1>6

\* What a turn of the task means for its row.
LEMMA RestsAreOutcomes ==
    ASSUME Shapes
    PROVE  /\ {Stay, Blocked, Failed, NoOutcome} \subseteq Outcome
           /\ Stay.status = task.status /\ Stay.resume = task.status /\ Stay.round = task.round
           /\ Blocked.status = "blocked" /\ Failed.status = "failed"
           /\ Blocked \in [status : TaskStatus, resume : TaskStatus, round : Nat]
           /\ Failed \in [status : TaskStatus, resume : TaskStatus, round : Nat]
<1>1. task.status \in TaskStatus /\ task.round \in Nat  BY DEF Shapes, PipelineTypeOK
<1>2. {"blocked", "failed"} \subseteq TaskStatus  BY DEF TaskStatus, Terminal
<1> QED  BY <1>1, <1>2 DEF Stay, Onward, Blocked, Failed, NoOutcome, Outcome

LEMMA CodingOutcomes ==
    ASSUME Shapes, NEW how
    PROVE  LET r == CodingOutcome(how)
           IN  /\ r \in Result
               /\ \/ r.status \in {"blocked", "failed"}
                  \/ how = "cancelled" /\ r = Stay
                  \/ how = "reviewable" /\ r = Onward("review") /\ tree.head # turn.base
<1>1. task.status \in TaskStatus /\ task.round \in Nat  BY DEF Shapes, PipelineTypeOK
<1>2. {"blocked", "failed", "review"} \subseteq TaskStatus  BY DEF TaskStatus, Terminal, Phase
<1>3. Stay \in Result /\ Blocked \in Result /\ Failed \in Result
      /\ Blocked.status = "blocked" /\ Failed.status = "failed"
  BY <1>1, <1>2 DEF Stay, Onward, Blocked, Failed, Result
<1>4. Onward("review") \in Result  BY <1>1, <1>2 DEF Onward, Result
<1> QED  BY <1>3, <1>4 DEF CodingOutcome

LEMMA FixOutcomes ==
    ASSUME Shapes, NEW how
    PROVE  LET r == FixOutcome(how)
           IN  /\ r \in Result
               /\ \/ r.status \in {"blocked", "failed"}
                  \/ how = "cancelled" /\ r = Stay
                  \/ how = "reviewable" /\ r = Onward("review")
<1>1. task.status \in TaskStatus /\ task.round \in Nat  BY DEF Shapes, PipelineTypeOK
<1>2. {"blocked", "failed", "review"} \subseteq TaskStatus  BY DEF TaskStatus, Terminal, Phase
<1>3. Stay \in Result /\ Blocked \in Result /\ Failed \in Result
      /\ Blocked.status = "blocked" /\ Failed.status = "failed"
  BY <1>1, <1>2 DEF Stay, Onward, Blocked, Failed, Result
<1>4. Onward("review") \in Result  BY <1>1, <1>2 DEF Onward, Result
<1> QED  BY <1>3, <1>4 DEF FixOutcome

LEMMA UnreviewedOutcomes ==
    ASSUME Shapes, NEW how
    PROVE  LET r == ReviewWithoutVerdict(how)
           IN  /\ r \in Result
               /\ \/ r.status \in {"blocked", "failed"}
                  \/ how = "cancelled" /\ r = Stay
<1>1. task.status \in TaskStatus /\ task.round \in Nat  BY DEF Shapes, PipelineTypeOK
<1>2. {"blocked", "failed", "review"} \subseteq TaskStatus  BY DEF TaskStatus, Terminal, Phase
<1>3. Stay \in Result /\ Blocked \in Result /\ Failed \in Result
      /\ Blocked.status = "blocked" /\ Failed.status = "failed"
  BY <1>1, <1>2 DEF Stay, Onward, Blocked, Failed, Result
<1>4. \/ ReviewWithoutVerdict(how) \in {Blocked, Failed}
      \/ how = "cancelled" /\ ReviewWithoutVerdict(how) = Stay
  BY DEF ReviewWithoutVerdict
<1> QED  BY <1>3, <1>4

LEMMA VerdictsAreOutcomes ==
    ASSUME Shapes, NEW verdict, NEW assessed
    PROVE  LET r == ReviewOutcome(verdict, assessed)
           IN  /\ r \in Result
               /\ verdict = "approved" =>
                    r = Onward("merging")
               /\ verdict # "approved" =>
                    IF Continues(LedgerRound, MinRounds, GrantBudget, assessed.refunded,
                                 assessments)
                    THEN r = [status |-> "fix", resume |-> "fix", round |-> task.round + 1]
                    ELSE r.status = "blocked"
<1>1. task.round \in Nat /\ task.round + 1 \in Nat  BY DEF Shapes, PipelineTypeOK
<1>2. {"blocked", "merging", "fix", "review"} \subseteq TaskStatus
  BY DEF TaskStatus, Terminal, Phase
<1> QED  BY <1>1, <1>2 DEF ReviewOutcome, Onward, Result, LedgerRound

---------------------------------------------------------------------------------
\* Shapes, step by step.
LEMMA ChangesKeepTheTree ==
    ASSUME Shapes, NEW effect \in Effects, tree' = Changed(effect), commits' = Made(effect)
    PROVE  /\ tree' \in [head : Nat, under : SUBSET (0..commits'), clean : BOOLEAN,
                         branch : BOOLEAN]
           /\ commits' \in Nat
<1> DEFINE Tree(n) == [head : Nat, under : SUBSET (0..n), clean : BOOLEAN, branch : BOOLEAN]
<1>1. tree \in Tree(commits) /\ commits \in Nat  BY DEF Shapes, PipelineTypeOK
<1>2. effect \in {"commit", "rewrite", "dirty", "branch"}  BY PipelineAssumption
<1>3. commits + 1 \in Nat /\ commits + 1 \in 0..(commits + 1)
      /\ 0..commits \subseteq 0..(commits + 1)
  BY <1>1
<1>4. CASE effect = "commit"
  <2>1. tree' = [tree EXCEPT !.head = commits + 1, !.under = tree.under \cup {commits + 1}]
        /\ commits' = commits + 1
    BY <1>4 DEF Changed, Made
  <2> QED  BY <1>1, <1>3, <2>1
<1>5. CASE effect = "rewrite"
  <2>1. tree' = [tree EXCEPT !.head = commits + 1,
                             !.under = (tree.under \ {tree.head}) \cup {commits + 1}]
        /\ commits' = commits + 1
    BY <1>5 DEF Changed, Made
  <2> QED  BY <1>1, <1>3, <2>1
<1>6. CASE effect = "dirty"
  <2>1. tree' = [tree EXCEPT !.clean = FALSE] /\ commits' = commits
    BY <1>6 DEF Changed, Made
  <2> QED  BY <1>1, <2>1
<1>7. CASE effect = "branch"
  <2>1. tree' = [tree EXCEPT !.branch = FALSE] /\ commits' = commits
    BY <1>7 DEF Changed, Made
  <2> QED  BY <1>1, <2>1
<1> QED  BY <1>2, <1>4, <1>5, <1>6, <1>7

Tree == [head : Nat, under : SUBSET (0..commits), clean : BOOLEAN, branch : BOOLEAN]

\* The parts of Shapes a step may leave alone together.
RowShape == task \in Result /\ at \in Place /\ resumed \in Resumable
HandShape == turn \in Turn /\ outcome \in Outcome
WorldShape ==
    /\ tree \in Tree /\ commits \in Nat /\ stops \in Nat
    /\ cancel \in BOOLEAN /\ orphan \in BOOLEAN
RecordShape ==
    /\ attempts \in Seq(AttemptRecord) /\ ledger \in Seq(Row)
    /\ assessments \in Seq(AssessmentRecord) /\ notes \subseteq Nat
EnvShape ==
    /\ key \in PlanKey /\ {prepared, marker} \subseteq PlanKey \cup {NoKey}
    /\ recorded \subseteq PlanKey
    /\ installed \in PlanKey \cup {NoKey} /\ accepted \in PlanKey \cup {NoKey}
    /\ attempted \in BOOLEAN /\ foreign \in BOOLEAN
    /\ stale \in [at : {"none", "environment", "preparing", "marking"},
                  key : PlanKey \cup {NoKey}]

LEMMA ShapesAre ==
    /\ Shapes <=> RowShape /\ HandShape /\ WorldShape /\ RecordShape /\ EnvShape
    /\ Shapes' <=> RowShape' /\ HandShape' /\ WorldShape' /\ RecordShape' /\ EnvShape'
BY DEF Shapes, PipelineTypeOK, RowShape, HandShape, WorldShape, RecordShape, EnvShape,
       Result, Tree

LEMMA WorldStays ==
    ASSUME WorldShape, UNCHANGED <<tree, commits, orphan>>, stops' \in Nat, cancel' \in BOOLEAN
    PROVE  WorldShape'
BY DEF WorldShape, Tree

LEMMA RecordStays ==
    ASSUME RecordShape, UNCHANGED <<attempts, ledger, assessments, notes>>
    PROVE  RecordShape'
BY DEF RecordShape

LEMMA EnvStays ==
    ASSUME EnvShape, UNCHANGED envVars
    PROVE  EnvShape'
BY DEF EnvShape, envVars, storeVars, ghostVars

\* Statuses and places by name.
LEMMA NamesAreKnown ==
    /\ {"pending", "claimed", "environment", "coding", "review", "fix", "merging",
        "done", "blocked", "failed"} \subseteq TaskStatus
    /\ Resumable \subseteq TaskStatus /\ Terminal \subseteq TaskStatus
    /\ Place = {"idle", "unstarted", "claimed", "returned", "environment", "preparing",
                "unprepared", "installed", "marked", "ready", "prepared", "coding", "restoring", "loop",
                "turn", "steered", "outcome", "merge"}
BY DEF TaskStatus, Terminal, Phase, Resumable, Place, InEnvironment, InCheckout

\* A step of the process that records nothing and leaves the worktree alone.
LEMMA ControlShapes ==
    ASSUME Shapes, RowShape', EnvShape', Nothing, SameWorld, UNCHANGED <<turn, cancel>>,
           outcome' \in Outcome
    PROVE  Shapes'
<1>1. WorldShape'  BY ShapesAre, WorldStays DEF SameWorld, WorldShape
<1>2. RecordShape'  BY ShapesAre, RecordStays DEF Nothing
<1>3. HandShape'  BY ShapesAre DEF HandShape
<1> QED  BY <1>1, <1>2, <1>3, ShapesAre

LEMMA MovesKeepTheRow ==
    ASSUME RowShape, NEW status \in TaskStatus, NEW resume \in TaskStatus, NEW round \in Nat,
           Move(status, resume, round), at' \in Place, UNCHANGED resumed
    PROVE  RowShape'
BY DEF RowShape, Result, Move

LEMMA BlockShapes ==
    ASSUME Shapes, Block
    PROVE  Shapes'
<1>1. RowShape /\ EnvShape /\ HandShape  BY ShapesAre
<1>2. task.status \in TaskStatus /\ task.round \in Nat  BY <1>1 DEF RowShape, Result
<1>3. RowShape'  BY <1>1, <1>2, MovesKeepTheRow, NamesAreKnown DEF Block
<1>4. EnvShape'  BY <1>1, EnvStays DEF Block
<1> QED  BY <1>1, <1>3, <1>4, ControlShapes DEF Block, HandShape

LEMMA ControlKeepsTheRow ==
    ASSUME Shapes, NEW label \in Place, Control(label), EnvShape'
    PROVE  Shapes'
<1>1. RowShape /\ HandShape  BY ShapesAre
<1>2. RowShape'  BY <1>1 DEF RowShape, Control
<1> QED  BY <1>1, <1>2, ControlShapes DEF Control, HandShape

LEMMA StopOrBlockShapes ==
    ASSUME Shapes, StopOrBlock
    PROVE  Shapes'
<1>1. CASE cancel
  <2>1. Control("returned") /\ UNCHANGED envVars  BY <1>1 DEF StopOrBlock
  <2> QED  BY <2>1, ShapesAre, EnvStays, ControlKeepsTheRow, NamesAreKnown
<1>2. CASE ~cancel  BY <1>2, BlockShapes DEF StopOrBlock
<1> QED  BY <1>1, <1>2

LEMMA EnvironmentShapes ==
    ASSUME IInv,
           \/ Claim \/ ReturnCancelled \/ EnterEnvironment \/ EnvironmentRefused
           \/ ReuseEnvironment \/ StartPreparing \/ CommandsSucceed \/ CommandsFail
           \/ AcceptFailure \/ PreparationFails \/ MarkPrepared \/ RecordPreparation
           \/ LeaveEnvironment \/ RefreshUnstarted \/ RefreshRefused \/ SkipCommands
    PROVE  Shapes'
<1>0. /\ Shapes /\ RowShape /\ EnvShape /\ HandShape /\ WorldShape
      /\ task \in Result /\ task.round \in Nat /\ task.status \in TaskStatus
      /\ resumed \in Resumable /\ outcome \in Outcome
  BY ShapesAre DEF IInv, RowShape, HandShape, Result
<1> USE NamesAreKnown
<1>1. CASE Claim
  <2>1. task' \in Result  BY <1>0, <1>1 DEF Claim, Result
  <2>2. task.resume \in Resumable  BY <1>1 DEF IInv, Placed, Claim, Terminal
  <2>3. RowShape'  BY <1>0, <1>1, <2>1, <2>2 DEF Claim, RowShape
  <2>4. EnvShape'  BY <1>0, <1>1 DEF Claim, EnvShape, ghostVars
  <2>5. HandShape'  BY <1>0, <1>1 DEF Claim, HandShape
  <2>6. RecordShape'  BY <1>0, <1>1, ShapesAre, RecordStays DEF Claim, Nothing
  <2>7. WorldShape'  BY <1>0, <1>1, WorldStays DEF Claim, SameWorld, WorldShape
  <2> QED  BY <2>3, <2>4, <2>5, <2>6, <2>7, ShapesAre
<1>2. CASE ReturnCancelled
  <2>1. RowShape'  BY <1>0, <1>2 DEF ReturnCancelled, RowShape
  <2> QED  BY <1>0, <1>2, <2>1, ControlShapes, EnvStays DEF ReturnCancelled
<1>3. CASE EnterEnvironment
  <2>1. RowShape'  BY <1>0, <1>3, MovesKeepTheRow DEF EnterEnvironment
  <2> QED  BY <1>0, <1>3, <2>1, ControlShapes, EnvStays DEF EnterEnvironment
<1>4. CASE EnvironmentRefused \/ PreparationFails
  BY <1>0, <1>4, StopOrBlockShapes DEF EnvironmentRefused, PreparationFails
<1>5. CASE ReuseEnvironment
  BY <1>0, <1>5, EnvStays, ControlKeepsTheRow DEF ReuseEnvironment
<1>6. CASE StartPreparing
  <2>1. EnvShape'  BY <1>0, <1>6 DEF StartPreparing, Invalidate, Untouched, EnvShape
  <2> QED  BY <1>0, <1>6, <2>1, ControlKeepsTheRow DEF StartPreparing
<1>7. CASE CommandsSucceed
  <2>1. EnvShape'  BY <1>0, <1>7 DEF CommandsSucceed, Install, EnvShape, storeVars
  <2> QED  BY <1>0, <1>7, <2>1, ControlKeepsTheRow DEF CommandsSucceed
<1>8. CASE CommandsFail
  BY <1>0, <1>8, EnvStays, ControlKeepsTheRow DEF CommandsFail
<1>9. CASE AcceptFailure \/ SkipCommands
  <2>1. EnvShape'
    BY <1>0, <1>9 DEF AcceptFailure, SkipCommands, AcceptUnprepared, EnvShape, storeVars
  <2> QED  BY <1>0, <1>9, <2>1, ControlKeepsTheRow DEF AcceptFailure, SkipCommands
<1>10. CASE MarkPrepared
  <2>1. EnvShape'  BY <1>0, <1>10 DEF MarkPrepared, WriteMarker, EnvShape, storeVars, ghostVars
  <2> QED  BY <1>0, <1>10, <2>1, ControlKeepsTheRow DEF MarkPrepared
<1>11. CASE RecordPreparation
  <2>1. EnvShape'  BY <1>0, <1>11 DEF RecordPreparation, RecordPrepared, EnvShape, ghostVars
  <2> QED  BY <1>0, <1>11, <2>1, ControlKeepsTheRow DEF RecordPreparation
<1>12. CASE LeaveEnvironment
  <2>1. RowShape'
    BY <1>0, <1>12, MovesKeepTheRow DEF LeaveEnvironment
  <2> QED  BY <1>0, <1>12, <2>1, ControlShapes, EnvStays DEF LeaveEnvironment
<1>13. CASE RefreshUnstarted
  BY <1>0, <1>13, EnvStays, ControlKeepsTheRow DEF RefreshUnstarted
<1>14. CASE RefreshRefused
  <2>1. RowShape'
    BY <1>0, <1>14, MovesKeepTheRow DEF RefreshRefused
  <2> QED  BY <1>0, <1>14, <2>1, ControlShapes, EnvStays DEF RefreshRefused
<1> QED
  BY <1>1, <1>2, <1>3, <1>4, <1>5, <1>6, <1>7, <1>8, <1>9, <1>10, <1>11, <1>12, <1>13, <1>14

\* Beginning a turn, and the writes of agents.
LEMMA StartShapes ==
    ASSUME Shapes, NEW phase \in Phase, StartTurn(phase), Nothing, SameWorld
    PROVE  Shapes'
<1>1. RowShape /\ HandShape /\ EnvShape /\ WorldShape  BY ShapesAre
<1>2. tree.head \in Nat  BY <1>1 DEF WorldShape, Tree
<1>3. HandShape'  BY <1>1, <1>2 DEF HandShape, StartTurn, Turn
<1>4. RowShape'  BY <1>1, NamesAreKnown DEF RowShape, StartTurn
<1>5. EnvShape'  BY <1>1, EnvStays DEF StartTurn
<1>6. WorldShape'  BY <1>1, WorldStays DEF StartTurn, SameWorld, WorldShape
<1>7. RecordShape'  BY ShapesAre, RecordStays DEF Nothing
<1> QED  BY <1>3, <1>4, <1>5, <1>6, <1>7, ShapesAre

LEMMA AgentShapes ==
    ASSUME Shapes, AgentActs \/ OrphanActs
    PROVE  Shapes'
<1>1. RowShape /\ HandShape /\ EnvShape /\ WorldShape  BY ShapesAre
<1>2. tree' \in Tree' /\ commits' \in Nat
  <2>1. ASSUME NEW effect \in Effects, tree' = Changed(effect), commits' = Made(effect)
        PROVE  tree' \in Tree' /\ commits' \in Nat
    BY <2>1, ChangesKeepTheTree DEF Tree
  <2>2. CASE UNCHANGED <<tree, commits>>  BY <1>1, <2>2 DEF WorldShape, Tree
  <2> QED  BY <2>1, <2>2 DEF AgentActs, OrphanActs
<1>3. HandShape'
  <2>1. turn' \in Turn  BY <1>1 DEF AgentActs, OrphanActs, HandShape, Turn
  <2> QED  BY <1>1, <2>1 DEF AgentActs, OrphanActs, HandShape
<1>4. RowShape'  BY <1>1 DEF RowShape, AgentActs, OrphanActs
<1>5. EnvShape'  BY <1>1, EnvStays DEF AgentActs, OrphanActs
<1>6. WorldShape'  BY <1>1, <1>2 DEF AgentActs, OrphanActs, WorldShape
<1>7. RecordShape'  BY ShapesAre, RecordStays DEF Nothing, AgentActs, OrphanActs
<1> QED  BY <1>3, <1>4, <1>5, <1>6, <1>7, ShapesAre

\* Ending a turn.
LEMMA FinishShapes ==
    ASSUME Shapes, NEW how, NEW result \in Outcome, NEW label \in Place,
           FinishTurn(how, result, label), RecordShape'
    PROVE  Shapes'
<1>1. RowShape /\ HandShape /\ EnvShape /\ WorldShape  BY ShapesAre
<1>2. NoTurn \in Turn  BY DEF NoTurn, Turn
<1>3. HandShape'  BY <1>2 DEF HandShape, FinishTurn
<1>4. RowShape'  BY <1>1 DEF RowShape, FinishTurn
<1>5. EnvShape'  BY <1>1, EnvStays DEF FinishTurn
<1>6. stops' \in Nat  BY <1>1 DEF FinishTurn, WorldShape
<1>7. cancel' \in BOOLEAN  BY <1>1 DEF FinishTurn, WorldShape
<1>8. WorldShape'  BY <1>1, <1>6, <1>7, WorldStays DEF FinishTurn
<1> QED  BY <1>3, <1>4, <1>5, <1>8, ShapesAre

LEMMA AttestedIs ==
    ASSUME Shapes, turn.phase \in {"coding", "review", "fix"}, NEW result \in Result,
           NEW base \in Nat, NEW sealed \in BOOLEAN,
           attempts' = Attested(result, base, sealed)
    PROVE  /\ attempts' \in Seq(AttemptRecord) /\ attempts' # <<>>
           /\ Len(attempts') = Len(attempts) + 1
           /\ DOMAIN attempts' = 1..(Len(attempts) + 1)
           /\ \A k \in DOMAIN attempts : attempts'[k] = attempts[k]
           /\ Last' = [phase |-> turn.phase, round |-> task.round, base |-> base,
                       commit |-> tree.head, outcome |-> result.status,
                       next |-> result.round, sealed |-> sealed]
           /\ attempts'[Len(attempts) + 1] = Last'
<1> DEFINE a == [phase |-> turn.phase, round |-> task.round, base |-> base,
                 commit |-> tree.head, outcome |-> result.status,
                 next |-> result.round, sealed |-> sealed]
<1>1. attempts \in Seq(AttemptRecord) /\ task.round \in Nat /\ tree.head \in Nat
  BY ShapesAre DEF RecordShape, RowShape, WorldShape, Result, Tree
<1>2. a \in AttemptRecord  BY <1>1 DEF AttemptRecord, Result
<1>3. attempts' = Append(attempts, a)  BY DEF Attested
<1> HIDE DEF a
<1>4. /\ attempts' \in Seq(AttemptRecord) /\ Len(attempts') = Len(attempts) + 1
      /\ Len(attempts) \in Nat
      /\ attempts'[Len(attempts) + 1] = a
      /\ DOMAIN attempts' = 1..(Len(attempts) + 1)
      /\ \A k \in DOMAIN attempts : attempts'[k] = attempts[k]
  BY <1>1, <1>2, <1>3
<1>5. attempts' # <<>>  BY <1>4
<1>6. Last' = a  BY <1>4 DEF Last
<1> QED  BY <1>4, <1>5, <1>6 DEF a

\* What a turn records follows what was recorded.
LEMMA AttestedFollows ==
    ASSUME IInv, at = "turn", turn.phase \in {"coding", "review", "fix"},
           NEW result \in Result, NEW base \in Nat, NEW sealed \in BOOLEAN,
           attempts' = Attested(result, base, sealed), LeadsTo(Last')
    PROVE  /\ Recorded' /\ attempts' # <<>>
           /\ Last'.phase = task.status /\ Last'.round = task.round
<1> DEFINE n == Len(attempts)
           a == Last'
<1>0. Shapes /\ Recorded /\ n \in Nat /\ DOMAIN attempts = 1..n
  BY DEF IInv, Shapes, PipelineTypeOK
<1>1. /\ attempts' # <<>> /\ Len(attempts') = n + 1
      /\ DOMAIN attempts' = 1..(n + 1)
      /\ \A k \in 1..n : attempts'[k] = attempts[k]
      /\ attempts'[n + 1] = a
      /\ a.phase = turn.phase /\ a.round = task.round
  BY <1>0, AttestedIs
<1>2. turn.phase = task.status  BY DEF IInv, Placed
<1>3. /\ task.round \in Nat
      /\ task.status = "coding" => attempts = <<>> /\ task.round = 0
      /\ task.status # "coding" => Due(task.status)
      /\ \A k \in DOMAIN attempts :
           attempts[k].phase # task.status \/ attempts[k].round # task.round
  BY <1>2, TurnIsDue
<1> HIDE DEF a
<1>4. \A k \in 1..(n + 1) : LeadsTo(attempts'[k])
  BY <1>0, <1>1 DEF Recorded, a
<1>5. attempts'[1].phase = "coding" /\ attempts'[1].round = 0
  <2>1. CASE attempts = <<>>
    <3>1. n = 0  BY <2>1
    <3>2. task.status = "coding"  BY <1>2, <1>3, <2>1 DEF Due
    <3> QED  BY <1>1, <1>2, <1>3, <3>1, <3>2
  <2>2. CASE attempts # <<>>
    <3>1. 1 \in 1..n  BY <1>0, <2>2
    <3> QED  BY <1>0, <1>1, <2>2, <3>1 DEF Recorded
  <2> QED  BY <2>1, <2>2
<1>6. n > 0 => Follows(attempts[n], a)
  <2> SUFFICES ASSUME n > 0  PROVE Follows(attempts[n], a)  OBVIOUS
  <2>1. attempts # <<>>  BY <1>0
  <2> QED  BY <1>1, <1>2, <1>3, <2>1 DEF Due, Last, Follows
<1>7. \A k \in 1..(n + 1) : k > 1 => Follows(attempts'[k - 1], attempts'[k])
  <2> SUFFICES ASSUME NEW k \in 1..(n + 1), k > 1
               PROVE  Follows(attempts'[k - 1], attempts'[k])
    OBVIOUS
  <2>1. CASE k = n + 1
    <3>1. k - 1 = n /\ n \in 1..n  BY <1>0, <2>1
    <3> QED  BY <1>1, <1>6, <2>1, <3>1
  <2>2. CASE k # n + 1
    <3>1. k \in 1..n /\ k - 1 \in 1..n  BY <1>0, <2>2
    <3> QED  BY <1>0, <1>1, <3>1 DEF Recorded
  <2> QED  BY <2>1, <2>2
<1>8. \A j \in 1..n : attempts[j].round <= task.round
  <2> SUFFICES ASSUME NEW j \in 1..n  PROVE attempts[j].round <= task.round  OBVIOUS
  <2>1. n \in 1..n /\ n > 0  BY <1>0
  <2>2. attempts[j].round <= attempts[n].round  BY <1>0, <2>1 DEF Recorded
  <2>3. attempts[j].round \in Nat /\ attempts[n].round \in Nat /\ attempts[n].next \in Nat
        /\ attempts[n].phase \in {"coding", "review", "fix"}
    BY <1>0, <2>1, AttemptsAreRecords
  <2>4. LeadsTo(attempts[n])  BY <1>0, <2>1 DEF Recorded
  <2>5. attempts[n].next = task.round /\ attempts[n].outcome = turn.phase
    BY <1>1, <1>6, <2>1 DEF Follows
  <2>6. attempts[n].round <= task.round
    BY <2>3, <2>4, <2>5 DEF LeadsTo
  <2> QED  BY <1>3, <2>2, <2>3, <2>6
<1>9. \A j, k \in 1..(n + 1) : j <= k => attempts'[j].round <= attempts'[k].round
  <2> SUFFICES ASSUME NEW j \in 1..(n + 1), NEW k \in 1..(n + 1), j <= k
               PROVE  attempts'[j].round <= attempts'[k].round
    OBVIOUS
  <2>1. CASE k # n + 1
    <3>1. j \in 1..n /\ k \in 1..n  BY <1>0, <2>1
    <3> QED  BY <1>0, <1>1, <3>1 DEF Recorded
  <2>2. CASE k = n + 1 /\ j # n + 1
    <3>1. j \in 1..n  BY <1>0, <2>2
    <3> QED  BY <1>1, <1>8, <2>2, <3>1
  <2>3. CASE k = n + 1 /\ j = n + 1
    BY <1>1, <1>3, <2>3
  <2> QED  BY <2>1, <2>2, <2>3
<1>10. \A j, k \in 1..(n + 1) :
         /\ attempts'[j].phase = attempts'[k].phase
         /\ attempts'[j].round = attempts'[k].round
         => j = k
  <2> SUFFICES ASSUME NEW j \in 1..(n + 1), NEW k \in 1..(n + 1),
                      attempts'[j].phase = attempts'[k].phase,
                      attempts'[j].round = attempts'[k].round
               PROVE  j = k
    OBVIOUS
  <2>1. CASE j \in 1..n /\ k \in 1..n
    BY <1>0, <1>1, <2>1 DEF Recorded, CompletedTurnsAreNotRepeated
  <2>2. CASE j = n + 1 \/ k = n + 1
    BY <1>0, <1>1, <1>2, <1>3, <2>2
  <2> QED  BY <1>0, <2>1, <2>2
<1>11. Recorded'
  BY <1>1, <1>4, <1>5, <1>7, <1>9, <1>10 DEF Recorded, CompletedTurnsAreNotRepeated
<1> QED  BY <1>1, <1>2, <1>11 DEF a

\* Where nothing is recorded, what was recorded stands.
LEMMA RecordStands ==
    ASSUME Recorded, UNCHANGED attempts
    PROVE  Recorded' /\ Last' = Last /\ DeclaredCommit' = DeclaredCommit
<1>1. Recorded'  BY DEF Recorded, CompletedTurnsAreNotRepeated
<1>2. Last' = Last  BY DEF Last
<1>3. Declaring' = Declaring  BY DEF Declaring
<1>4. \A k : DeclaredBy(k)' <=> DeclaredBy(k)  BY <1>3 DEF DeclaredBy
<1>5. DeclaredCommit' = DeclaredCommit  BY <1>3, <1>4 DEF DeclaredCommit, DeclaredBy
<1> QED  BY <1>1, <1>2, <1>5
---------------------------------------------------------------------------------
\* A review reconciled: the ledger keeps its rows, in their places.
LEMMA DeclarationsAre ==
    ASSUME NEW d \in Declarations
    PROVE  /\ d.fresh = <<>> \/ d.fresh # <<>>
           /\ d.repeats \subseteq DOMAIN ledger /\ d.resolved \subseteq Open(ledger)
           /\ \E n \in Nat : d.fresh \in [1..n -> FreshFinding]
<1>1. d.repeats \subseteq DOMAIN ledger /\ d.resolved \subseteq Open(ledger)
      /\ d.fresh \in Batches
  BY DEF Declarations
<1>2. \E n \in Nat : d.fresh \in [1..n -> FreshFinding]
  <2>1. PICK n \in 0..MaxFresh : d.fresh \in [1..n -> FreshFinding]
    BY <1>1 DEF Batches
  <2> QED  BY <2>1, PipelineAssumption
<1> QED  BY <1>1, <1>2

LEMMA FunctionIsSequence ==
    ASSUME NEW S, NEW n \in Nat, NEW f \in [1..n -> S]
    PROVE  f \in Seq(S) /\ Len(f) = n
OBVIOUS

LEMMA ConcatenationIs ==
    ASSUME NEW S, NEW s \in Seq(S), NEW t \in Seq(S)
    PROVE  LET c == s \o t
           IN  /\ c \in Seq(S) /\ DOMAIN c = 1..(Len(s) + Len(t))
               /\ \A i \in 1..Len(s) : c[i] = s[i]
               /\ \A i \in (Len(s) + 1)..(Len(s) + Len(t)) : c[i] = t[i - Len(s)]
OBVIOUS

LEMMA Reconciled ==
    ASSUME Shapes, NEW d \in Declarations, NEW approved \in BOOLEAN
    PROVE  LET after == Reconcile(ledger, d, LedgerRound, approved)
           IN  /\ after \in Seq(Row)
               /\ \A i \in Open(after) : after[i].last = LedgerRound
               /\ approved => Open(after) = {}
               /\ ~approved /\ (d.repeats # {} \/ d.fresh # <<>>) => Open(after) # {}
<1> DEFINE after == Reconcile(ledger, d, LedgerRound, approved)
           st(i) == IF approved THEN "resolved"
                    ELSE IF i \in d.repeats THEN "regressed"
                    ELSE IF i \in d.resolved THEN "resolved" ELSE "open"
           closed(i) == ledger[i].status = "resolved" /\ i \notin d.repeats
           old == [i \in DOMAIN ledger |->
                     IF closed(i) THEN ledger[i]
                     ELSE [ledger[i] EXCEPT !.status = st(i), !.last = LedgerRound]]
           new == [k \in DOMAIN d.fresh |->
                     [status |-> IF approved THEN "resolved"
                                 ELSE IF d.fresh[k].claimed THEN "regressed" ELSE "open",
                      first |-> LedgerRound, last |-> LedgerRound,
                      severity |-> d.fresh[k].severity]]
           m == Len(ledger)
<1>0. /\ ledger \in Seq(Row) /\ m \in Nat /\ DOMAIN ledger = 1..m
      /\ LedgerRound \in Nat
  BY DEF Shapes, PipelineTypeOK, LedgerRound
<1>1. PICK n \in Nat : d.fresh \in [1..n -> FreshFinding]  BY DeclarationsAre
<1>2. d.repeats \subseteq 1..m  BY <1>0, DeclarationsAre
<1>3. after = old \o new  BY DEF Reconcile
<1>4. \A i : st(i) \in FindingStatus  BY DEF FindingStatus
<1>5. \A i \in 1..m : ledger[i] \in Row  BY <1>0
<1> HIDE DEF st
<1>6. old \in Seq(Row) /\ Len(old) = m
  <2>1. \A i \in 1..m : [ledger[i] EXCEPT !.status = st(i), !.last = LedgerRound] \in Row
    BY <1>0, <1>4, <1>5 DEF Row
  <2>2. old \in [1..m -> Row]  BY <1>0, <1>5, <2>1
  <2> HIDE DEF old, m
  <2> QED  BY <1>0, <2>2, FunctionIsSequence
<1>7. new \in Seq(Row) /\ Len(new) = n
  <2>1. \A k \in 1..n : d.fresh[k].severity \in Severity  BY <1>1 DEF FreshFinding
  <2>2. new \in [1..n -> Row]
    BY <1>0, <1>1, <2>1 DEF Row, FindingStatus
  <2> QED  BY <2>2
<1>8. /\ after \in Seq(Row) /\ DOMAIN after = 1..(m + n)
      /\ \A i \in 1..m : after[i] = old[i]
      /\ \A i \in (m + 1)..(m + n) : after[i] = new[i - m]
  <2> HIDE DEF old, new, after, m
  <2> QED  BY <1>0, <1>1, <1>3, <1>6, <1>7, ConcatenationIs
<1>9. \A i \in 1..m :
        /\ closed(i) => after[i] = ledger[i]
        /\ ~closed(i) => after[i].status = st(i) /\ after[i].last = LedgerRound
  <2> SUFFICES ASSUME NEW i \in 1..m
               PROVE  /\ closed(i) => after[i] = ledger[i]
                      /\ ~closed(i) => after[i].status = st(i) /\ after[i].last = LedgerRound
    OBVIOUS
  <2>1. after[i] = IF closed(i) THEN ledger[i]
                   ELSE [ledger[i] EXCEPT !.status = st(i), !.last = LedgerRound]
    BY <1>0, <1>8
  <2>2. ledger[i] \in Row  BY <1>5
  <2> QED  BY <2>1, <2>2 DEF Row
<1>10. \A i \in (m + 1)..(m + n) :
         /\ after[i].last = LedgerRound
         /\ after[i].status = "resolved" <=> approved
  <2> SUFFICES ASSUME NEW i \in (m + 1)..(m + n)
               PROVE  /\ after[i].last = LedgerRound
                      /\ after[i].status = "resolved" <=> approved
    OBVIOUS
  <2>1. i - m \in 1..n  BY <1>0
  <2>2. after[i] = new[i - m]  BY <1>8
  <2>3. i - m \in DOMAIN d.fresh  BY <1>1, <2>1
  <2> QED  BY <2>2, <2>3
<1> HIDE DEF after, old, new
<1>11. \A i \in DOMAIN after : i \in 1..m \/ i \in (m + 1)..(m + n)
  BY <1>0, <1>1, <1>8
<1>12. \A i \in Open(after) : after[i].last = LedgerRound
  BY <1>9, <1>10, <1>11 DEF Open
<1>13. approved => Open(after) = {}
  BY <1>9, <1>10, <1>11 DEF Open, st
<1>14. ASSUME ~approved, d.repeats # {} \/ d.fresh # <<>>  PROVE Open(after) # {}
  <2>1. CASE d.repeats # {}
    <3>1. PICK i \in d.repeats : i \in 1..m  BY <1>2, <2>1
    <3>2. after[i].status = "regressed"  BY <1>9, <1>14, <3>1 DEF st
    <3>3. i \in DOMAIN after  BY <1>0, <1>8, <3>1
    <3> QED  BY <3>2, <3>3 DEF Open
  <2>2. CASE d.fresh # <<>>
    <3>1. n # 0
      <4>1. ASSUME n = 0  PROVE d.fresh = <<>>
        <5>1. 1..n = {}  BY <4>1
        <5>2. d.fresh \in [{} -> FreshFinding]  BY <1>1, <5>1
        <5> QED  BY <5>2
      <4> QED  BY <2>2, <4>1
    <3>2. m + 1 \in (m + 1)..(m + n)  BY <1>0, <1>1, <3>1
    <3>3. m + 1 \in DOMAIN after  BY <1>0, <1>1, <1>8, <3>1
    <3>4. after[m + 1].status # "resolved"  BY <1>10, <1>14, <3>2
    <3> QED  BY <3>3, <3>4 DEF Open
  <2> QED  BY <1>14, <2>1, <2>2
<1> QED  BY <1>8, <1>12, <1>13, <1>14 DEF after

\* What is open of a ledger can be counted.
LEMMA OpenIsCounted ==
    ASSUME NEW s \in Seq(Row)
    PROVE  IsFiniteSet(Open(s)) /\ Cardinality(Open(s)) \in Nat
           /\ (Open(s) # {} => Cardinality(Open(s)) > 0)
<1>1. DOMAIN s = 1..Len(s) /\ Len(s) \in Nat  OBVIOUS
<1>2. IsFiniteSet(1..Len(s))  BY <1>1, FS_Interval
<1>3. Open(s) \subseteq 1..Len(s)  BY <1>1 DEF Open
<1>4. IsFiniteSet(Open(s))  BY <1>2, <1>3, FS_Subset
<1> QED  BY <1>4, FS_CardinalityType, FS_EmptySet

LEMMA AssessmentIsRecord ==
    ASSUME Shapes, NEW after \in Seq(Row)
    PROVE  /\ Assessment(after) \in AssessmentRecord
           /\ Assessment(after).round = task.round + 1
           /\ Assessment(after).minimum = MinRounds
           /\ Assessment(after).open = Cardinality(Open(after))
           /\ (Assessment(after).refunded = "inside") <=> task.round + 1 <= MinRounds
<1>1. task.round \in Nat  BY DEF Shapes, PipelineTypeOK
<1>2. Cardinality(Open(after)) \in Nat  BY OpenIsCounted
<1>3. Converging(after) \in BOOLEAN  BY DEF Converging
<1> DEFINE open == Cardinality(Open(after))
           r == SnapshotRefund(LedgerRound, MinRounds, open, assessments)
<1>4. r \in RefundRecorded /\ ((r = "inside") <=> LedgerRound <= MinRounds)
  BY DEF SnapshotRefund, RefundRecorded
<1>5. Assessment(after) = [round |-> LedgerRound, minimum |-> MinRounds, open |-> open,
                           refunded |-> r, converging |-> Converging(after)]
  BY DEF Assessment
<1> HIDE DEF r, open
<1>6. open \in Nat  BY <1>2 DEF open
<1> QED
  BY <1>1, <1>3, <1>4, <1>5, <1>6, PipelineAssumption DEF AssessmentRecord, LedgerRound, open
LEMMA RoutingShapes ==
    ASSUME IInv,
           \/ RouteToCoding \/ RouteToReview \/ RestoreLaterPhase \/ ApplyOutcome
           \/ CodingRefused \/ ResumeCoding \/ LoopRefused \/ ResumeLoop
           \/ MergePhase \/ WorkerSettled
    PROVE  Shapes'
<1>0. /\ Shapes /\ RowShape /\ EnvShape /\ HandShape
      /\ task \in Result /\ task.round \in Nat /\ task.status \in TaskStatus
      /\ resumed \in Resumable /\ outcome \in Outcome /\ NoOutcome \in Outcome
  BY ShapesAre, RestsAreOutcomes DEF IInv, RowShape, HandShape, Result
<1> USE NamesAreKnown
<1>1. CASE RouteToCoding
  BY <1>0, <1>1, EnvStays, ControlKeepsTheRow DEF RouteToCoding
<1>2. CASE RouteToReview
  <2>1. RowShape'  BY <1>0, <1>2, MovesKeepTheRow DEF RouteToReview
  <2> QED  BY <1>0, <1>2, <2>1, ControlShapes, EnvStays DEF RouteToReview
<1>3. CASE RestoreLaterPhase
  <2>1. RowShape'  BY <1>0, <1>3, MovesKeepTheRow DEF RestoreLaterPhase
  <2> QED  BY <1>0, <1>3, <2>1, ControlShapes, EnvStays DEF RestoreLaterPhase
<1>4. CASE ApplyOutcome
  <2>1. task' \in Result
    <3>1. CASE outcome.status = task.status  BY <1>0, <1>4, <3>1 DEF ApplyOutcome
    <3>2. CASE outcome.status # task.status
      <4>1. outcome.status \in TaskStatus /\ outcome.resume \in TaskStatus
            /\ outcome.round \in Nat
        BY <1>4 DEF ApplyOutcome, IInv, Positioned, InHand, Result
      <4> QED  BY <1>4, <3>2, <4>1 DEF ApplyOutcome, Move, Result
    <3> QED  BY <3>1, <3>2
  <2>2. RowShape'  BY <1>0, <1>4, <2>1 DEF ApplyOutcome, RowShape
  <2> QED  BY <1>0, <1>4, <2>2, ControlShapes, EnvStays DEF ApplyOutcome
<1>5. CASE CodingRefused \/ LoopRefused
  BY <1>0, <1>5, BlockShapes DEF CodingRefused, LoopRefused
<1>6. CASE ResumeCoding
  <2>1. outcome' \in Outcome
    <3>1. PICK k \in DOMAIN attempts :
            outcome' = Blocked \/ outcome' = Onward(attempts[k].outcome)
      BY <1>6 DEF ResumeCoding, CodedAttempts
    <3>2. attempts[k].outcome \in TaskStatus  BY <1>0, AttemptsAreRecords
    <3> QED  BY <1>0, <3>1, <3>2, RestsAreOutcomes DEF Onward, Outcome
  <2>2. RowShape'  BY <1>0, <1>6 DEF ResumeCoding, RowShape
  <2> QED  BY <1>0, <1>6, <2>1, <2>2, ControlShapes, EnvStays DEF ResumeCoding
<1>7. CASE ResumeLoop
  <2>1. PICK k \in DOMAIN attempts :
          \/ Move(attempts[k].outcome,
                  IF attempts[k].outcome = "blocked" THEN attempts[k].phase
                  ELSE attempts[k].outcome, attempts[k].next)
          \/ Move("blocked", task.status, task.round)
    BY <1>7 DEF ResumeLoop, CompletedHere
  <2>2. attempts[k].outcome \in TaskStatus /\ attempts[k].next \in Nat
        /\ attempts[k].phase \in TaskStatus
    BY <1>0, AttemptsAreRecords
  <2>3. task' \in Result  BY <1>0, <2>1, <2>2 DEF Move, Result
  <2>4. RowShape'  BY <1>0, <1>7, <2>3 DEF ResumeLoop, RowShape
  <2> QED  BY <1>0, <1>7, <2>4, ControlShapes, EnvStays DEF ResumeLoop
<1>8. CASE MergePhase
  <2>1. PICK status \in Terminal : Move(status, status, task.round)  BY <1>8 DEF MergePhase
  <2>2. RowShape'  BY <1>0, <1>8, <2>1, MovesKeepTheRow DEF MergePhase
  <2> QED  BY <1>0, <1>8, <2>2, ControlShapes, EnvStays DEF MergePhase
<1>9. CASE WorkerSettled
  <2>1. task' \in Result
    BY <1>0, <1>9 DEF WorkerSettled, Requeue, Move, Result
  <2>2. RowShape'  BY <1>0, <1>9, <2>1 DEF WorkerSettled, RowShape
  <2> QED  BY <1>0, <1>9, <2>2, ControlShapes, EnvStays DEF WorkerSettled
<1> QED  BY <1>1, <1>2, <1>3, <1>4, <1>5, <1>6, <1>7, <1>8, <1>9

LEMMA StoppingShapes ==
    ASSUME IInv, UserStops \/ Crash \/ Lose
    PROVE  Shapes'
<1>0. /\ Shapes /\ RowShape /\ EnvShape /\ HandShape /\ WorldShape
      /\ task \in Result /\ NoOutcome \in Outcome
  BY ShapesAre, RestsAreOutcomes DEF IInv, RowShape
<1> USE NamesAreKnown
<1>1. RecordShape'  BY <1>0, ShapesAre, RecordStays DEF UserStops, Crash, Lose, Nothing
<1>2. CASE UserStops
  <2>1. RowShape' /\ HandShape'  BY <1>0, <1>2 DEF UserStops, RowShape, HandShape
  <2>2. WorldShape'
    <3>1. stops' \in Nat /\ cancel' \in BOOLEAN  BY <1>0, <1>2 DEF UserStops, WorldShape
    <3> QED  BY <1>0, <1>2, <3>1, WorldStays DEF UserStops
  <2> QED  BY <1>0, <1>1, <1>2, <2>1, <2>2, EnvStays, ShapesAre DEF UserStops
<1>3. CASE Crash
  <2>1. task' \in Result  BY <1>0, <1>3 DEF Crash, Requeue, Result
  <2>2. NoTurn \in Turn  BY DEF NoTurn, Turn
  <2>3. RowShape' /\ HandShape'  BY <1>0, <1>3, <2>1, <2>2 DEF Crash, RowShape, HandShape
  <2>4. stops' \in Nat  BY <1>0, <1>3 DEF Crash, WorldShape
  <2>5. orphan' \in BOOLEAN  BY <1>0, <1>3 DEF Crash, WorldShape, HandShape, Turn
  <2>6. WorldShape'  BY <1>0, <1>3, <2>4, <2>5 DEF Crash, WorldShape, Tree
  <2>7. EnvShape'  BY <1>0, <1>3, EnvStays DEF Crash
  <2> QED  BY <1>1, <2>3, <2>6, <2>7, ShapesAre
<1>4. CASE Lose
  <2>1. task' \in Result  BY <1>0, <1>4 DEF Lose, Requeue, Result
  <2>2. RowShape' /\ HandShape'  BY <1>0, <1>4, <2>1 DEF Lose, RowShape, HandShape
  <2>3. stops' \in Nat  BY <1>0, <1>4 DEF Lose, WorldShape
  <2>4. WorldShape'  BY <1>0, <1>4, <2>3 DEF Lose, WorldShape, Tree
  <2>5. GoesOn[at] \in {"environment", "preparing", "marking"}  BY <1>4 DEF Lose, GoesOn
  <2>6. EnvShape'  BY <1>0, <1>4, <2>5 DEF Lose, Outlive, EnvShape, storeVars
  <2> QED  BY <1>1, <2>2, <2>4, <2>6, ShapesAre
<1> QED  BY <1>2, <1>3, <1>4
---------------------------------------------------------------------------------
\* The turns that are completed: without an attempt to show for it, with one that
\* leads on or ends the task, or with a verdict.
Unfinished(how, result) ==
    /\ UNCHANGED <<attempts, ledger, assessments>>
    /\ \/ result.status \in {"blocked", "failed"}
       \/ result = Stay
Recording(how, result) ==
    /\ UNCHANGED <<ledger, assessments>>
    /\ \E base \in Nat, sealed \in BOOLEAN :
         /\ attempts' = Attested(result, base, sealed)
         /\ \/ result.status \in {"blocked", "failed"}
            \/ /\ turn.phase \in {"coding", "fix"}
               /\ result = Onward("review")
               /\ turn.phase = "coding" => tree.head # base
Reviewing(how, result) ==
    /\ turn.phase = "review" /\ ~Wrote
    /\ \E verdict \in {"approved", "issues_found"}, d \in Declarations, sealed \in BOOLEAN,
          base \in Nat :
         LET after == Reconcile(ledger, d, LedgerRound, verdict = "approved")
         IN  /\ Sound(verdict, d)
             /\ result = IF sealed THEN ReviewOutcome(verdict, Assessment(after)) ELSE Blocked
             /\ attempts' = Attested(result, base, sealed)
             /\ ledger' = after
             /\ assessments' = Append(assessments, Assessment(after))

LEMMA TurnsAreCompleted ==
    ASSUME IInv, FinishCoding \/ FinishReview \/ FinishFix
    PROVE  /\ at = "turn" /\ turn.phase = task.status
           /\ turn.phase \in {"coding", "review", "fix"}
           /\ notes' = notes
           /\ \E how : \E result \in Result :
                /\ FinishTurn(how, result, "outcome")
                /\ \/ Unfinished(how, result)
                   \/ Recording(how, result)
                   \/ Reviewing(how, result)
<1>0. Shapes /\ Recorded /\ turn \in Turn /\ tree.head \in Nat
      /\ Blocked \in Result /\ Blocked.status = "blocked"
  BY ShapesAre, RestsAreOutcomes DEF IInv, HandShape, WorldShape, Tree, Result
<1>1. /\ at = "turn" /\ turn.phase = task.status
      /\ turn.phase \in {"coding", "review", "fix"}
  BY DEF IInv, Placed, FinishCoding, FinishReview, FinishFix
<1>2. turn.phase \in {"review", "fix"} => DeclaredBase \in Nat
  <2> SUFFICES ASSUME turn.phase \in {"review", "fix"}  PROVE DeclaredBase \in Nat  OBVIOUS
  <2>1. Due(turn.phase)  BY <1>1, TurnIsDue
  <2> QED  BY <1>0, <2>1, FirstDeclares DEF Due
<1>3. turn.base \in Nat  BY <1>0 DEF Turn
<1>4. {"failed", "cancelled", "error"} = Ended
      /\ {"reviewable", "unreviewable", "gave up", "error"} = Returned
  BY DEF Ended, Returned
<1> DEFINE Goal == /\ notes' = notes
                   /\ \E how : \E result \in Result :
                        /\ FinishTurn(how, result, "outcome")
                        /\ \/ Unfinished(how, result)
                           \/ Recording(how, result)
                           \/ Reviewing(how, result)
<1>5. ASSUME NEW how, NEW result \in Result, notes' = notes,
             FinishTurn(how, result, "outcome"),
             Unfinished(how, result) \/ Recording(how, result) \/ Reviewing(how, result)
      PROVE  Goal
  BY <1>5
<1>g. SUFFICES Goal  BY <1>1
<1> HIDE DEF Goal
<1>6. CASE FinishCoding
  <2>1. ASSUME NEW how \in Ended, FinishTurn(how, CodingOutcome(how), "outcome"), Nothing
        PROVE  Goal
    <3>1. CodingOutcome(how) \in Result /\ Unfinished(how, CodingOutcome(how))
      BY <1>0, <1>4, <2>1, CodingOutcomes DEF Unfinished, Nothing
    <3> QED  BY <1>5, <2>1, <3>1 DEF Nothing
  <2>2. ASSUME NEW how \in Returned, NEW sealed \in BOOLEAN, NEW result,
               result = IF sealed THEN CodingOutcome(how) ELSE Blocked,
               FinishTurn(how, result, "outcome"),
               attempts' = Attested(result, turn.base, sealed),
               UNCHANGED <<ledger, assessments, notes>>
        PROVE  Goal
    <3> DEFINE r == CodingOutcome(how)
    <3>0. /\ r \in Result
          /\ r.status \in {"blocked", "failed"}
               \/ (r = Onward("review") /\ tree.head # turn.base)
      BY <1>0, <1>4, <2>2, CodingOutcomes
    <3> HIDE DEF r
    <3>1. /\ result \in Result
          /\ result.status \in {"blocked", "failed"}
               \/ (result = Onward("review") /\ tree.head # turn.base)
      BY <1>0, <2>2, <3>0 DEF r
    <3>2. turn.phase = "coding"  BY <1>6 DEF FinishCoding
    <3>3. Recording(how, result)  BY <1>3, <2>2, <3>1, <3>2 DEF Recording
    <3> QED  BY <1>5, <2>2, <3>1, <3>3
  <2> QED  BY <1>6, <2>1, <2>2 DEF FinishCoding
<1>7. CASE FinishFix
  <2>0. turn.phase = "fix"  BY <1>7 DEF FinishFix
  <2>1. ASSUME NEW how \in Ended, FinishTurn(how, FixOutcome(how), "outcome"), Nothing
        PROVE  Goal
    <3>1. FixOutcome(how) \in Result /\ Unfinished(how, FixOutcome(how))
      BY <1>0, <1>4, <2>1, FixOutcomes DEF Unfinished, Nothing
    <3> QED  BY <1>5, <2>1, <3>1 DEF Nothing
  <2>2. ASSUME NEW how \in Returned, NEW sealed \in BOOLEAN, NEW result,
               result = IF sealed THEN FixOutcome(how) ELSE Blocked,
               FinishTurn(how, result, "outcome"),
               attempts' = Attested(result, DeclaredBase, sealed),
               UNCHANGED <<ledger, assessments, notes>>
        PROVE  Goal
    <3> DEFINE r == FixOutcome(how)
    <3>0. r \in Result /\ (r.status \in {"blocked", "failed"} \/ r = Onward("review"))
      BY <1>0, <1>4, <2>2, FixOutcomes
    <3> HIDE DEF r
    <3>1. /\ result \in Result
          /\ result.status \in {"blocked", "failed"} \/ result = Onward("review")
      BY <1>0, <2>2, <3>0 DEF r
    <3>2. Recording(how, result)  BY <1>2, <2>0, <2>2, <3>1 DEF Recording
    <3> QED  BY <1>5, <2>2, <3>1, <3>2
  <2> QED  BY <1>7, <2>1, <2>2 DEF FinishFix
<1>8. CASE FinishReview
  <2>0. turn.phase = "review"  BY <1>8 DEF FinishReview
  <2>1. ASSUME NEW how \in Ended, FinishTurn(how, ReviewWithoutVerdict(how), "outcome"),
               Nothing
        PROVE  Goal
    <3>1. ReviewWithoutVerdict(how) \in Result /\ Unfinished(how, ReviewWithoutVerdict(how))
      BY <1>0, <2>1, UnreviewedOutcomes DEF Unfinished, Nothing
    <3> QED  BY <1>5, <2>1, <3>1 DEF Nothing
  <2>2. ASSUME NEW how \in {"gave up", "unusable", "error"},
               FinishTurn(how, ReviewWithoutVerdict(how), "outcome"),
               attempts' = Attested(ReviewWithoutVerdict(how), DeclaredBase, TRUE),
               UNCHANGED <<ledger, assessments, notes>>
        PROVE  Goal
    <3>1. /\ ReviewWithoutVerdict(how) \in Result
          /\ ReviewWithoutVerdict(how).status \in {"blocked", "failed"}
      BY <1>0, <2>2, UnreviewedOutcomes
    <3>2. Recording(how, ReviewWithoutVerdict(how))
      BY <1>2, <2>0, <2>2, <3>1 DEF Recording
    <3> QED  BY <1>5, <2>2, <3>1, <3>2
  <2>3. ASSUME ~Wrote, NEW verdict \in {"approved", "issues_found"}, NEW d \in Declarations,
               NEW sealed \in BOOLEAN, Sound(verdict, d), RecordReview(verdict, d, sealed)
        PROVE  Goal
    <3> DEFINE after == Reconcile(ledger, d, LedgerRound, verdict = "approved")
               result == IF sealed THEN ReviewOutcome(verdict, Assessment(after)) ELSE Blocked
    <3>1. result \in Result  BY <1>0, VerdictsAreOutcomes
    <3>2. /\ FinishTurn("reviewed", result, "outcome")
          /\ attempts' = Attested(result, DeclaredBase, sealed)
          /\ ledger' = after
          /\ assessments' = Append(assessments, Assessment(after))
          /\ notes' = notes
      BY <2>3 DEF RecordReview
    <3>3. Reviewing("reviewed", result)  BY <1>2, <2>0, <2>3, <3>2 DEF Reviewing
    <3> HIDE DEF result
    <3> QED  BY <1>5, <3>1, <3>2, <3>3
  <2> QED  BY <1>8, <2>1, <2>2, <2>3 DEF FinishReview
<1> QED  BY <1>6, <1>7, <1>8

LEMMA TurnShapes ==
    ASSUME IInv,
           \/ StartCoding \/ StartReview \/ StartSteering \/ StartFix
           \/ AssembleNote \/ FinishSteering
           \/ FinishCoding \/ FinishReview \/ FinishFix
    PROVE  Shapes'
<1>0. /\ Shapes /\ RowShape /\ EnvShape /\ HandShape /\ RecordShape
      /\ {Blocked, NoOutcome} \subseteq Outcome
  BY ShapesAre, RestsAreOutcomes DEF IInv
<1> USE NamesAreKnown
<1>1. CASE StartCoding \/ StartReview \/ StartSteering \/ StartFix
  <2>1. PICK phase \in Phase : StartTurn(phase) /\ Nothing /\ SameWorld
    BY <1>1 DEF StartCoding, StartReview, StartSteering, StartFix, Phase
  <2> QED  BY <1>0, <2>1, StartShapes
<1>2. ASSUME StuckRound(assessments)  PROVE Verdict \in Nat
  <2>1. Len(assessments) \in DOMAIN assessments /\ assessments \in Seq(AssessmentRecord)
    BY <1>0, <1>2 DEF StuckRound, RecordShape
  <2>2. assessments[Len(assessments)] \in AssessmentRecord  BY <2>1
  <2> QED  BY <2>2 DEF Verdict, AssessmentRecord
<1>3. CASE AssembleNote
  <2>1. notes' \subseteq Nat
    BY <1>0, <1>2, <1>3 DEF AssembleNote, NeedsNote, RecordShape
  <2>2. RecordShape'  BY <1>0, <1>3, <2>1 DEF AssembleNote, RecordShape
  <2>3. RowShape' /\ HandShape'  BY <1>0, <1>3 DEF AssembleNote, RowShape, HandShape
  <2>4. WorldShape'  BY <1>0, <1>3, ShapesAre, WorldStays DEF AssembleNote, SameWorld, WorldShape
  <2> QED  BY <1>0, <1>3, <2>2, <2>3, <2>4, EnvStays, ShapesAre DEF AssembleNote
<1>4. CASE FinishSteering
  <2>1. PICK how \in Ended \cup {"note"}, breach \in BOOLEAN :
          FinishTurn(how, IF breach THEN Blocked ELSE NoOutcome,
                     IF breach THEN "outcome" ELSE IF cancel THEN "returned" ELSE "steered")
    BY <1>4 DEF FinishSteering
  <2>2. notes' \subseteq notes \cup {Verdict}
    BY <1>4 DEF FinishSteering
  <2>3. StuckRound(assessments)
    BY <1>4 DEF FinishSteering, IInv, Reviewed
  <2>4. notes' \subseteq Nat  BY <1>0, <1>2, <2>2, <2>3 DEF RecordShape
  <2>5. RecordShape'  BY <1>0, <1>4, <2>4 DEF FinishSteering, RecordShape
  <2> QED  BY <1>0, <2>1, <2>5, FinishShapes
<1>5. CASE FinishCoding \/ FinishReview \/ FinishFix
  <2>0. turn.phase \in {"coding", "review", "fix"} /\ notes' = notes  BY <1>5, TurnsAreCompleted
  <2>1. PICK how, result :
          /\ result \in Result
          /\ FinishTurn(how, result, "outcome")
          /\ Unfinished(how, result) \/ Recording(how, result) \/ Reviewing(how, result)
    BY <1>5, TurnsAreCompleted
  <2>2. result \in Outcome  BY <2>1 DEF Result, Outcome
  <2>3. RecordShape'
    <3>1. CASE Unfinished(how, result)  BY <1>0, <2>0, <3>1, RecordStays DEF Unfinished
    <3>2. CASE Recording(how, result)
      <4>1. attempts' \in Seq(AttemptRecord)
        BY <1>0, <2>0, <2>1, <3>2, AttestedIs DEF Recording
      <4> QED  BY <1>0, <2>0, <3>2, <4>1 DEF Recording, RecordShape
    <3>3. CASE Reviewing(how, result)
      <4>1. PICK approved \in BOOLEAN, d \in Declarations, sealed \in BOOLEAN, base \in Nat :
              /\ attempts' = Attested(result, base, sealed)
              /\ ledger' = Reconcile(ledger, d, LedgerRound, approved)
              /\ assessments' = Append(assessments, Assessment(ledger'))
        <5>1. PICK verdict \in {"approved", "issues_found"}, d \in Declarations,
                   sealed \in BOOLEAN, base \in Nat :
                /\ attempts' = Attested(result, base, sealed)
                /\ ledger' = Reconcile(ledger, d, LedgerRound, verdict = "approved")
                /\ assessments' = Append(assessments, Assessment(ledger'))
          BY <3>3 DEF Reviewing
        <5>2. (verdict = "approved") \in BOOLEAN  OBVIOUS
        <5> QED  BY <5>1, <5>2
      <4>2. attempts' \in Seq(AttemptRecord)  BY <1>0, <2>0, <2>1, <4>1, AttestedIs
      <4>3. ledger' \in Seq(Row)  BY <1>0, <4>1, Reconciled
      <4>4. Assessment(ledger') \in AssessmentRecord  BY <1>0, <4>3, AssessmentIsRecord
      <4>5. assessments' \in Seq(AssessmentRecord)  BY <1>0, <4>1, <4>4 DEF RecordShape
      <4> QED  BY <1>0, <2>0, <4>2, <4>3, <4>5 DEF RecordShape
    <3> QED  BY <2>1, <3>1, <3>2, <3>3
  <2> QED  BY <1>0, <2>1, <2>2, <2>3, FinishShapes
<1> QED  BY <1>1, <1>3, <1>4, <1>5

\* The steps of everyone but a process without a lease, which leaves all but the
\* checkout alone.
Step ==
    \/ Claim \/ Worker
    \/ AgentActs \/ OrphanActs \/ UserStops
    \/ Crash \/ Lose

LEMMA NextShapes ==
    ASSUME IInv, Step
    PROVE  Shapes'
BY EnvironmentShapes, RoutingShapes, TurnShapes, AgentShapes, StoppingShapes
   DEF Step, Worker, OwnStep, Awaited, IInv

---------------------------------------------------------------------------------
\* What the row waits for has not been completed, or it is the last attempt.
LEMMA DueIsNotCompleted ==
    ASSUME IInv, task.status \in {"review", "fix"}, Due(task.status)
    PROVE  CompletedHere = {}
<1> DEFINE n == Len(attempts)
<1>0. /\ Shapes /\ Recorded /\ n \in DOMAIN attempts /\ n \in Nat \ {0}
      /\ DOMAIN attempts = 1..n
      /\ Last.outcome = task.status /\ Last.next = task.round
  BY LastIsThere DEF IInv, Due
<1>1. /\ LeadsTo(Last) /\ Last.round \in Nat /\ Last.next \in Nat
      /\ Last.phase \in {"coding", "review", "fix"}
  BY <1>0, AttemptsAreRecords DEF Recorded, Last
<1> SUFFICES ASSUME NEW k \in 1..n, attempts[k].phase = task.status,
                    attempts[k].round = task.round
             PROVE  FALSE
  BY <1>0 DEF CompletedHere
<1>2. LeadsTo(attempts[k]) /\ attempts[k].round \in Nat /\ attempts[k].next \in Nat
  BY <1>0, AttemptsAreRecords DEF Recorded
<1>3. attempts[k].round <= Last.round  BY <1>0 DEF Recorded, Last
<1>4. CASE task.status = "fix"
  BY <1>0, <1>1, <1>2, <1>3, <1>4 DEF LeadsTo
<1>5. CASE task.status = "review"
  <2>1. k # n
    <3>1. ASSUME k = n  PROVE FALSE
      <4>1. attempts[k] = Last  BY <3>1 DEF Last
      <4> QED  BY <1>0, <1>1, <1>5, <4>1 DEF LeadsTo
    <3> QED  BY <3>1
  <2>2. k + 1 \in 1..n /\ k + 1 > 1 /\ (k + 1) - 1 = k
    <3>1. n \in Nat  BY <1>0
    <3> HIDE DEF n
    <3> QED  BY <2>1, <3>1
  <2>3. Follows(attempts[k], attempts[k + 1])
    <3>1. Follows(attempts[(k + 1) - 1], attempts[k + 1])
      BY <1>0, <2>2 DEF Recorded
    <3> QED  BY <2>2, <3>1
  <2>4. attempts[k + 1].phase \in {"coding", "review", "fix"} /\ attempts[k + 1].round \in Nat
    BY <1>0, <2>2, AttemptsAreRecords
  <2>5. attempts[k + 1].round = task.round + 1
    BY <1>2, <1>5, <2>3, <2>4 DEF LeadsTo, Follows
  <2>6. attempts[k + 1].round <= Last.round  BY <1>0, <2>2 DEF Recorded, Last
  <2>7. Last.round = task.round
    BY <1>0, <1>1, <1>5 DEF LeadsTo
  <2> QED  BY <1>1, <2>5, <2>6, <2>7
<1> QED  BY <1>4, <1>5

LEMMA LastIsCompleted ==
    ASSUME IInv, at = "loop", NEW k \in CompletedHere
    PROVE  k = Len(attempts) /\ Completed(task.status) /\ attempts[k] = Last
<1>1. task.status \in {"review", "fix"} /\ task.resume = task.status
      /\ task.status \notin Terminal
  BY DEF IInv, Placed, Terminal
<1>2. Due(task.status) \/ Completed(task.status)  BY <1>1 DEF IInv, Positioned
<1>3. Completed(task.status)  BY <1>1, <1>2, DueIsNotCompleted
<1>4. Len(attempts) \in DOMAIN attempts  BY <1>3, LastIsThere DEF IInv, Completed
<1>5. k = Len(attempts)
  BY <1>3, <1>4 DEF IInv, Recorded, CompletedTurnsAreNotRepeated, Completed, CompletedHere, Last
<1> QED  BY <1>3, <1>5 DEF Last

\* What a completed turn moves its task to, applied or found again.
Resting == [status |-> Last.outcome, resume |-> Last.outcome, round |-> Last.next]

LEMMA CompletionLeadsOn ==
    ASSUME IInv, attempts # <<>>
    PROVE  /\ LeadsTo(Last) /\ Last \in AttemptRecord /\ Resting \in Result
           /\ Resting.status = Last.outcome /\ Resting.resume = Last.outcome
           /\ Resting.round = Last.next
           /\ Last.outcome \in {"review", "fix", "merging", "blocked", "failed"}
<1>1. Len(attempts) \in DOMAIN attempts /\ Last \in AttemptRecord  BY LastIsThere DEF IInv
<1>2. LeadsTo(Last)  BY <1>1 DEF IInv, Recorded, Last
<1> QED  BY <1>1, <1>2 DEF AttemptRecord, Resting, Result, LeadsTo

LEMMA OutcomeIsApplied ==
    ASSUME IInv, ApplyOutcome
    PROVE  /\ task' \in Result
           /\ \/ task'.status \in {"blocked", "failed"} /\ at' = "returned"
              \/ /\ UNCHANGED task /\ at' \in {"loop", "returned"}
                 /\ at' = "loop" => task.status \in {"review", "fix"}
              \/ /\ Completed(task.status) /\ task' = Resting
                 /\ \/ at' = "loop" /\ Last.outcome \in {"review", "fix"}
                    \/ at' = "merge" /\ Last.outcome = "merging"
                    \/ at' = "returned"
<1>1. task \in Result /\ outcome \in Result /\ InHand
      /\ task.status \in {"coding", "review", "fix"}
  BY ShapesAre DEF ApplyOutcome, IInv, Positioned, InHand, RowShape, Placed
<1>2. outcome.status # task.status => task' = outcome
  BY <1>1 DEF ApplyOutcome, Move, Result
<1>3. CASE outcome.status \in {"blocked", "failed"}
  BY <1>1, <1>2, <1>3 DEF ApplyOutcome
<1>4. CASE outcome.status = task.status
  BY <1>1, <1>4 DEF ApplyOutcome
<1>5. CASE /\ outcome.status # task.status
           /\ Completed(task.status) /\ outcome = Resting
  <2>1. attempts # <<>>  BY <1>5 DEF Completed
  <2>2. task' = Resting  BY <1>2, <1>5
  <2>3. Resting.status = Last.outcome /\ Resting \in Result  BY <2>1, CompletionLeadsOn
  <2> QED  BY <1>5, <2>2, <2>3 DEF ApplyOutcome
<1> QED  BY <1>1, <1>3, <1>4, <1>5 DEF InHand, Resting

LEMMA AttemptIsResumed ==
    ASSUME IInv, ResumeLoop
    PROVE  /\ task' \in Result
           /\ \/ task'.status \in {"blocked", "failed"} /\ at' = "returned"
              \/ /\ Completed(task.status) /\ task' = Resting
                 /\ \/ at' = "loop" /\ Last.outcome \in {"review", "fix"}
                    \/ at' = "merge" /\ Last.outcome = "merging"
                    \/ at' = "returned"
<1>1. at = "loop"  BY DEF ResumeLoop
<1>2. PICK k \in CompletedHere :
        LET found == attempts[k]
            matches == found.outcome \in {"review", "merging"} => found.commit = tree.head
        IN  IF matches
            THEN /\ Move(found.outcome, IF found.outcome = "blocked" THEN found.phase
                                        ELSE found.outcome, found.next)
                 /\ at' = IF found.outcome \in {"review", "fix"} THEN "loop"
                          ELSE IF found.outcome = "merging" THEN "merge" ELSE "returned"
            ELSE /\ Move("blocked", task.status, task.round)
                 /\ at' = "returned"
  BY DEF ResumeLoop
<1>3. Completed(task.status) /\ attempts[k] = Last  BY <1>1, LastIsCompleted
<1>4. attempts # <<>>  BY <1>3 DEF Completed
<1>5. /\ Last.outcome \in {"review", "fix", "merging", "blocked", "failed"}
      /\ Last \in AttemptRecord
  BY <1>4, CompletionLeadsOn
<1>6. task \in Result  BY ShapesAre DEF IInv, RowShape
<1>7. CASE Move("blocked", task.status, task.round) /\ at' = "returned"
  BY <1>6, <1>7, NamesAreKnown DEF Move, Result
<1>8. CASE /\ Move(Last.outcome, IF Last.outcome = "blocked" THEN Last.phase
                                 ELSE Last.outcome, Last.next)
           /\ at' = IF Last.outcome \in {"review", "fix"} THEN "loop"
                    ELSE IF Last.outcome = "merging" THEN "merge" ELSE "returned"
  <2>1. {"coding", "review", "fix"} \subseteq TaskStatus  BY NamesAreKnown
  <2>2. task' \in Result  BY <1>5, <1>8, <2>1 DEF Move, Result, AttemptRecord
  <2>3. CASE Last.outcome \in {"blocked", "failed"}
    BY <1>8, <2>2, <2>3 DEF Move
  <2>4. CASE Last.outcome \in {"review", "fix", "merging"}
    BY <1>3, <1>8, <2>2, <2>4 DEF Move, Resting
  <2> QED  BY <1>5, <2>3, <2>4
<1> QED  BY <1>2, <1>3, <1>7, <1>8

LEMMA CodingIsResumed ==
    ASSUME IInv, ResumeCoding
    PROVE  InHand' /\ UNCHANGED <<task, attempts>> /\ at' = "outcome"
           /\ task.status = "coding"
<1>1. at = "coding" /\ UNCHANGED <<task, attempts>> /\ at' = "outcome"
  BY DEF ResumeCoding, Nothing
<1>2. /\ task.status = "coding" /\ task.resume = "coding" /\ task.status \notin Terminal
      /\ task.round = 0 /\ Len(attempts) <= 1
  BY <1>1 DEF IInv, Placed, Positioned, Terminal
<1>3. PICK k \in DOMAIN attempts :
        /\ attempts[k].phase = "coding"
        /\ outcome' = IF attempts[k].outcome = "review" /\ attempts[k].commit # tree.head
                      THEN Blocked ELSE Onward(attempts[k].outcome)
  BY DEF ResumeCoding, CodedAttempts
<1>4. k = 1 /\ Len(attempts) = 1 /\ attempts # <<>>
  <2>1. attempts \in Seq(AttemptRecord)  BY DEF IInv, Shapes, PipelineTypeOK
  <2>2. k \in 1..Len(attempts) /\ Len(attempts) \in Nat  BY <2>1
  <2>3. Len(attempts) = 1 /\ k = 1
    <3> DEFINE n == Len(attempts)
    <3>1. k \in 1..n /\ n \in Nat /\ n <= 1  BY <1>2, <2>2
    <3> HIDE DEF n
    <3>2. n = 1 /\ k = 1  BY <3>1
    <3> QED  BY <3>2 DEF n
  <2> QED  BY <2>3
<1>5. attempts[k] = Last  BY <1>4 DEF Last
<1>6. Last.round = 0  BY <1>4, <1>5 DEF IInv, Recorded
<1>7. Completed("coding")  BY <1>2, <1>3, <1>4, <1>5, <1>6 DEF Completed
<1>8. Completed(task.status)'  BY <1>1, <1>2, <1>7 DEF Completed, Last
<1>9. LeadsTo(Last) /\ Resting \in Result  BY <1>4, CompletionLeadsOn
<1>10. Blocked \in Result /\ Blocked.status = "blocked"
  BY RestsAreOutcomes DEF IInv, Result
<1> SUFFICES InHand'  BY <1>1, <1>2
<1>11. CASE outcome' = Blocked
  BY <1>10, <1>11 DEF InHand, Result
<1>12. CASE outcome' = Onward(Last.outcome)
  <2>1. CASE Last.outcome = "review"
    <3>1. Last.next = 0  BY <1>6, <1>9, <2>1 DEF LeadsTo
    <3>2. outcome' = Resting  BY <1>2, <1>12, <2>1, <3>1 DEF Onward, Resting
    <3>3. Last' = Last  BY <1>1 DEF Last
    <3> QED  BY <1>8, <1>9, <3>2, <3>3 DEF InHand, Resting, Result
  <2>2. CASE Last.outcome \in {"blocked", "failed"}
    <3>1. outcome' \in Result
      BY <1>2, <1>12, <2>2, NamesAreKnown DEF Onward, Result
    <3> QED  BY <1>12, <2>2, <3>1 DEF Onward, InHand, Result
  <2> QED  BY <1>3, <1>5, <1>9, <2>1, <2>2 DEF LeadsTo
<1> QED  BY <1>1, <1>2, <1>3, <1>5, <1>11, <1>12
---------------------------------------------------------------------------------
\* Where the process is.
LEMMA StandsStill ==
    ASSUME Placed, UNCHANGED <<task, at, resumed>>, at = "turn" => turn'.phase = turn.phase
    PROVE  Placed'
BY DEF Placed

LEMMA ReturnsPlaced ==
    ASSUME Placed, UNCHANGED <<task, resumed>>, at' = "returned"
    PROVE  Placed'
BY DEF Placed, Terminal, InEnvironment

LEMMA BlockPlaced ==
    ASSUME Shapes, Placed, Block
    PROVE  Placed'
<1>1. task'.status = "blocked" /\ at' = "returned"  BY DEF Block, Move
<1> QED  BY <1>1 DEF Placed, Terminal, InEnvironment

LEMMA StopOrBlockPlaced ==
    ASSUME Shapes, Placed, StopOrBlock
    PROVE  Placed'
BY ReturnsPlaced, BlockPlaced DEF StopOrBlock, Control

LEMMA NextPlaced ==
    ASSUME IInv, Step
    PROVE  Placed'
<1>0. /\ Shapes /\ Placed /\ task \in Result /\ task.status \in TaskStatus
      /\ task.resume \in TaskStatus /\ task.round \in Nat /\ resumed \in Resumable
  BY ShapesAre DEF IInv, RowShape, Result
<1>1. CASE Claim
  BY <1>0, <1>1
     DEF Claim, Result, Placed, Terminal, Resumable, InEnvironment, InCheckout, Phase
<1>2. CASE ReturnCancelled
  BY <1>0, ReturnsPlaced, <1>2
     DEF ReturnCancelled
<1>3. CASE EnterEnvironment
  BY <1>0, <1>3
     DEF EnterEnvironment, Move, Placed, Terminal, Resumable, InEnvironment, InCheckout, Phase
<1>4. CASE EnvironmentRefused \/ PreparationFails
  BY <1>0, StopOrBlockPlaced, <1>4
     DEF EnvironmentRefused, PreparationFails
<1>5. CASE ReuseEnvironment
  BY <1>0, <1>5
     DEF ReuseEnvironment, Control, Placed, Terminal, Resumable, InEnvironment, InCheckout, Phase
<1>6. CASE StartPreparing
  BY <1>0, <1>6
     DEF StartPreparing, Control, Placed, Terminal, Resumable, InEnvironment, InCheckout, Phase
<1>7. CASE CommandsSucceed
  BY <1>0, <1>7
     DEF CommandsSucceed, Control, Placed, Terminal, Resumable, InEnvironment, InCheckout, Phase
<1>8. CASE CommandsFail
  BY <1>0, <1>8
     DEF CommandsFail, Control, Placed, Terminal, Resumable, InEnvironment, InCheckout, Phase
<1>9. CASE AcceptFailure \/ SkipCommands
  BY <1>0, <1>9
     DEF AcceptFailure, SkipCommands, Control, Placed, Terminal, Resumable, InEnvironment, InCheckout, Phase
<1>10. CASE MarkPrepared
  BY <1>0, <1>10
     DEF MarkPrepared, Control, Placed, Terminal, Resumable, InEnvironment, InCheckout, Phase
<1>11. CASE RecordPreparation
  BY <1>0, <1>11
     DEF RecordPreparation, Control, Placed, Terminal, Resumable, InEnvironment, InCheckout, Phase
<1>12. CASE LeaveEnvironment
  BY <1>0, <1>12
     DEF LeaveEnvironment, Move, Placed, Terminal, Resumable, InEnvironment, InCheckout, Phase
<1>13. CASE RouteToCoding
  BY <1>0, <1>13
     DEF RouteToCoding, Control, Placed, Terminal, Resumable, InEnvironment, InCheckout, Phase
<1>14. CASE RouteToReview
  BY <1>0, <1>14
     DEF RouteToReview, Move, Placed, Terminal, Resumable, InEnvironment, InCheckout, Phase
<1>15. CASE RestoreLaterPhase
  BY <1>0, <1>15
     DEF RestoreLaterPhase, Move, Placed, Terminal, Resumable, InEnvironment, InCheckout, Phase
<1>16. CASE ApplyOutcome \/ ResumeLoop
  <2>1. UNCHANGED resumed /\ at \in {"loop", "outcome"}
    BY <1>16 DEF ApplyOutcome, ResumeLoop
  <2>2. CASE task'.status \in {"blocked", "failed"} /\ at' = "returned"
    BY <2>2 DEF Placed, Terminal, InEnvironment
  <2>3. CASE /\ UNCHANGED task /\ at' \in {"loop", "returned"}
             /\ at' = "loop" => task.status \in {"review", "fix"}
    BY <1>0, <2>1, <2>3 DEF Placed, Terminal, InEnvironment, InCheckout
  <2>4. CASE /\ Completed(task.status) /\ task' = Resting
             /\ \/ at' = "loop" /\ Last.outcome \in {"review", "fix"}
                \/ at' = "merge" /\ Last.outcome = "merging"
                \/ at' = "returned"
    <3>1. attempts # <<>>  BY <2>4 DEF Completed
    <3>2. /\ task'.status = Last.outcome /\ task'.resume = Last.outcome
          /\ Last.outcome \in {"review", "fix", "merging", "blocked", "failed"}
      BY <2>4, <3>1, CompletionLeadsOn
    <3> QED
      BY <2>4, <3>2 DEF Placed, Terminal, Resumable, InEnvironment, InCheckout
  <2> QED  BY <1>16, <2>2, <2>3, <2>4, OutcomeIsApplied, AttemptIsResumed
<1>17. CASE CodingRefused \/ LoopRefused
  BY <1>0, <1>17, BlockPlaced DEF CodingRefused, LoopRefused
<1>18. CASE ResumeCoding
  <2>1. at = "coding" /\ at' = "outcome" /\ UNCHANGED <<task, resumed>>
    BY <1>18 DEF ResumeCoding
  <2> QED  BY <2>1 DEF IInv, Placed, Terminal, InEnvironment
<1>19. CASE StartCoding \/ StartReview \/ StartSteering \/ StartFix
  <2>1. PICK phase \in Phase :
          /\ StartTurn(phase) /\ at \in {"coding", "loop", "steered"}
          /\ task.status = IF phase = "steering" THEN "fix" ELSE phase
    BY <1>0, <1>19 DEF StartCoding, StartReview, StartSteering, StartFix, Phase, Placed
  <2>2. /\ at' = "turn" /\ turn'.phase = phase /\ UNCHANGED <<task, resumed>>
    BY <2>1 DEF StartTurn
  <2> QED  BY <1>0, <2>1, <2>2 DEF Placed, Terminal, InEnvironment
<1>20. CASE AssembleNote
  <2>1. /\ at = "loop" /\ at' = "steered" /\ task.status = "fix"
        /\ UNCHANGED <<task, resumed>>
    BY <1>20 DEF AssembleNote
  <2> QED  BY <1>0, <2>1 DEF Placed, Terminal, InEnvironment
<1>21. CASE FinishSteering
  <2>1. /\ at = "turn" /\ turn.phase = "steering" /\ at' \in {"outcome", "returned", "steered"}
        /\ UNCHANGED <<task, resumed>>
    BY <1>21 DEF FinishSteering, FinishTurn
  <2> QED  BY <1>0, <2>1 DEF Placed, Terminal, InEnvironment
<1>22. CASE FinishCoding \/ FinishReview \/ FinishFix
  <2>1. /\ at = "turn" /\ turn.phase = task.status
        /\ turn.phase \in {"coding", "review", "fix"}
        /\ at' = "outcome" /\ UNCHANGED <<task, resumed>>
    BY <1>22, TurnsAreCompleted DEF FinishTurn
  <2> QED  BY <1>0, <2>1 DEF Placed, Terminal, InEnvironment
<1>23. CASE MergePhase
  <2>1. PICK status \in Terminal : Move(status, status, task.round)  BY <1>23 DEF MergePhase
  <2>2. task'.status \in Terminal /\ at' = "returned" /\ UNCHANGED resumed
    BY <1>23, <2>1 DEF MergePhase, Move
  <2> QED  BY <2>2 DEF Placed, Terminal, InEnvironment
<1>24. CASE WorkerSettled
  BY <1>0, <1>24 DEF WorkerSettled, Move, Requeue, Result, Placed, Terminal, InEnvironment
<1>25. CASE AgentActs \/ OrphanActs \/ UserStops
  <2>1. UNCHANGED <<task, at, resumed>> /\ turn'.phase = turn.phase
    BY <1>25, ShapesAre DEF AgentActs, OrphanActs, UserStops, IInv, HandShape, Turn
  <2> QED  BY <1>0, <2>1, StandsStill
<1>26. CASE Crash \/ Lose
  BY <1>0, <1>26 DEF Crash, Lose, Requeue, Result, Placed, Terminal, InEnvironment
<1>27. CASE RefreshUnstarted
  BY <1>0, <1>27
     DEF RefreshUnstarted, Control, Placed, Terminal, Resumable, InEnvironment, InCheckout, Phase
<1>28. CASE RefreshRefused
  <2>1. task'.status = "blocked" /\ at' = "returned"  BY <1>28 DEF RefreshRefused, Move
  <2> QED  BY <2>1 DEF Placed, Terminal, InEnvironment
<1> QED
  BY <1>1, <1>2, <1>3, <1>4, <1>5, <1>6, <1>7, <1>8, <1>9, <1>10, <1>11, <1>12, <1>13, <1>14, <1>15, <1>16, <1>17, <1>18, <1>19, <1>20, <1>21, <1>22, <1>23, <1>24, <1>25, <1>26, <1>27, <1>28
     DEF Step, Worker, OwnStep, Awaited
---------------------------------------------------------------------------------
\* What the worktree was prepared for.
LEMMA NextPrepared ==
    ASSUME IInv, Step
    PROVE  Prepared'
<1>0. /\ Prepared /\ key \in PlanKey /\ key # NoKey
  <2>1. Prepared /\ key \in PlanKey  BY DEF IInv, Shapes
  <2> QED  BY <2>1, PipelineAssumption
<1>1. ASSUME UNCHANGED envVars,
             \/ at' \in {"idle", "unstarted", "claimed", "environment", "returned"}
             \/ at \in InCheckout /\ at' \in InCheckout
      PROVE  Prepared'
  BY <1>0, <1>1 DEF Prepared, Vouched, envVars, storeVars, ghostVars, InCheckout
<1>2. CASE Claim
  BY <1>0, <1>2 DEF Claim, Prepared, Vouched, ghostVars, InCheckout
<1>3. CASE \/ ReturnCancelled \/ EnterEnvironment \/ EnvironmentRefused \/ PreparationFails
           \/ CodingRefused \/ LoopRefused \/ MergePhase \/ WorkerSettled
           \/ RefreshUnstarted \/ RefreshRefused \/ Crash
  BY <1>1, <1>3
     DEF ReturnCancelled, EnterEnvironment, EnvironmentRefused, PreparationFails, CodingRefused,
         LoopRefused, MergePhase, WorkerSettled, RefreshUnstarted, RefreshRefused, Crash,
         StopOrBlock, Block, Control
<1> USE DEF Control, Prepared, Vouched, InCheckout
<1>4. CASE ReuseEnvironment
  BY <1>0, <1>4 DEF ReuseEnvironment, Reusable, envVars, storeVars, ghostVars
<1>5. CASE StartPreparing
  BY <1>0, <1>5 DEF StartPreparing, Invalidate, Untouched
<1>6. CASE CommandsSucceed
  BY <1>0, <1>6 DEF CommandsSucceed, Install, storeVars
<1>7. CASE CommandsFail
  BY <1>0, <1>7 DEF CommandsFail, envVars, storeVars, ghostVars
<1>8. CASE AcceptFailure \/ SkipCommands
  BY <1>0, <1>8 DEF AcceptFailure, SkipCommands, AcceptUnprepared, storeVars
<1>9. CASE MarkPrepared
  BY <1>0, <1>9 DEF MarkPrepared, WriteMarker, storeVars, ghostVars
<1>10. CASE RecordPreparation
  BY <1>0, <1>10 DEF RecordPreparation, RecordPrepared, ghostVars
<1>11. CASE \/ LeaveEnvironment \/ RouteToCoding \/ RouteToReview \/ RestoreLaterPhase
            \/ ApplyOutcome \/ ResumeCoding \/ ResumeLoop
  BY <1>1, <1>11
     DEF LeaveEnvironment, RouteToCoding, RouteToReview, RestoreLaterPhase, ApplyOutcome,
         ResumeCoding, ResumeLoop, Control, InCheckout
<1>12. CASE StartCoding \/ StartReview \/ StartSteering \/ StartFix \/ AssembleNote
  BY <1>1, <1>12
     DEF StartCoding, StartReview, StartSteering, StartFix, AssembleNote, StartTurn, InCheckout
<1>13. CASE FinishSteering
  BY <1>1, <1>13 DEF FinishSteering, FinishTurn, InCheckout
<1>14. CASE FinishCoding \/ FinishReview \/ FinishFix
  <2>1. at = "turn" /\ at' = "outcome" /\ UNCHANGED envVars
    BY <1>14, TurnsAreCompleted DEF FinishTurn
  <2> QED  BY <1>1, <2>1 DEF InCheckout
<1>15. CASE AgentActs \/ OrphanActs \/ UserStops
  BY <1>0, <1>15 DEF AgentActs, OrphanActs, UserStops, envVars, storeVars, ghostVars
<1>16. CASE Lose
  BY <1>0, <1>16 DEF Lose, Outlive, storeVars
<1> QED
  BY <1>2, <1>3, <1>4, <1>5, <1>6, <1>7, <1>8, <1>9, <1>10, <1>11, <1>12, <1>13, <1>14,
     <1>15, <1>16
     DEF Step, Worker, OwnStep, Awaited

\* A process without a lease changes what is in the checkout, and says so.
LEMMA StaleShapes ==
    ASSUME EnvShape, StaleStep
    PROVE  EnvShape'
<1>1. /\ stale.key \in PlanKey \cup {NoKey}
      /\ NotStale \in [at : {"none", "environment", "preparing", "marking"},
                       key : PlanKey \cup {NoKey}]
  BY DEF EnvShape, NotStale
<1>2. CASE StaleInvalidates
  BY <1>1, <1>2 DEF StaleInvalidates, EnvShape, storeVars, ghostVars
<1>3. CASE StaleInstalls
  BY <1>1, <1>3 DEF StaleInstalls, EnvShape, storeVars, ghostVars
<1>4. CASE StaleMarks
  BY <1>1, <1>4 DEF StaleMarks, EnvShape, storeVars
<1>5. CASE StaleEnds
  BY <1>1, <1>5 DEF StaleEnds, EnvShape, storeVars, ghostVars
<1> QED  BY <1>2, <1>3, <1>4, <1>5 DEF StaleStep

LEMMA StalePrepared ==
    ASSUME Prepared, StaleStep, UNCHANGED at
    PROVE  Prepared'
<1>1. CASE StaleInvalidates
  BY <1>1 DEF StaleInvalidates, NotStale, Prepared, Vouched, storeVars, ghostVars
<1>2. CASE StaleInstalls
  BY <1>2 DEF StaleInstalls, Prepared, Vouched, storeVars, ghostVars
<1>3. CASE StaleMarks
  BY <1>3 DEF StaleMarks, NotStale, Prepared, Vouched, storeVars
<1>4. CASE StaleEnds
  BY <1>4 DEF StaleEnds, NotStale, Prepared, Vouched, storeVars, ghostVars
<1> QED  BY <1>1, <1>2, <1>3, <1>4 DEF StaleStep

---------------------------------------------------------------------------------
\* The attempts: only the end of a turn adds one.
LEMMA FinishRecorded ==
    ASSUME IInv, NEW how, NEW result \in Result, FinishTurn(how, result, "outcome"),
           at = "turn", turn.phase = task.status, turn.phase \in {"coding", "review", "fix"},
           Unfinished(how, result) \/ Recording(how, result) \/ Reviewing(how, result)
    PROVE  /\ Recorded'
           /\ \/ Unfinished(how, result) /\ Last' = Last /\ DeclaredCommit' = DeclaredCommit
              \/ /\ Recording(how, result) \/ Reviewing(how, result)
                 /\ attempts' # <<>> /\ LeadsTo(Last')
                 /\ Last'.phase = task.status /\ Last'.round = task.round
                 /\ Last'.outcome = result.status /\ Last'.next = result.round
                 /\ result.status \in {"blocked", "failed"} \/ result = Resting'
<1>0. /\ Shapes /\ Recorded /\ task.round \in Nat
      /\ Blocked \in Result /\ Blocked.status = "blocked"
  BY ShapesAre, RestsAreOutcomes DEF IInv, RowShape, Result
<1>1. CASE Unfinished(how, result)
  BY <1>0, <1>1, RecordStands DEF Unfinished
<1>2. ASSUME NEW base \in Nat, NEW sealed \in BOOLEAN,
             attempts' = Attested(result, base, sealed),
             Recording(how, result) \/ Reviewing(how, result),
             \/ result.status \in {"blocked", "failed"}
             \/ /\ turn.phase \in {"coding", "fix"} /\ result = Onward("review")
                /\ turn.phase = "coding" => tree.head # base
             \/ turn.phase = "review" /\ result = Onward("merging")
             \/ /\ turn.phase = "review"
                /\ result = [status |-> "fix", resume |-> "fix", round |-> task.round + 1]
      PROVE  /\ Recorded' /\ attempts' # <<>> /\ LeadsTo(Last')
             /\ Last'.phase = task.status /\ Last'.round = task.round
             /\ Last'.outcome = result.status /\ Last'.next = result.round
             /\ result.status \in {"blocked", "failed"} \/ result = Resting'
  <2>1. /\ Last'.phase = turn.phase /\ Last'.outcome = result.status
        /\ Last'.round = task.round /\ Last'.next = result.round
        /\ Last'.commit = tree.head /\ Last'.base = base
    BY <1>0, <1>2, AttestedIs
  <2>2. LeadsTo(Last')  BY <1>2, <2>1 DEF LeadsTo, Onward
  <2>3. Recorded' /\ attempts' # <<>>  BY <1>2, <2>2, AttestedFollows
  <2>4. result.status \in {"blocked", "failed"} \/ result = Resting'
    BY <1>2, <2>1 DEF Resting, Onward
  <2> QED  BY <2>1, <2>2, <2>3, <2>4
<1>3. CASE Recording(how, result)
  <2>1. PICK base \in Nat, sealed \in BOOLEAN :
          /\ attempts' = Attested(result, base, sealed)
          /\ \/ result.status \in {"blocked", "failed"}
             \/ /\ turn.phase \in {"coding", "fix"} /\ result = Onward("review")
                /\ turn.phase = "coding" => tree.head # base
    BY <1>3 DEF Recording
  <2> QED  BY <1>2, <1>3, <2>1
<1>4. CASE Reviewing(how, result)
  <2>1. PICK verdict \in {"approved", "issues_found"}, d \in Declarations,
             sealed \in BOOLEAN, base \in Nat :
          /\ attempts' = Attested(result, base, sealed)
          /\ result = IF sealed
                      THEN ReviewOutcome(verdict, Assessment(Reconcile(ledger, d, LedgerRound,
                                                                       verdict = "approved")))
                      ELSE Blocked
    BY <1>4 DEF Reviewing
  <2>2. \/ result.status \in {"blocked", "failed"}
        \/ result = Onward("merging")
        \/ result = [status |-> "fix", resume |-> "fix", round |-> task.round + 1]
    BY <1>0, <2>1, VerdictsAreOutcomes
  <2>3. turn.phase = "review"  BY <1>4 DEF Reviewing
  <2> QED  BY <1>2, <1>4, <2>1, <2>2, <2>3
<1> QED  BY <1>1, <1>2, <1>3, <1>4
---------------------------------------------------------------------------------
\* The attempt the row waits for.
Waits ==
    /\ task.status \notin Terminal =>
         /\ task.resume \in {"environment", "coding"} =>
              task.round = 0 /\ Len(attempts) <= 1
         /\ task.resume \in {"review", "fix"} => Due(task.resume) \/ Completed(task.resume)
         /\ task.resume = "merging" => Due("merging")
    /\ task.status = "done" => attempts # <<>> /\ Last.outcome = "merging"

LEMMA PositionedIs ==
    /\ Positioned <=> /\ Waits
                      /\ at \in {"turn", "steered"} => CompletedHere = {}
                      /\ at = "outcome" => InHand
    /\ Positioned' <=> /\ Waits'
                       /\ at' \in {"turn", "steered"} => CompletedHere' = {}
                       /\ at' = "outcome" => InHand'
BY DEF Positioned, Waits

LEMMA WaitsOn ==
    ASSUME Waits, UNCHANGED attempts,
           \/ task'.status \in {"blocked", "failed"}
           \/ /\ task'.resume = task.resume /\ task'.round = task.round
              /\ (task.status \in Terminal \/ task'.status \in Terminal) =>
                   task'.status = task.status
           \/ /\ task.resume = "environment" /\ task'.resume = "coding"
              /\ task'.round = task.round
              /\ task.status \notin Terminal /\ task'.status \notin Terminal
    PROVE  Waits'
<1>1. Last' = Last /\ Len(attempts') = Len(attempts) /\ attempts' = attempts  BY DEF Last
<1>2. CASE task'.status \in {"blocked", "failed"}
  BY <1>2 DEF Waits, Terminal
<1>3. CASE /\ task'.resume = task.resume /\ task'.round = task.round
           /\ (task.status \in Terminal \/ task'.status \in Terminal) =>
                task'.status = task.status
  BY <1>1, <1>3 DEF Waits, Due, Completed, Terminal
<1>4. CASE /\ task.resume = "environment" /\ task'.resume = "coding"
           /\ task'.round = task.round
           /\ task.status \notin Terminal /\ task'.status \notin Terminal
  BY <1>1, <1>4 DEF Waits, Terminal
<1> QED  BY <1>2, <1>3, <1>4

LEMMA RestingWaits ==
    ASSUME IInv, attempts # <<>>, UNCHANGED attempts, task' = Resting
    PROVE  Waits'
<1>1. Last' = Last  BY DEF Last
<1>2. /\ task'.status = Last.outcome /\ task'.resume = Last.outcome /\ task'.round = Last.next
      /\ Last.outcome \in {"review", "fix", "merging", "blocked", "failed"}
  BY CompletionLeadsOn
<1>3. \A phase : phase = Last.outcome => Due(phase)'
  BY <1>1, <1>2 DEF Due
<1> QED  BY <1>2, <1>3 DEF Waits, Terminal

LEMMA NextPositioned ==
    ASSUME IInv, Step
    PROVE  Positioned'
<1>0. /\ Shapes /\ Placed /\ Positioned /\ Waits /\ task \in Result
      /\ task.round \in Nat /\ task.status \in TaskStatus
  BY ShapesAre, PositionedIs DEF IInv, RowShape, Result
<1>1. ASSUME UNCHANGED attempts, at' \notin {"turn", "steered", "outcome"},
             \/ task'.status \in {"blocked", "failed"}
             \/ /\ task'.resume = task.resume /\ task'.round = task.round
                /\ (task.status \in Terminal \/ task'.status \in Terminal) =>
                     task'.status = task.status
             \/ /\ task.resume = "environment" /\ task'.resume = "coding"
                /\ task'.round = task.round
                /\ task.status \notin Terminal /\ task'.status \notin Terminal
      PROVE  Positioned'
  BY <1>0, <1>1, WaitsOn, PositionedIs
<1>2. ASSUME UNCHANGED <<attempts, task>>,
             at' \in {"turn", "steered"} => CompletedHere = {}, at' = "outcome" => InHand'
      PROVE  Positioned'
  <2>1. Waits'  BY <1>0, <1>2, WaitsOn
  <2>2. CompletedHere' = CompletedHere  BY <1>2 DEF CompletedHere
  <2> QED  BY <1>2, <2>1, <2>2, PositionedIs
<1>3. CASE Claim
  <2>1. UNCHANGED attempts /\ at' \in {"unstarted", "claimed"} /\ task'.status = "claimed"
        /\ task'.resume = task.resume /\ task'.round = task.round
    BY <1>0, <1>3 DEF Claim, Nothing, Result
  <2> QED  BY <1>1, <1>3, <2>1 DEF Claim, Terminal
<1>4. CASE EnterEnvironment \/ LeaveEnvironment \/ RouteToReview \/ RestoreLaterPhase
  <2>1. UNCHANGED attempts /\ at' \in {"environment", "prepared", "loop", "restoring", "merge"}
    BY <1>4 DEF EnterEnvironment, LeaveEnvironment, RouteToReview, RestoreLaterPhase, Nothing
  <2>2. \/ /\ task'.resume = task.resume /\ task'.round = task.round
           /\ task.status \notin Terminal /\ task'.status \notin Terminal
        \/ /\ task.resume = "environment" /\ task'.resume = "coding"
           /\ task'.round = task.round
           /\ task.status \notin Terminal /\ task'.status \notin Terminal
    BY <1>0, <1>4
       DEF EnterEnvironment, LeaveEnvironment, RouteToReview, RestoreLaterPhase, Move, Placed,
           Terminal, InEnvironment
  <2> QED  BY <1>1, <2>1, <2>2
<1>5. CASE \/ ReuseEnvironment \/ StartPreparing \/ CommandsSucceed \/ CommandsFail
           \/ AcceptFailure \/ MarkPrepared \/ RecordPreparation \/ RouteToCoding
           \/ ReturnCancelled \/ RefreshUnstarted \/ SkipCommands
  <2>1. /\ UNCHANGED <<attempts, task>>
        /\ at' \in {"claimed", "ready", "preparing", "installed", "unprepared", "marked",
                    "coding", "returned"}
    BY <1>5
       DEF RefreshUnstarted, SkipCommands, ReuseEnvironment, StartPreparing, CommandsSucceed, CommandsFail, AcceptFailure,
           MarkPrepared, RecordPreparation, RouteToCoding, ReturnCancelled, Control, Nothing
  <2> QED  BY <1>2, <2>1
<1>6. CASE \/ EnvironmentRefused \/ PreparationFails \/ CodingRefused \/ LoopRefused
           \/ RefreshRefused
  <2>1. UNCHANGED attempts /\ at' = "returned"
        /\ (UNCHANGED task \/ task'.status = "blocked")
    BY <1>6
       DEF EnvironmentRefused, PreparationFails, CodingRefused, LoopRefused, RefreshRefused,
           StopOrBlock, Block, Control, Nothing, Move
  <2> QED  BY <1>1, <1>2, <2>1
<1>7. CASE ApplyOutcome \/ ResumeLoop
  <2>1. UNCHANGED attempts  BY <1>7 DEF ApplyOutcome, ResumeLoop, Nothing
  <2>2. CASE task'.status \in {"blocked", "failed"} /\ at' = "returned"
    BY <1>1, <2>1, <2>2
  <2>3. CASE UNCHANGED task /\ at' \in {"loop", "returned"}
    BY <1>2, <2>1, <2>3
  <2>4. CASE /\ Completed(task.status) /\ task' = Resting
             /\ at' \in {"loop", "merge", "returned"}
    <3>1. Waits'  BY <2>1, <2>4, RestingWaits DEF Completed
    <3> QED  BY <2>4, <3>1, PositionedIs
  <2> QED  BY <1>7, <2>2, <2>3, <2>4, OutcomeIsApplied, AttemptIsResumed
<1>8. CASE ResumeCoding
  BY <1>2, <1>8, CodingIsResumed
<1>9. CASE StartCoding \/ StartReview \/ StartSteering \/ StartFix \/ AssembleNote
  <2>1. UNCHANGED <<attempts, task>> /\ at' \in {"turn", "steered"}
    BY <1>9
       DEF StartCoding, StartReview, StartSteering, StartFix, AssembleNote, StartTurn, Nothing
  <2>2. CompletedHere = {}
    <3>1. CASE StartCoding
      BY <1>0, <3>1 DEF StartCoding, Placed, CodedAttempts, CompletedHere
    <3>2. CASE StartReview \/ StartSteering \/ StartFix \/ AssembleNote
      BY <1>0, <3>2 DEF StartReview, StartSteering, StartFix, AssembleNote, Positioned
    <3> QED  BY <1>9, <3>1, <3>2
  <2> QED  BY <1>2, <2>1, <2>2
<1>10. CASE FinishSteering
  <2>1. /\ at = "turn" /\ UNCHANGED <<attempts, task>>
        /\ \/ at' \in {"returned", "steered"}
           \/ at' = "outcome" /\ outcome' = Blocked
    BY <1>10 DEF FinishSteering, FinishTurn
  <2>2. CompletedHere = {}  BY <1>0, <2>1 DEF Positioned
  <2>3. Blocked \in Result /\ Blocked.status = "blocked"
    BY <1>0, RestsAreOutcomes DEF Result
  <2>4. outcome' = Blocked => InHand'  BY <2>3 DEF InHand, Result
  <2> QED  BY <1>2, <2>1, <2>2, <2>4
<1>11. CASE FinishCoding \/ FinishReview \/ FinishFix
  <2>1. /\ at = "turn" /\ turn.phase = task.status
        /\ turn.phase \in {"coding", "review", "fix"}
    BY <1>11, TurnsAreCompleted
  <2>2. PICK how, result :
          /\ result \in Result
          /\ FinishTurn(how, result, "outcome")
          /\ Unfinished(how, result) \/ Recording(how, result) \/ Reviewing(how, result)
    BY <1>11, TurnsAreCompleted
  <2>3. outcome' = result /\ at' = "outcome" /\ UNCHANGED task
    BY <2>2 DEF FinishTurn
  <2>4. CASE Unfinished(how, result)
    <3>1. result.status \in {"blocked", "failed"} \/ result.status = task.status
      BY <1>0, <2>4, RestsAreOutcomes DEF Unfinished
    <3>2. InHand'  BY <2>2, <2>3, <3>1 DEF InHand, Result
    <3>3. UNCHANGED attempts  BY <2>4 DEF Unfinished
    <3> QED  BY <1>2, <2>3, <3>2, <3>3
  <2>5. CASE /\ Recording(how, result) \/ Reviewing(how, result)
             /\ attempts' # <<>>
             /\ Last'.phase = task.status /\ Last'.round = task.round
             /\ result.status \in {"blocked", "failed"} \/ result = Resting'
    <3>1. Completed(task.status)'  BY <2>3, <2>5 DEF Completed
    <3>2. InHand'  BY <2>2, <2>3, <2>5, <3>1 DEF InHand, Result, Resting
    <3>3. task.resume = task.status  BY <1>0, <2>1 DEF Placed
    <3>4. task.status = "coding" => task.round = 0 /\ Len(attempts') <= 1
      <4> SUFFICES ASSUME task.status = "coding"
                   PROVE  task.round = 0 /\ Len(attempts') <= 1
        OBVIOUS
      <4>1. attempts = <<>> /\ task.round = 0  BY <2>1, TurnIsDue
      <4>2. PICK base \in Nat, sealed \in BOOLEAN : attempts' = Attested(result, base, sealed)
        BY <2>1, <2>5 DEF Recording, Reviewing
      <4>3. Len(attempts') = Len(attempts) + 1
        BY <1>0, <2>1, <2>2, <4>2, AttestedIs
      <4> QED  BY <4>1, <4>3
    <3>5. Waits'
      BY <2>1, <2>3, <3>1, <3>3, <3>4 DEF Waits, Terminal
    <3> QED  BY <2>3, <3>2, <3>5, PositionedIs
  <2> QED  BY <2>1, <2>2, <2>4, <2>5, FinishRecorded
<1>12. CASE MergePhase
  <2>1. PICK status \in Terminal : task' = [status |-> status, resume |-> status,
                                            round |-> task.round]
    BY <1>12 DEF MergePhase, Move
  <2>2. at = "merge" /\ at' = "returned" /\ UNCHANGED attempts
    BY <1>12 DEF MergePhase, Nothing
  <2>3. Due("merging")
    BY <1>0, <2>2 DEF Placed, Positioned, Terminal
  <2>4. Waits'  BY <2>1, <2>2, <2>3 DEF Waits, Due, Last
  <2> QED  BY <2>2, <2>4, PositionedIs
<1>13. CASE WorkerSettled
  <2>1. UNCHANGED attempts /\ at' = "idle"  BY <1>13 DEF WorkerSettled, Nothing
  <2>2. \/ UNCHANGED task
        \/ task'.status = "failed"
        \/ /\ task.status \notin Terminal /\ task'.status = "pending"
           /\ task'.resume = task.resume /\ task'.round = task.round
    BY <1>0, <1>13 DEF WorkerSettled, Requeue, Move, Result
  <2> QED  BY <1>1, <2>1, <2>2 DEF Terminal
<1>14. CASE AgentActs \/ OrphanActs \/ UserStops
  <2>1. UNCHANGED <<attempts, task, at, outcome>>
    BY <1>14 DEF AgentActs, OrphanActs, UserStops, Nothing
  <2>2. InHand' <=> InHand
    BY <2>1 DEF InHand, Completed, Last, Result
  <2> QED  BY <1>0, <1>2, <2>1, <2>2 DEF Positioned
<1>15. CASE Crash \/ Lose
  <2>1. UNCHANGED attempts /\ at' = "idle"  BY <1>15 DEF Crash, Lose, Nothing
  <2>2. \/ UNCHANGED task
        \/ /\ task.status \notin Terminal /\ task'.status = "pending"
           /\ task'.resume = task.resume /\ task'.round = task.round
    BY <1>0, <1>15 DEF Crash, Lose, Requeue, Result
  <2> QED  BY <1>1, <2>1, <2>2 DEF Terminal
<1> QED
  BY <1>3, <1>4, <1>5, <1>6, <1>7, <1>8, <1>9, <1>10, <1>11, <1>12, <1>13, <1>14, <1>15
     DEF Step, Worker, OwnStep, Awaited
---------------------------------------------------------------------------------
\* What reviews establish.
LEMMA ReviewedStands ==
    ASSUME IInv, UNCHANGED <<attempts, ledger, assessments>>,
           at' = "turn" =>
             /\ turn'.phase = "review" => turn'.base = DeclaredCommit
             /\ turn'.phase = "steering" => StuckRound(assessments)
             /\ turn'.phase = "fix" /\ StuckRound(assessments) => Verdict \in notes',
           at' = "steered" => Verdict \in notes'
    PROVE  Reviewed'
<1>1. Last' = Last /\ DeclaredCommit' = DeclaredCommit  BY RecordStands DEF IInv
<1>2. Verdict' = Verdict  BY DEF Verdict
<1>3. Reviewed  BY DEF IInv
<1> QED  BY <1>1, <1>2, <1>3 DEF Reviewed

\* A review declares no commit.
LEMMA ReviewsDeclareNothing ==
    ASSUME IInv, at = "turn", turn.phase = "review",
           NEW result \in Result, NEW base \in Nat, NEW sealed \in BOOLEAN,
           attempts' = Attested(result, base, sealed)
    PROVE  DeclaredCommit' = DeclaredCommit
<1> DEFINE n == Len(attempts)
           latest(k) == \A j \in Declaring :
                          \/ attempts'[j].round < attempts'[k].round
                          \/ attempts'[j].round = attempts'[k].round /\ j <= k
           d == CHOOSE k \in Declaring : latest(k)
<1>0. /\ Shapes /\ Recorded /\ task.status = "review"
      /\ attempts # <<>> /\ Last.outcome = "review"
  <2>1. task.status = "review"  BY DEF IInv, Placed
  <2> QED  BY <2>1, TurnIsDue DEF IInv, Due
<1>1. /\ n \in DOMAIN attempts /\ n \in Nat \ {0} /\ DOMAIN attempts = 1..n
      /\ DOMAIN attempts' = 1..(n + 1)
      /\ \A k \in 1..n : attempts'[k] = attempts[k]
      /\ attempts'[n + 1].phase = "review"
  BY <1>0, LastIsThere, AttestedIs
<1>2. n \in Declaring /\ DeclaredBy(n) /\ DeclaredCommit = attempts[n].commit
  BY <1>0, LastDeclares DEF Last
<1> HIDE DEF n
<1>3. Declaring' = Declaring /\ Declaring \subseteq 1..n  BY <1>1 DEF Declaring
<1>4. \A k \in Declaring : latest(k) <=> DeclaredBy(k)
  BY <1>1, <1>3 DEF DeclaredBy
<1>5. DeclaredCommit' = attempts'[d].commit
  BY <1>3 DEF DeclaredCommit, DeclaredBy
<1> HIDE DEF latest
<1>6. d \in Declaring /\ DeclaredBy(d)
  <2>1. latest(n)  BY <1>2, <1>4
  <2>2. d \in Declaring /\ latest(d)  BY <1>2, <2>1
  <2> QED  BY <1>4, <2>2
<1> HIDE DEF d
<1>7. d = n
  <2>1. \/ attempts[n].round < attempts[d].round
        \/ attempts[n].round = attempts[d].round /\ n <= d
    BY <1>2, <1>6 DEF DeclaredBy
  <2>2. \/ attempts[d].round < attempts[n].round
        \/ attempts[d].round = attempts[n].round /\ d <= n
    BY <1>2, <1>6 DEF DeclaredBy
  <2>3. attempts[n].round \in Nat /\ attempts[d].round \in Nat /\ d \in 1..n
    BY <1>0, <1>1, <1>3, <1>6, AttemptsAreRecords
  <2> QED  BY <1>1, <2>1, <2>2, <2>3
<1> QED  BY <1>1, <1>2, <1>5, <1>7

LEMMA VerdictReviewed ==
    ASSUME IInv, at = "turn", turn.phase = task.status, NEW how, NEW result \in Result,
           Reviewing(how, result), at' = "outcome",
           attempts' # <<>>, Last'.outcome = result.status
    PROVE  Reviewed'
<1>0. Shapes /\ Blocked.status = "blocked" /\ turn.base = DeclaredCommit
  BY RestsAreOutcomes DEF IInv, Reviewed, Reviewing
<1>1. PICK verdict \in {"approved", "issues_found"}, d \in Declarations,
           sealed \in BOOLEAN, base \in Nat :
        /\ Sound(verdict, d)
        /\ attempts' = Attested(result, base, sealed)
        /\ ledger' = Reconcile(ledger, d, LedgerRound, verdict = "approved")
        /\ result = IF sealed THEN ReviewOutcome(verdict, Assessment(ledger')) ELSE Blocked
  BY DEF Reviewing
<1>2. turn.phase = "review" /\ tree.head = turn.base  BY DEF Reviewing, Wrote
<1>3. Last'.commit = tree.head
  <2>1. attempts' = Attested(result, base, sealed)  BY <1>1
  <2>2. Shapes /\ turn.phase \in {"coding", "review", "fix"}  BY <1>0, <1>2
  <2>3. Last' = [phase |-> turn.phase, round |-> task.round, base |-> base,
                 commit |-> tree.head, outcome |-> result.status,
                 next |-> result.round, sealed |-> sealed]
    BY <2>1, <2>2, AttestedIs
  <2> QED  BY <2>3
<1>4. DeclaredCommit' = DeclaredCommit  BY <1>1, <1>2, ReviewsDeclareNothing
<1>5. CASE result.status = "blocked"
  BY <1>5 DEF Reviewed
<1>6. CASE sealed /\ verdict = "approved"
  <2>1. result = Onward("merging")
    BY <1>0, <1>1, <1>6, VerdictsAreOutcomes
  <2>2. result.status = "merging"  BY <2>1 DEF Onward
  <2>3. Open(ledger') = {}
    <3>1. (verdict = "approved") \in BOOLEAN  OBVIOUS
    <3> QED  BY <1>0, <1>1, <1>6, <3>1, Reconciled
  <2> QED  BY <1>0, <1>2, <1>3, <1>4, <2>2, <2>3 DEF Reviewed
<1>7. CASE sealed /\ verdict # "approved" /\ result.status # "blocked"
  <2>1. result = [status |-> "fix", resume |-> "fix", round |-> task.round + 1]
    BY <1>0, <1>1, <1>7, VerdictsAreOutcomes
  <2>2. result.status = "fix"  BY <2>1
  <2>3. Open(ledger') # {}
    <3>1. (verdict = "approved") = FALSE  BY <1>7
    <3>2. d.repeats # {} \/ d.fresh # <<>>  BY <1>1, <1>7 DEF Sound
    <3> QED  BY <1>0, <1>1, <3>1, <3>2, Reconciled
  <2> QED  BY <2>2, <2>3 DEF Reviewed
<1> QED  BY <1>0, <1>1, <1>5, <1>6, <1>7

LEMMA NextReviewed ==
    ASSUME IInv, Step
    PROVE  Reviewed'
<1>0. Shapes /\ Reviewed /\ Placed /\ turn \in Turn
  BY ShapesAre DEF IInv, HandShape
<1>1. CASE \/ Claim \/ ReturnCancelled \/ EnterEnvironment \/ EnvironmentRefused
           \/ ReuseEnvironment \/ StartPreparing \/ CommandsSucceed \/ CommandsFail
           \/ AcceptFailure \/ PreparationFails \/ MarkPrepared \/ RecordPreparation
           \/ LeaveEnvironment \/ RefreshUnstarted \/ RefreshRefused \/ SkipCommands
  <2>1. UNCHANGED <<attempts, ledger, assessments>> /\ at' \notin {"turn", "steered"}
    BY <1>1
       DEF Claim, ReturnCancelled, EnterEnvironment, EnvironmentRefused, ReuseEnvironment,
           StartPreparing, CommandsSucceed, CommandsFail, AcceptFailure, PreparationFails,
           MarkPrepared, RecordPreparation, LeaveEnvironment, RefreshUnstarted,
           RefreshRefused, SkipCommands, StopOrBlock, Block, Control, Nothing
  <2> QED  BY <2>1, ReviewedStands
<1>2. CASE \/ RouteToCoding \/ RouteToReview \/ RestoreLaterPhase \/ ApplyOutcome
           \/ CodingRefused \/ ResumeCoding \/ LoopRefused \/ ResumeLoop
           \/ MergePhase \/ WorkerSettled \/ Crash \/ Lose
  <2>1. UNCHANGED <<attempts, ledger, assessments>> /\ at' \notin {"turn", "steered"}
    <3>1. CASE ResumeLoop
      BY <3>1, AttemptIsResumed DEF ResumeLoop, Nothing
    <3>2. CASE ~ResumeLoop
      BY <1>2, <3>2
         DEF RouteToCoding, RouteToReview, RestoreLaterPhase, ApplyOutcome, CodingRefused,
             ResumeCoding, LoopRefused, MergePhase, WorkerSettled, Crash, Lose,
             Block, Control, Nothing
    <3> QED  BY <3>1, <3>2
  <2> QED  BY <2>1, ReviewedStands
<1>3. CASE StartCoding
  <2>1. /\ UNCHANGED <<attempts, ledger, assessments>> /\ at' = "turn"
        /\ turn'.phase = "coding"
    BY <1>3 DEF StartCoding, StartTurn, Nothing
  <2> QED  BY <2>1, ReviewedStands
<1>4. CASE StartReview
  <2>1. /\ UNCHANGED <<attempts, ledger, assessments>> /\ at' = "turn"
        /\ turn'.phase = "review" /\ turn'.base = DeclaredCommit
    BY <1>4 DEF StartReview, StartTurn, LoopReady, Nothing
  <2> QED  BY <2>1, ReviewedStands
<1>5. CASE StartSteering
  <2>1. /\ UNCHANGED <<attempts, ledger, assessments>> /\ at' = "turn"
        /\ turn'.phase = "steering" /\ StuckRound(assessments)
    BY <1>5 DEF StartSteering, StartTurn, NeedsNote, Nothing
  <2> QED  BY <2>1, ReviewedStands
<1>6. CASE StartFix
  <2>1. /\ UNCHANGED <<attempts, ledger, assessments, notes>> /\ at' = "turn"
        /\ turn'.phase = "fix"
    BY <1>6 DEF StartFix, StartTurn, Nothing
  <2>2. StuckRound(assessments) => Verdict \in notes
    BY <1>0, <1>6 DEF StartFix, NeedsNote, Reviewed
  <2> QED  BY <2>1, <2>2, ReviewedStands
<1>7. CASE AssembleNote
  <2>1. /\ UNCHANGED <<attempts, ledger, assessments>> /\ at' = "steered"
        /\ Verdict \in notes'
    BY <1>7 DEF AssembleNote
  <2> QED  BY <2>1, ReviewedStands
<1>8. CASE FinishSteering
  <2>1. UNCHANGED <<attempts, ledger, assessments>>  BY <1>8 DEF FinishSteering
  <2>2. at' # "turn" /\ (at' = "steered" => Verdict \in notes')
    BY <1>8 DEF FinishSteering, FinishTurn
  <2> QED  BY <2>1, <2>2, ReviewedStands
<1>9. CASE FinishCoding \/ FinishReview \/ FinishFix
  <2>1. /\ at = "turn" /\ turn.phase = task.status
        /\ turn.phase \in {"coding", "review", "fix"}
    BY <1>9, TurnsAreCompleted
  <2>2. PICK how, result :
          /\ result \in Result
          /\ FinishTurn(how, result, "outcome")
          /\ Unfinished(how, result) \/ Recording(how, result) \/ Reviewing(how, result)
    BY <1>9, TurnsAreCompleted
  <2>3. at' = "outcome"  BY <2>2 DEF FinishTurn
  <2>4. CASE Unfinished(how, result)
    BY <2>3, <2>4, ReviewedStands DEF Unfinished
  <2>5. CASE Recording(how, result) /\ Last'.outcome = result.status
    <3>1. result.status \in {"blocked", "failed", "review"}
      BY <2>5 DEF Recording, Onward
    <3> QED  BY <2>3, <2>5, <3>1 DEF Reviewed
  <2>6. CASE Reviewing(how, result) /\ Last'.outcome = result.status /\ attempts' # <<>>
    BY <2>1, <2>2, <2>3, <2>6, VerdictReviewed
  <2> QED  BY <2>1, <2>2, <2>4, <2>5, <2>6, FinishRecorded
<1>10. CASE AgentActs \/ OrphanActs \/ UserStops
  <2>1. /\ UNCHANGED <<at, attempts, ledger, assessments, notes>>
        /\ turn'.phase = turn.phase /\ turn'.base = turn.base
    BY <1>0, <1>10 DEF AgentActs, OrphanActs, UserStops, Nothing, Turn
  <2> QED  BY <1>0, <2>1, ReviewedStands DEF Reviewed
<1> QED
  BY <1>1, <1>2, <1>3, <1>4, <1>5, <1>6, <1>7, <1>8, <1>9, <1>10
     DEF Step, Worker, OwnStep, Awaited
---------------------------------------------------------------------------------
\* What the rounds have cost.
Graded(s, v) == {k \in DOMAIN s : s[k].refunded = v}

LEMMA GradedIsCounted ==
    ASSUME NEW s \in Seq(AssessmentRecord), NEW v
    PROVE  IsFiniteSet(Graded(s, v)) /\ Graded(s, v) \subseteq 1..Len(s)
           /\ Cardinality(Graded(s, v)) \in Nat
<1>1. IsFiniteSet(1..Len(s)) /\ DOMAIN s = 1..Len(s)  BY FS_Interval
<1>2. Graded(s, v) \subseteq 1..Len(s)  BY <1>1 DEF Graded
<1> QED  BY <1>1, <1>2, FS_Subset, FS_CardinalityType

LEMMA OneMoreGraded ==
    ASSUME NEW s \in Seq(AssessmentRecord), NEW a \in AssessmentRecord, NEW v
    PROVE  Cardinality(Graded(Append(s, a), v))
             = Cardinality(Graded(s, v)) + (IF a.refunded = v THEN 1 ELSE 0)
<1> DEFINE n == Len(s)
           t == Append(s, a)
<1>1. /\ n \in Nat /\ DOMAIN s = 1..n /\ DOMAIN t = 1..(n + 1)
      /\ t[n + 1] = a /\ \A k \in 1..n : t[k] = s[k]
  OBVIOUS
<1>2. /\ IsFiniteSet(Graded(s, v)) /\ Cardinality(Graded(s, v)) \in Nat
      /\ n + 1 \notin Graded(s, v)
  BY <1>1, GradedIsCounted
<1> HIDE DEF t, n
<1>3. CASE a.refunded = v
  <2>1. Graded(t, v) = Graded(s, v) \cup {n + 1}  BY <1>1, <1>3 DEF Graded
  <2>2. Cardinality(Graded(t, v)) = Cardinality(Graded(s, v)) + 1
    BY <1>2, <2>1, FS_AddElement
  <2> QED  BY <1>3, <2>2 DEF t
<1>4. CASE a.refunded # v
  <2>1. Graded(t, v) = Graded(s, v)  BY <1>1, <1>4 DEF Graded
  <2> QED  BY <1>2, <1>4, <2>1 DEF t
<1> QED  BY <1>3, <1>4

\* What had been charged by round k is a matter of the first k assessments.
LEMMA PrefixIsCounted ==
    ASSUME NEW s \in Seq(AssessmentRecord), NEW k \in 1..Len(s)
    PROVE  Charged(SubSeq(s, 1, k)) = Cardinality({i \in 1..k : s[i].refunded = "charged"})
<1>1. Len(s) \in Nat /\ k \in Nat /\ 1 <= k /\ k <= Len(s)  OBVIOUS
<1>2. /\ SubSeq(s, 1, k) \in Seq(AssessmentRecord)
      /\ Len(SubSeq(s, 1, k)) = IF 1 <= k THEN k - 1 + 1 ELSE 0
      /\ \A i \in 1..(k - 1 + 1) : SubSeq(s, 1, k)[i] = s[1 + i - 1]
  BY <1>1, SubSeqProperties
<1>3. k - 1 + 1 = k /\ \A i \in 1..k : 1 + i - 1 = i  BY <1>1
<1>4. DOMAIN SubSeq(s, 1, k) = 1..k /\ \A i \in 1..k : SubSeq(s, 1, k)[i] = s[i]
  BY <1>1, <1>2, <1>3
<1>5. {i \in DOMAIN SubSeq(s, 1, k) : SubSeq(s, 1, k)[i].refunded = "charged"}
        = {i \in 1..k : s[i].refunded = "charged"}
  BY <1>4
<1> QED  BY <1>5 DEF Charged

LEMMA AssessedStands ==
    ASSUME Assessed, UNCHANGED <<attempts, ledger, assessments>>
    PROVE  Assessed'
<1>1. Last' = Last  BY DEF Last
<1>2. \A k : RoundsLeft(k)' <=> RoundsLeft(k)  BY DEF RoundsLeft
<1>3. BudgetBoundsGrinding'
  BY <1>2 DEF Assessed, BudgetBoundsGrinding, RejectedAt
<1>4. LedgerFollowsTheRounds'  BY DEF Assessed, LedgerFollowsTheRounds
<1>5. Accounted'  BY DEF Assessed, Accounted, Refunded
<1> QED  BY <1>1, <1>3, <1>4, <1>5 DEF Assessed
\* How many rounds have been assessed where a turn of the loop begins.
LEMMA RoundsAreAssessed ==
    ASSUME IInv, at = "turn", turn.phase = task.status,
           turn.phase \in {"coding", "review", "fix"}
    PROVE  /\ Len(assessments) = task.round /\ task.round \in Nat
           /\ DOMAIN assessments = 1..task.round
           /\ \A k \in 1..task.round : assessments[k].round = k
<1>1. /\ task.round \in Nat
      /\ task.status = "coding" => attempts = <<>> /\ task.round = 0
      /\ task.status \in {"review", "fix"} => Due(task.status)
  BY TurnIsDue
<1>2. assessments \in Seq(AssessmentRecord)  BY DEF IInv, Shapes, PipelineTypeOK
<1>3. Len(assessments) = task.round
  <2>1. CASE task.status = "coding"
    <3>1. assessments = <<>>  BY <1>1, <2>1 DEF IInv, Assessed
    <3> QED  BY <1>1, <2>1, <3>1
  <2>2. CASE task.status \in {"review", "fix"}
    BY <1>1, <2>2 DEF IInv, Assessed, Due
  <2> QED  BY <2>1, <2>2
<1>4. DOMAIN assessments = 1..task.round  BY <1>2, <1>3
<1>5. \A k \in DOMAIN assessments : assessments[k].round = k
  BY DEF IInv, Assessed, LedgerFollowsTheRounds
<1> QED  BY <1>1, <1>3, <1>4, <1>5

LEMMA RecordingAssessed ==
    ASSUME IInv, at = "turn", turn.phase = task.status,
           turn.phase \in {"coding", "review", "fix"}, NEW how, NEW result \in Result,
           Recording(how, result)
    PROVE  Assessed'
<1> DEFINE n == Len(attempts)
<1>0. Shapes /\ Recorded /\ Assessed  BY DEF IInv
<1>1. PICK base \in Nat, sealed \in BOOLEAN :
        /\ attempts' = Attested(result, base, sealed)
        /\ \/ result.status \in {"blocked", "failed"}
           \/ turn.phase \in {"coding", "fix"} /\ result = Onward("review")
  BY DEF Recording
<1>2. /\ attempts' # <<>> /\ DOMAIN attempts' = 1..(n + 1) /\ n \in Nat
      /\ DOMAIN attempts = 1..n
      /\ \A k \in 1..n : attempts'[k] = attempts[k]
      /\ attempts'[n + 1] = Last'
      /\ Last'.phase = turn.phase /\ Last'.round = task.round
      /\ Last'.outcome = result.status /\ Last'.next = result.round
  <2>1. n \in Nat /\ DOMAIN attempts = 1..n  BY <1>0 DEF Shapes, PipelineTypeOK
  <2> QED  BY <1>0, <1>1, <2>1, AttestedIs
<1>3. /\ Len(assessments) = task.round /\ task.round \in Nat
      /\ DOMAIN assessments = 1..task.round
      /\ \A k \in 1..task.round : assessments[k].round = k
  BY RoundsAreAssessed
<1>4. UNCHANGED <<ledger, assessments>>  BY DEF Recording
<1> HIDE DEF n
<1>5. Accounted'  BY <1>0, <1>4 DEF Assessed, Accounted, Refunded
<1>6. Last'.outcome \in {"review", "fix"} => Len(assessments') = Last'.next
  BY <1>1, <1>2, <1>3, <1>4 DEF Onward
<1>7. LedgerFollowsTheRounds'
  <2>1. \A j \in 1..(n + 1) :
          attempts'[j].phase = "review" /\ attempts'[j].outcome \in {"fix", "merging"} =>
             attempts'[j].round + 1 \in DOMAIN assessments
    <3>1. \A j \in 1..n :
            attempts[j].phase = "review" /\ attempts[j].outcome \in {"fix", "merging"} =>
               attempts[j].round + 1 \in DOMAIN assessments
      BY <1>0, <1>2 DEF Assessed, LedgerFollowsTheRounds
    <3>2. ~(Last'.phase = "review" /\ Last'.outcome \in {"fix", "merging"})
      BY <1>1, <1>2 DEF Onward
    <3>3. \A j \in 1..(n + 1) : j \in 1..n \/ j = n + 1  BY <1>2
    <3> QED  BY <1>2, <3>1, <3>2, <3>3
  <2> QED  BY <1>0, <1>2, <1>4, <2>1 DEF Assessed, LedgerFollowsTheRounds
<1>8. BudgetBoundsGrinding'
  <2>1. \A k : RoundsLeft(k)' <=> RoundsLeft(k)  BY <1>4 DEF RoundsLeft
  <2>2. \A j \in 1..n, k \in DOMAIN assessments :
          RejectedAt(attempts[j], k) => (attempts[j].outcome = "fix" <=> RoundsLeft(k))
    BY <1>0, <1>2 DEF Assessed, BudgetBoundsGrinding
  <2>3. \A k \in 1..task.round : Last'.round + 1 # assessments[k].round
    BY <1>2, <1>3
  <2> SUFFICES ASSUME NEW j \in 1..(n + 1), NEW k \in 1..task.round,
                      attempts'[j].phase = "review", attempts'[j].sealed,
                      attempts'[j].round + 1 = assessments[k].round,
                      attempts'[j].outcome # "merging"
               PROVE  attempts'[j].outcome = "fix" <=> RoundsLeft(k)
    BY <1>2, <1>3, <1>4, <2>1 DEF BudgetBoundsGrinding, RejectedAt
  <2>4. CASE j \in 1..n
    <3>1. RejectedAt(attempts[j], k)  BY <1>2, <2>4 DEF RejectedAt
    <3> QED  BY <1>2, <1>3, <2>2, <2>4, <3>1
  <2>5. CASE j = n + 1
    BY <1>2, <2>3, <2>5
  <2> QED  BY <1>2, <2>4, <2>5
<1> QED  BY <1>0, <1>2, <1>4, <1>5, <1>6, <1>7, <1>8 DEF Assessed
\* One more round: it is charged, refunded, or within the minimum.
LEMMA OneMoreAccounted ==
    ASSUME Shapes, Assessed, NEW a \in AssessmentRecord,
           assessments' = Append(assessments, a),
           (a.refunded = "inside") <=> Len(assessments) + 1 <= MinRounds
    PROVE  /\ Accounted'
           /\ Len(assessments') = Len(assessments) + 1
           /\ Charged(assessments') \in Nat /\ Refunded(assessments') \in Nat
           /\ Refunded(assessments')
                = Refunded(assessments) + (IF a.refunded = "refunded" THEN 1 ELSE 0)
<1> DEFINE n == Len(assessments)
           c == Charged(assessments)
           r == Refunded(assessments)
           c1 == Charged(assessments')
           r1 == Refunded(assessments')
<1>0. assessments \in Seq(AssessmentRecord) /\ n \in Nat  BY DEF Shapes, PipelineTypeOK
<1>1. /\ assessments' \in Seq(AssessmentRecord) /\ Len(assessments') = n + 1
  BY <1>0
<1>2. /\ c = Cardinality(Graded(assessments, "charged"))
      /\ r = Cardinality(Graded(assessments, "refunded"))
      /\ c1 = Cardinality(Graded(assessments', "charged"))
      /\ r1 = Cardinality(Graded(assessments', "refunded"))
  BY DEF Charged, Refunded, Graded
<1>3. /\ c1 = c + (IF a.refunded = "charged" THEN 1 ELSE 0)
      /\ r1 = r + (IF a.refunded = "refunded" THEN 1 ELSE 0)
  <2>1. /\ Cardinality(Graded(assessments', "charged"))
             = Cardinality(Graded(assessments, "charged"))
               + (IF a.refunded = "charged" THEN 1 ELSE 0)
        /\ Cardinality(Graded(assessments', "refunded"))
             = Cardinality(Graded(assessments, "refunded"))
               + (IF a.refunded = "refunded" THEN 1 ELSE 0)
    BY <1>0, OneMoreGraded
  <2> QED  BY <1>2, <2>1
<1>4. c \in Nat /\ r \in Nat  BY <1>0, <1>2, GradedIsCounted
<1>5. IF n <= MinRounds THEN c = 0 /\ r = 0 ELSE n = MinRounds + c + r
  BY DEF Assessed, Accounted
<1>6. a.refunded \in {"inside", "charged", "refunded"}
  BY DEF AssessmentRecord, RefundRecorded
<1>7. MinRounds \in Nat  BY PipelineAssumption
<1> HIDE DEF n, c, r, c1, r1
<1>8. (a.refunded = "inside") <=> n + 1 <= MinRounds  BY DEF n
<1>9. c1 \in Nat /\ r1 \in Nat
  BY <1>3, <1>4
<1>10. IF n + 1 <= MinRounds THEN c1 = 0 /\ r1 = 0 ELSE n + 1 = MinRounds + c1 + r1
  <2>1. CASE n + 1 <= MinRounds
    BY <1>0, <1>3, <1>4, <1>5, <1>7, <1>8, <2>1
  <2>2. CASE ~(n + 1 <= MinRounds)
    <3>1. n = MinRounds + c + r
      BY <1>0, <1>4, <1>5, <1>7, <2>2
    <3>2. c1 + r1 = c + r + 1  BY <1>3, <1>4, <1>6, <1>8, <2>2
    <3> QED  BY <1>0, <1>4, <1>7, <1>9, <2>2, <3>1, <3>2
  <2> QED  BY <2>1, <2>2
<1>11. Accounted'
  BY <1>1, <1>10 DEF Accounted, c1, r1
<1> QED  BY <1>1, <1>3, <1>9, <1>11 DEF n, r, c1, r1

\* The code's bound on rounds net of refunds is the model's on charges.
LEMMA ContinuesWhileRoundsAreLeft ==
    ASSUME Shapes, Assessed, task.round = Len(assessments), NEW a \in AssessmentRecord,
           assessments' = Append(assessments, a), a.round = task.round + 1,
           NEW k, k = task.round + 1,
           (a.refunded = "inside") <=> task.round + 1 <= MinRounds
    PROVE  Continues(LedgerRound, MinRounds, GrantBudget, a.refunded, assessments)
             <=> RoundsLeft(k)'
<1> DEFINE n == Len(assessments)
           r == Refunded(assessments)
           c1 == Charged(assessments')
           r1 == Refunded(assessments')
<1>0. assessments \in Seq(AssessmentRecord) /\ n \in Nat /\ LedgerRound = n + 1
      /\ DOMAIN assessments = 1..n
  BY DEF Shapes, PipelineTypeOK, LedgerRound
<1>1. /\ Accounted' /\ Len(assessments') = n + 1
      /\ c1 \in Nat /\ r1 \in Nat
      /\ r1 = r + (IF a.refunded = "refunded" THEN 1 ELSE 0)
  BY OneMoreAccounted
<1>2. RefundedBefore(assessments, n + 1) = r
  <2>1. \A i \in 1..n : assessments[i].round = i
    BY <1>0 DEF Assessed, LedgerFollowsTheRounds
  <2>2. \A i \in 1..n : i < n + 1  BY <1>0
  <2>3. {i \in DOMAIN assessments :
           assessments[i].round < n + 1 /\ assessments[i].refunded = "refunded"}
          = {i \in DOMAIN assessments : assessments[i].refunded = "refunded"}
    <3> HIDE DEF n
    <3> QED  BY <1>0, <2>1, <2>2
  <2> QED  BY <2>3 DEF RefundedBefore, Refunded
<1>3. Continues(LedgerRound, MinRounds, GrantBudget, a.refunded, assessments)
        <=> (n + 1) - r1 < MinRounds + GrantBudget
  BY <1>0, <1>1, <1>2 DEF Continues
<1>4. assessments'[n + 1] = a /\ assessments' \in Seq(AssessmentRecord)
      /\ n + 1 \in 1..Len(assessments')
  BY <1>0, <1>1
<1>5. Charged(SubSeq(assessments', 1, n + 1)) = c1
  <2>1. Charged(SubSeq(assessments', 1, n + 1))
          = Cardinality({i \in 1..(n + 1) : assessments'[i].refunded = "charged"})
    BY <1>4, PrefixIsCounted
  <2>2. DOMAIN assessments' = 1..(n + 1)  BY <1>1, <1>4
  <2> QED  BY <2>1, <2>2 DEF Charged
<1>6. RoundsLeft(k)' <=> n + 1 < MinRounds \/ c1 < GrantBudget
  <2>1. k = n + 1 /\ a.round = n + 1  OBVIOUS
  <2> QED  BY <1>4, <1>5, <2>1 DEF RoundsLeft
<1>7. IF n + 1 <= MinRounds THEN c1 = 0 /\ r1 = 0 ELSE n + 1 = MinRounds + c1 + r1
  BY <1>1 DEF Accounted
<1>8. MinRounds \in Nat /\ GrantBudget \in Nat  BY PipelineAssumption
<1> HIDE DEF n, r, c1, r1
<1>9. (n + 1) - r1 < MinRounds + GrantBudget <=> n + 1 < MinRounds \/ c1 < GrantBudget
  BY <1>0, <1>1, <1>7, <1>8
<1> QED  BY <1>3, <1>6, <1>9
LEMMA ReviewingAssessed ==
    ASSUME IInv, at = "turn", turn.phase = task.status,
           NEW how, NEW result \in Result, Reviewing(how, result)
    PROVE  Assessed'
<1> DEFINE n == Len(attempts)
           m == task.round
           a == Assessment(ledger')
<1>0. Shapes /\ Recorded /\ Assessed /\ Blocked.status = "blocked"
  BY RestsAreOutcomes DEF IInv
<1>1. PICK verdict \in {"approved", "issues_found"}, d \in Declarations,
           sealed \in BOOLEAN, base \in Nat :
        /\ attempts' = Attested(result, base, sealed)
        /\ ledger' = Reconcile(ledger, d, LedgerRound, verdict = "approved")
        /\ assessments' = Append(assessments, Assessment(ledger'))
        /\ result = IF sealed THEN ReviewOutcome(verdict, Assessment(ledger')) ELSE Blocked
  BY DEF Reviewing
<1>2. turn.phase = "review"  BY DEF Reviewing
<1>3. /\ m \in Nat /\ Len(assessments) = m
      /\ DOMAIN assessments = 1..m
      /\ \A k \in 1..m : assessments[k].round = k
      /\ assessments \in Seq(AssessmentRecord)
  BY <1>0, <1>2, RoundsAreAssessed DEF Shapes, PipelineTypeOK
<1>4. /\ attempts' # <<>> /\ DOMAIN attempts' = 1..(n + 1) /\ n \in Nat
      /\ DOMAIN attempts = 1..n
      /\ \A k \in 1..n : attempts'[k] = attempts[k]
      /\ attempts'[n + 1] = Last'
      /\ Last'.phase = turn.phase /\ Last'.round = m
      /\ Last'.outcome = result.status /\ Last'.next = result.round
      /\ Last'.sealed = sealed
  <2>1. n \in Nat /\ DOMAIN attempts = 1..n  BY <1>0 DEF Shapes, PipelineTypeOK
  <2>2. attempts' = Attested(result, base, sealed)  BY <1>1
  <2> QED  BY <1>0, <1>2, <2>1, <2>2, AttestedIs
<1>5. /\ ledger' \in Seq(Row)
      /\ \A i \in Open(ledger') : ledger'[i].last = m + 1
  <2>1. (verdict = "approved") \in BOOLEAN  OBVIOUS
  <2> QED  BY <1>0, <1>1, <2>1, Reconciled DEF LedgerRound
<1>6. /\ a \in AssessmentRecord /\ a.round = m + 1
      /\ a.open = Cardinality(Open(ledger'))
      /\ (a.refunded = "inside") <=> m + 1 <= MinRounds
  BY <1>0, <1>5, AssessmentIsRecord
<1> HIDE DEF n, a
<1>7. /\ assessments' = Append(assessments, a)
      /\ Len(assessments') = m + 1 /\ DOMAIN assessments' = 1..(m + 1)
      /\ \A k \in 1..m : assessments'[k] = assessments[k]
      /\ assessments'[m + 1] = a
      /\ assessments' \in Seq(AssessmentRecord)
  <2>1. assessments' = Append(assessments, a)  BY <1>1 DEF a
  <2> HIDE DEF m
  <2> QED  BY <1>3, <1>6, <2>1
<1>8. result.status \in {"merging", "fix", "blocked"}
      /\ (result.status = "fix" => result.round = m + 1)
      /\ (sealed /\ verdict = "approved" => result.status = "merging")
      /\ (sealed /\ verdict # "approved" =>
            (result.status = "fix"
               <=> Continues(LedgerRound, MinRounds, GrantBudget, a.refunded, assessments)))
  <2>1. CASE sealed
    <3>1. result = ReviewOutcome(verdict, a)  BY <1>1, <2>1 DEF a
    <3>2. CASE verdict = "approved"
      <4>1. result = Onward("merging")  BY <1>0, <3>1, <3>2, VerdictsAreOutcomes
      <4> QED  BY <3>2, <4>1 DEF Onward
    <3>3. CASE verdict # "approved"
      <4>1. IF Continues(LedgerRound, MinRounds, GrantBudget, a.refunded, assessments)
            THEN result = [status |-> "fix", resume |-> "fix", round |-> task.round + 1]
            ELSE result.status = "blocked"
        BY <1>0, <3>1, <3>3, VerdictsAreOutcomes
      <4> QED  BY <3>3, <4>1
    <3> QED  BY <3>2, <3>3
  <2>2. CASE ~sealed  BY <1>0, <1>1, <2>2
  <2> QED  BY <2>1, <2>2
<1>9. \A k \in DOMAIN assessments' : (assessments'[k].refunded = "inside") <=> k <= MinRounds
  <2>1. \A k \in 1..m : (assessments[k].refunded = "inside") <=> k <= MinRounds
    BY <1>0, <1>3 DEF Assessed
  <2>2. \A k \in 1..(m + 1) : k \in 1..m \/ k = m + 1  BY <1>3
  <2> QED  BY <1>6, <1>7, <2>1, <2>2
<1>10. Accounted'
  BY <1>0, <1>3, <1>6, <1>7, OneMoreAccounted
<1>11. Last'.outcome \in {"review", "fix"} => Len(assessments') = Last'.next
  BY <1>4, <1>7, <1>8
<1>12. LedgerFollowsTheRounds'
  <2>1. \A k \in DOMAIN assessments' : assessments'[k].round = k
    <3>1. \A k \in 1..(m + 1) : k \in 1..m \/ k = m + 1  BY <1>3
    <3> QED  BY <1>3, <1>6, <1>7, <3>1
  <2>2. \A j \in 1..(n + 1) :
          attempts'[j].phase = "review" /\ attempts'[j].outcome \in {"fix", "merging"} =>
             attempts'[j].round + 1 \in 1..(m + 1)
    <3>1. \A j \in 1..n :
            attempts[j].phase = "review" /\ attempts[j].outcome \in {"fix", "merging"} =>
               attempts[j].round + 1 \in 1..m
      BY <1>0, <1>3, <1>4 DEF Assessed, LedgerFollowsTheRounds
    <3>2. \A j \in 1..(n + 1) : j \in 1..n \/ j = n + 1  BY <1>4
    <3>3. 1..m \subseteq 1..(m + 1) /\ m + 1 \in 1..(m + 1)  BY <1>3
    <3> QED  BY <1>4, <3>1, <3>2, <3>3
  <2>3. assessments'[Len(assessments')] = a  BY <1>7
  <2> QED  BY <1>4, <1>5, <1>6, <1>7, <2>1, <2>2, <2>3 DEF LedgerFollowsTheRounds
<1>13. BudgetBoundsGrinding'
  <2>1. \A k \in 1..m : RoundsLeft(k)' <=> RoundsLeft(k)
    <3> SUFFICES ASSUME NEW k \in 1..m  PROVE RoundsLeft(k)' <=> RoundsLeft(k)  OBVIOUS
    <3>1. k \in 1..Len(assessments) /\ k \in 1..Len(assessments') /\ 1..k \subseteq 1..m
      BY <1>3, <1>7
    <3>2. Charged(SubSeq(assessments, 1, k))
            = Cardinality({i \in 1..k : assessments[i].refunded = "charged"})
      BY <1>3, <3>1, PrefixIsCounted
    <3>3. Charged(SubSeq(assessments', 1, k))
            = Cardinality({i \in 1..k : assessments'[i].refunded = "charged"})
      BY <1>7, <3>1, PrefixIsCounted
    <3>4. {i \in 1..k : assessments'[i].refunded = "charged"}
            = {i \in 1..k : assessments[i].refunded = "charged"}
      BY <1>7, <3>1
    <3>5. assessments'[k] = assessments[k]  BY <1>7
    <3>6. Charged(SubSeq(assessments', 1, k)) = Charged(SubSeq(assessments, 1, k))
      BY <3>2, <3>3, <3>4
    <3> QED  BY <3>5, <3>6 DEF RoundsLeft
  <2>2. \A j \in 1..n : attempts[j].phase # "review" \/ attempts[j].round # m
    BY <1>2, <1>4, TurnIsDue
  <2> SUFFICES ASSUME NEW j \in 1..(n + 1), NEW k \in 1..(m + 1),
                      attempts'[j].phase = "review", attempts'[j].sealed,
                      attempts'[j].round + 1 = assessments'[k].round,
                      attempts'[j].outcome # "merging"
               PROVE  attempts'[j].outcome = "fix" <=> RoundsLeft(k)'
    BY <1>4, <1>7 DEF BudgetBoundsGrinding, RejectedAt
  <2>3. CASE j \in 1..n /\ k \in 1..m
    <3>1. RejectedAt(attempts[j], k)  BY <1>4, <1>7, <2>3 DEF RejectedAt
    <3>2. attempts[j].outcome = "fix" <=> RoundsLeft(k)
      BY <1>0, <1>3, <1>4, <2>3, <3>1 DEF Assessed, BudgetBoundsGrinding
    <3> QED  BY <1>4, <2>1, <2>3, <3>2
  <2>4. CASE j \in 1..n /\ k = m + 1
    <3>1. attempts[j].round \in Nat  BY <1>0, <1>4, <2>4, AttemptsAreRecords
    <3>2. attempts[j].round + 1 = m + 1 /\ attempts[j].phase = "review"
      BY <1>4, <1>6, <1>7, <2>4
    <3> QED  BY <1>3, <2>2, <2>4, <3>1, <3>2
  <2>5. CASE j = n + 1
    <3>1. k = m + 1
      <4>1. \A i \in 1..m : assessments'[i].round = i  BY <1>3, <1>7
      <4> QED  BY <1>3, <1>4, <2>5, <4>1
    <3>2. sealed /\ verdict # "approved"  BY <1>4, <1>8, <2>5
    <3>3. Continues(LedgerRound, MinRounds, GrantBudget, a.refunded, assessments)
            <=> RoundsLeft(k)'
      BY <1>0, <1>3, <1>6, <1>7, <3>1, ContinuesWhileRoundsAreLeft
    <3> QED  BY <1>4, <1>8, <2>5, <3>2, <3>3
  <2>6. (j \in 1..n \/ j = n + 1) /\ (k \in 1..m \/ k = m + 1)  BY <1>3, <1>4
  <2> QED  BY <2>3, <2>4, <2>5, <2>6
<1> QED  BY <1>4, <1>9, <1>10, <1>11, <1>12, <1>13 DEF Assessed

LEMMA NextAssessed ==
    ASSUME IInv, Step
    PROVE  Assessed'
<1>0. Assessed  BY DEF IInv
<1>1. CASE FinishCoding \/ FinishReview \/ FinishFix
  <2>1. /\ at = "turn" /\ turn.phase = task.status
        /\ turn.phase \in {"coding", "review", "fix"}
    BY <1>1, TurnsAreCompleted
  <2>2. PICK how, result :
          /\ result \in Result
          /\ Unfinished(how, result) \/ Recording(how, result) \/ Reviewing(how, result)
    BY <1>1, TurnsAreCompleted
  <2>3. CASE Unfinished(how, result)
    BY <1>0, <2>3, AssessedStands DEF Unfinished
  <2>4. CASE Recording(how, result)  BY <2>1, <2>2, <2>4, RecordingAssessed
  <2>5. CASE Reviewing(how, result)  BY <2>1, <2>2, <2>5, ReviewingAssessed
  <2> QED  BY <2>2, <2>3, <2>4, <2>5
<1>2. CASE ~(FinishCoding \/ FinishReview \/ FinishFix)
  <2>1. UNCHANGED <<attempts, ledger, assessments>>
    BY <1>2
       DEF Step, Worker, OwnStep, Awaited, RefreshUnstarted, RefreshRefused, SkipCommands,
           Claim, ReturnCancelled, EnterEnvironment, EnvironmentRefused,
           ReuseEnvironment, StartPreparing, CommandsSucceed, CommandsFail, AcceptFailure,
           PreparationFails, MarkPrepared, RecordPreparation, LeaveEnvironment, RouteToCoding,
           RouteToReview, RestoreLaterPhase, ApplyOutcome, CodingRefused, ResumeCoding,
           StartCoding, LoopRefused, ResumeLoop, StartReview, StartSteering, AssembleNote,
           FinishSteering, StartFix, MergePhase, WorkerSettled, AgentActs, OrphanActs,
           UserStops, Crash, Lose, StopOrBlock, Block, Control, Nothing
  <2> QED  BY <1>0, <2>1, AssessedStands
<1> QED  BY <1>1, <1>2

LEMMA NextRecorded ==
    ASSUME IInv, Step
    PROVE  Recorded'
<1>1. CASE FinishCoding \/ FinishReview \/ FinishFix
  <2>1. /\ at = "turn" /\ turn.phase = task.status
        /\ turn.phase \in {"coding", "review", "fix"}
    BY <1>1, TurnsAreCompleted
  <2>2. PICK how, result :
          /\ result \in Result
          /\ FinishTurn(how, result, "outcome")
          /\ Unfinished(how, result) \/ Recording(how, result) \/ Reviewing(how, result)
    BY <1>1, TurnsAreCompleted
  <2> QED  BY <2>1, <2>2, FinishRecorded
<1>2. CASE ~(FinishCoding \/ FinishReview \/ FinishFix)
  <2>1. UNCHANGED attempts
    BY <1>2
       DEF Step, Worker, OwnStep, Awaited, RefreshUnstarted, RefreshRefused, SkipCommands,
           Claim, ReturnCancelled, EnterEnvironment, EnvironmentRefused,
           ReuseEnvironment, StartPreparing, CommandsSucceed, CommandsFail, AcceptFailure,
           PreparationFails, MarkPrepared, RecordPreparation, LeaveEnvironment, RouteToCoding,
           RouteToReview, RestoreLaterPhase, ApplyOutcome, CodingRefused, ResumeCoding,
           StartCoding, LoopRefused, ResumeLoop, StartReview, StartSteering, AssembleNote,
           FinishSteering, StartFix, MergePhase, WorkerSettled, AgentActs, OrphanActs,
           UserStops, Crash, Lose, StopOrBlock, Block, Control, Nothing
  <2> QED  BY <2>1, RecordStands DEF IInv
<1> QED  BY <1>1, <1>2
---------------------------------------------------------------------------------
\* IInv holds at first and is preserved.
LEMMA InitIInv ==
    ASSUME PipelineInit
    PROVE  IInv
<1> USE DEF PipelineInit
<1>1. Shapes
  <2>1. /\ task \in Result /\ at \in Place /\ resumed \in Resumable
        /\ turn \in Turn /\ outcome \in Outcome
    BY NamesAreKnown DEF Result, Resumable, NoTurn, Turn, NoOutcome, Outcome
  <2>2. tree \in Tree  BY DEF Tree
  <2>3. RecordShape  BY DEF RecordShape
  <2>4. EnvShape  BY DEF EnvShape, EnvInit, NotStale
  <2>5. WorldShape  BY <2>2 DEF WorldShape
  <2> QED  BY <2>1, <2>3, <2>4, <2>5, ShapesAre DEF RowShape, HandShape
<1>2. Placed  BY DEF Placed, Terminal, Resumable, InEnvironment, InCheckout
<1>3. DOMAIN attempts = {} /\ DOMAIN assessments = {} /\ Len(attempts) = 0
      /\ Len(assessments) = 0
  OBVIOUS
<1>4. Recorded  BY <1>3 DEF Recorded, CompletedTurnsAreNotRepeated
<1>5. Positioned  BY <1>3 DEF Positioned, Terminal
<1>6. Reviewed  BY <1>3 DEF Reviewed
<1>7. Assessed
  <2>1. Charged(assessments) = 0 /\ Refunded(assessments) = 0
    <3>1. {k \in DOMAIN assessments : assessments[k].refunded = "charged"} = {}
          /\ {k \in DOMAIN assessments : assessments[k].refunded = "refunded"} = {}
      BY <1>3
    <3> QED  BY <3>1, FS_EmptySet DEF Charged, Refunded
  <2>2. Accounted  BY <1>3, <2>1, PipelineAssumption DEF Accounted
  <2>3. LedgerFollowsTheRounds  BY <1>3 DEF LedgerFollowsTheRounds
  <2>4. BudgetBoundsGrinding  BY <1>3 DEF BudgetBoundsGrinding
  <2> QED  BY <1>3, <2>2, <2>3, <2>4 DEF Assessed
<1>8. Prepared  BY DEF Prepared, EnvInit, NotStale, InCheckout
<1> QED  BY <1>1, <1>2, <1>4, <1>5, <1>6, <1>7, <1>8 DEF IInv

LEMMA NextIInv ==
    ASSUME IInv, [PipelineNext]_allVars
    PROVE  IInv'
<1>1. CASE Step
  BY <1>1, NextShapes, NextPlaced, NextRecorded, NextPositioned, NextReviewed, NextAssessed,
     NextPrepared
     DEF IInv
<1>2. ASSUME UNCHANGED pipelineVars, EnvShape', Prepared'
      PROVE  IInv'
  <2> USE <1>2 DEF pipelineVars
  <2>1. Shapes /\ Placed /\ Positioned /\ Reviewed /\ Assessed /\ Recorded
    BY DEF IInv
  <2>2. Last' = Last /\ DeclaredCommit' = DeclaredCommit /\ Recorded'
    BY <2>1, RecordStands
  <2>3. Shapes'
    BY <2>1, ShapesAre DEF RowShape, HandShape, WorldShape, RecordShape, Tree
  <2>4. Placed'  BY <2>1, StandsStill
  <2>5. CompletedHere' = CompletedHere /\ (InHand' <=> InHand)
    BY <2>2 DEF CompletedHere, InHand, Completed
  <2>6. Waits'  BY <2>1, WaitsOn, PositionedIs
  <2>7. Positioned'  BY <2>1, <2>5, <2>6, PositionedIs
  <2>8. Reviewed'  BY <2>1, ReviewedStands DEF Reviewed
  <2>9. Assessed'  BY <2>1, AssessedStands
  <2> QED  BY <2>2, <2>3, <2>4, <2>7, <2>8, <2>9 DEF IInv
<1>3. EnvShape /\ Prepared  BY ShapesAre DEF IInv
<1>4. CASE StaleGoesOn
  <2>1. StaleStep /\ UNCHANGED pipelineVars  BY <1>4 DEF StaleGoesOn
  <2>2. EnvShape'  BY <1>3, <2>1, StaleShapes
  <2>3. Prepared'  BY <1>3, <2>1, StalePrepared DEF pipelineVars
  <2> QED  BY <1>2, <2>1, <2>2, <2>3
<1>5. CASE UNCHANGED allVars
  <2>1. UNCHANGED pipelineVars /\ UNCHANGED envVars  BY <1>5 DEF allVars
  <2>2. EnvShape'  BY <1>3, <2>1, EnvStays
  <2>3. Prepared'
    BY <1>3, <2>1 DEF Prepared, Vouched, envVars, storeVars, ghostVars, pipelineVars
  <2> QED  BY <1>2, <2>1, <2>2, <2>3
<1> QED  BY <1>1, <1>4, <1>5 DEF PipelineNext, Step

\* Every state of the pipeline satisfies the inductive invariant.
THEOREM PipelineInvariant == PipelineSpec => []IInv
<1>1. PipelineInit => IInv  BY InitIInv
<1>2. IInv /\ [PipelineNext]_allVars => IInv'  BY NextIInv
<1> QED  BY <1>1, <1>2, PTL DEF PipelineSpec

\* Every variable keeps its shape.
THEOREM PipelineTypes == PipelineSpec => []PipelineTypeOK
<1>1. IInv => PipelineTypeOK  BY DEF IInv, Shapes
<1> QED  BY <1>1, PipelineInvariant, PTL

\* Whatever crashes, is stopped, or is written by an agent that outlives its
\* process: a task is merging or done only when its last completed turn is the
\* review that approved the commit the task declares, with no objection open.
THEOREM MergedWasReviewed == PipelineSpec => []ApprovedCommitWasReviewed
<1>1. ASSUME IInv, task.status \in {"merging", "done"}
      PROVE  /\ attempts # <<>>
             /\ Last.phase = "review" /\ Last.outcome = "merging"
             /\ Last.commit = DeclaredCommit
             /\ Open(ledger) = {}
  <2>1. attempts # <<>> /\ Last.outcome = "merging"
    BY <1>1 DEF IInv, Placed, Positioned, Due, Terminal
  <2>2. LeadsTo(Last) /\ Last \in AttemptRecord  BY <1>1, <2>1, CompletionLeadsOn
  <2>3. Last.phase = "review"  BY <2>1, <2>2 DEF LeadsTo, AttemptRecord
  <2> QED  BY <1>1, <2>1, <2>3 DEF IInv, Reviewed
<1>2. IInv => ApprovedCommitWasReviewed  BY <1>1 DEF ApprovedCommitWasReviewed, Last
<1> QED  BY <1>2, PipelineInvariant, PTL

\* A turn that was completed is found again after a crash, and not paid for twice.
THEOREM TurnsAreNotRepeated == PipelineSpec => []CompletedTurnsAreNotRepeated
<1>1. IInv => CompletedTurnsAreNotRepeated  BY DEF IInv, Recorded
<1> QED  BY <1>1, PipelineInvariant, PTL

\* A rejected round goes on to a fix exactly while the minimum or the budget of
\* rounds that closed nothing allows it, whatever the two are.
THEOREM BudgetBounds == PipelineSpec => []BudgetBoundsGrinding
<1>1. IInv => BudgetBoundsGrinding  BY DEF IInv, Assessed
<1> QED  BY <1>1, PipelineInvariant, PTL

\* Each reconciled review leaves one assessment, which still says what is open.
THEOREM LedgerFollows == PipelineSpec => []LedgerFollowsTheRounds
<1>1. IInv => LedgerFollowsTheRounds  BY DEF IInv, Assessed
<1> QED  BY <1>1, PipelineInvariant, PTL

\* A fix has something to answer, and its note when its round was called stuck.
THEOREM FixesArePrepared == PipelineSpec => []FixIsPrepared
<1>1. ASSUME IInv, at = "turn", turn.phase = "fix"
      PROVE  Open(ledger) # {} /\ (StuckRound(assessments) => Verdict \in notes)
  <2>1. task.status = "fix"  BY <1>1 DEF IInv, Placed
  <2>2. attempts # <<>> /\ Last.outcome = "fix"  BY <1>1, <2>1, TurnIsDue DEF Due
  <2> QED  BY <1>1, <2>2 DEF IInv, Reviewed
<1>2. IInv => FixIsPrepared  BY <1>1 DEF FixIsPrepared
<1> QED  BY <1>2, PipelineInvariant, PTL

\* Whoever died or lost its lease while preparing it: agents work in a checkout
\* that the commands of their own plan prepared to the end, or that a relaxed run
\* of that plan took as it stood, unless a process without a lease meddled since.
THEOREM CheckoutsArePrepared == PipelineSpec => []PreparedForThisPlan
<1>1. IInv => PreparedForThisPlan
  BY DEF IInv, Prepared, Vouched, PreparedForThisPlan, InCheckout
<1> QED  BY <1>1, PipelineInvariant, PTL
=================================================================================
