----------------------------- MODULE ReviewLedger -----------------------------
(***************************************************************************)
(* The arithmetic of a review loop: the finding ledger one loop builds     *)
(* (planning/findings_ledger.py), whether its argument is closing in       *)
(* (planning/convergence.py), and what a round costs it                    *)
(* (planning/grants.py).  The same functions serve a task's review, the    *)
(* Tech Lead's review of a plan and the Supervisor's review of a batch.    *)
(*                                                                         *)
(* A ledger is the sequence of its rows in the order they were created, so *)
(* a row is named by its position.  A round's assessment is                *)
(* [round, minimum, open, refunded, converging].                           *)
(***************************************************************************)
EXTENDS Integers, Sequences, FiniteSets

FindingStatus == {"open", "regressed", "resolved"}

\* open_findings
Open(ledger) == {i \in DOMAIN ledger : ledger[i].status # "resolved"}

(***************************************************************************)
(* What a reviewer declares: the rows it closes, the rows it raises again, *)
(* and its new findings, each of which may claim to repeat a row that the  *)
(* ledger cannot place.                                                    *)
(***************************************************************************)
\* _reconcile: a repeat wins over a resolution, a closed row nobody repeats is
\* left alone, silence carries a row forward as open, approval closes them all.
Reconcile(ledger, declared, round, approved) ==
    LET after(i) ==
          IF approved THEN "resolved"
          ELSE IF i \in declared.repeats THEN "regressed"
          ELSE IF i \in declared.resolved THEN "resolved" ELSE "open"
        closed(i) == ledger[i].status = "resolved" /\ i \notin declared.repeats
    IN  [i \in DOMAIN ledger |->
            IF closed(i) THEN ledger[i]
            ELSE [ledger[i] EXCEPT !.status = after(i), !.last = round]]
        \o [k \in DOMAIN declared.fresh |->
              [status |-> IF approved THEN "resolved"
                          ELSE IF declared.fresh[k].claimed THEN "regressed" ELSE "open",
               first |-> round, last |-> round,
               severity |-> declared.fresh[k].severity]]

(***************************************************************************)
(* Convergence, read from the ledger over the last Window rounds.          *)
(***************************************************************************)
Window == 3

\* _compute_drain, one count per round the ledger spans
NewIn(ledger, r) == Cardinality({i \in DOMAIN ledger : ledger[i].first = r})
ResolvedIn(ledger, r) ==
    Cardinality({i \in DOMAIN ledger :
                   ledger[i].status = "resolved" /\ ledger[i].last = r})
BornOpenAfter(ledger, r, born) ==
    {i \in DOMAIN ledger :
        /\ ledger[i].first <= born
        /\ ~(ledger[i].status = "resolved" /\ ledger[i].last <= r)}
OpenAfter(ledger, r) == Cardinality(BornOpenAfter(ledger, r, r))

\* One round emptied the backlog its predecessor left (not _carries_open).
FullDrain(ledger, r) ==
    OpenAfter(ledger, r - 1) > 0 /\ BornOpenAfter(ledger, r, r - 1) = {}

\* A blocker still open in the last round that the loop has tried to close.
RepeatedBlocker(ledger, last) ==
    \E i \in Open(ledger) :
        /\ ledger[i].severity = "blocker"
        /\ ledger[i].last = last
        /\ ledger[i].first < last \/ ledger[i].status = "regressed"

\* assess_convergence
Converging(ledger) ==
    /\ ledger # <<>>
    /\ LET first == CHOOSE r \in {ledger[i].first : i \in DOMAIN ledger} :
                      \A i \in DOMAIN ledger : r <= ledger[i].first
           last == CHOOSE r \in {ledger[i].last : i \in DOMAIN ledger} :
                      \A i \in DOMAIN ledger : r >= ledger[i].last
           tail == {r \in first..last : r > last - Window}
           pairs == {r \in tail : r - 1 \in tail}
           outpaces(r) == ResolvedIn(ledger, r) > NewIn(ledger, r)
           \* Only a round with a predecessor in the ledger can drain it.
           drains(r) == r > first /\ FullDrain(ledger, r)
       IN  /\ last > first
           /\ \/ \A r \in pairs : OpenAfter(ledger, r) < OpenAfter(ledger, r - 1)
              \/ \E r \in pairs : outpaces(r) /\ outpaces(r - 1)
              \/ \E r \in pairs : drains(r) /\ drains(r - 1)
              \/ drains(last) /\ NewIn(ledger, last) < NewIn(ledger, last - 1)
           /\ ~RepeatedBlocker(ledger, last)

(***************************************************************************)
(* Grants: rounds past the minimum.                                        *)
(***************************************************************************)
RefundRecorded == {"inside", "charged", "refunded"}

RefundedBefore(assessments, round) ==
    Cardinality({k \in DOMAIN assessments :
                   assessments[k].round < round /\ assessments[k].refunded = "refunded"})

\* assess_grant on a snapshot: a round past the minimum is refunded when fewer
\* findings are open than its predecessor recorded.
SnapshotRefund(round, minimum, open, assessments) ==
    IF round <= minimum THEN "inside"
    ELSE IF \E k \in DOMAIN assessments :
              assessments[k].round = round - 1 /\ open < assessments[k].open
         THEN "refunded" ELSE "charged"

\* Mutant: a round already at the limit goes on.
ContinuesAtTheLimit(round, minimum, budget, refunded, assessments) ==
    LET refunds == RefundedBefore(assessments, round)
                   + (IF refunded = "refunded" THEN 1 ELSE 0)
    IN  round - refunds <= minimum + budget

\* GrantDecision.continues
Continues(round, minimum, budget, refunded, assessments) ==
    LET refunds == RefundedBefore(assessments, round)
                   + (IF refunded = "refunded" THEN 1 ELSE 0)
    IN  round - refunds < minimum + budget

\* grant_account(...).charged
Charged(assessments) ==
    Cardinality({k \in DOMAIN assessments : assessments[k].refunded = "charged"})

\* steering_verdict: the latest round called the loop stuck and leads into a grant.
StuckRound(assessments) ==
    /\ assessments # <<>>
    /\ LET latest == assessments[Len(assessments)]
       IN  ~latest.converging /\ latest.round >= latest.minimum
=============================================================================
