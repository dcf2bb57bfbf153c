------------------------------- MODULE TaskBoard -------------------------------
(***************************************************************************)
(* What the execution store promises about tasks, with no leases, claims   *)
(* or clocks: a task is held by at most one run at a time, all the held    *)
(* tasks of a Borg are held by the same run, a task is taken only after    *)
(* its dependencies are done, a held task is settled once and for good or  *)
(* handed back, and only its holder settles it.                            *)
(***************************************************************************)
CONSTANTS
    Task,
    Run,
    NoHolder,      \* the holder of a task nobody works on
    Dependencies,  \* the tasks each task waits for
    TeamOf         \* the Borg each task belongs to

Outcome == {"done", "blocked", "failed"}

VARIABLES
    holder,        \* the run working on each task
    outcome        \* how each task ended, "open" until it has

board == <<holder, outcome>>

BoardInit ==
    /\ holder = [t \in Task |-> NoHolder]
    /\ outcome = [t \in Task |-> "open"]

Held == {t \in Task : holder[t] # NoHolder}

HandBack(S) == [t \in Task |-> IF t \in S THEN NoHolder ELSE holder[t]]

\* Some held tasks return to the board: their run was interrupted or expired.
Return ==
    /\ \E S \in SUBSET Held : holder' = HandBack(S)
    /\ UNCHANGED outcome

\* Run r takes t, perhaps in the step that returns tasks of lapsed claims.
Take(t, r) ==
    /\ outcome[t] = "open"
    /\ \A d \in Dependencies[t] : outcome[d] = "done"
    /\ \E S \in SUBSET Held :
         LET cleared == HandBack(S)
         IN  /\ cleared[t] = NoHolder
             /\ \A u \in Task : TeamOf[u] = TeamOf[t] => cleared[u] \in {r, NoHolder}
             /\ holder' = [cleared EXCEPT ![t] = r]
    /\ UNCHANGED outcome

\* The holder ends its task.
Settle(t, result) ==
    /\ holder[t] # NoHolder
    /\ outcome' = [outcome EXCEPT ![t] = result]
    /\ holder' = [holder EXCEPT ![t] = NoHolder]

BoardNext ==
    \/ Return
    \/ \E t \in Task, r \in Run : Take(t, r)
    \/ \E t \in Task, result \in Outcome : Settle(t, result)

BoardSpec == BoardInit /\ [][BoardNext]_board
=============================================================================
