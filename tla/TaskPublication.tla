---------------------------- MODULE TaskPublication ----------------------------
(***************************************************************************)
(* TaskPublisher (planning/task_publication.py): the files of an approved  *)
(* generation are staged, renamed to where they are read from, made        *)
(* durable, verified, and only then named by the database as current.  The *)
(* process may die anywhere, and the machine may lose power: what was not  *)
(* synced is then lost, or not.                                            *)
(*                                                                         *)
(* A generation is named by its batch.                                     *)
(***************************************************************************)
EXTENDS Decomposition

CONSTANT Drift     \* whether published files may change under the publisher

ASSUME PublicationAssumption == Drift \in BOOLEAN

VARIABLES
    staged,   \* the staged tree: of which generation, how much of it is written
    tree,     \* the published tree: of which generation, where its bytes stand
    current   \* the generation the database calls current, or 0

publishVars == <<staged, tree, current>>

\* content: "absent", "partial", "whole" or "drifted"; entry: the rename that
\* brought the tree is durable.  Staged bytes are synced before the rename.
NoStaging == [of |-> 0, content |-> "absent"]
NoTree == [of |-> 0, content |-> "absent", entry |-> FALSE]

InitPublication == staged = NoStaging /\ tree = NoTree /\ current = 0

SameRecord == UNCHANGED <<running, draftVars, loopVars, gateVars, graphVars, pm>>
Step(label) == doing' = [doing EXCEPT !.at = label]
At(label) == doing.at = label

\* The generations in status PREPARING: the rejected ones stay.
Preparing == {g \in {rejected, batch} : g # 0 /\ g # current}

\* Mutant: every generation nobody has published yet is taken for approved.
AnyPreparing == Preparing

\* _has_approved_handoff: those with a completed approving review
ApprovedPreparing == {g \in Preparing : g = approved}

\* reconcile, or publish right after the approval.  What an earlier run already
\* renamed is verified instead of staged again; what it promoted is verified
\* and cleaned up after.
BeginPublication ==
    /\ Choosing /\ Publishable
    /\ \/ /\ ApprovedPreparing = {} /\ Step("cleaning")
          /\ UNCHANGED staged
       \/ \E g \in ApprovedPreparing :
            IF tree.of = g THEN Step("verifying") /\ UNCHANGED staged
            ELSE Step("staging") /\ staged' = [staged EXCEPT !.of = g]
       \* Stopped, with its generation current already: nothing is verified again.
       \/ /\ current # 0 /\ current = approved /\ Step("publishing done")
          /\ UNCHANGED staged
    /\ SameRecord /\ UNCHANGED <<borg, tree, current>>

\* _stage: what an earlier run staged is removed first.
Restage ==
    /\ At("staging")
    /\ staged' = [staged EXCEPT !.content = "partial"] /\ Step("writing")
    /\ SameRecord /\ UNCHANGED <<borg, tree, current>>

StageFiles ==
    /\ At("writing")
    /\ staged' = [staged EXCEPT !.content = "whole"] /\ Step("renaming")
    /\ SameRecord /\ UNCHANGED <<borg, tree, current>>

Rename ==
    /\ At("renaming")
    /\ staged' = NoStaging
    /\ tree' = [of |-> staged.of, content |-> staged.content, entry |-> FALSE]
    /\ Step("syncing")
    /\ SameRecord /\ UNCHANGED <<borg, current>>

Intact == tree.content = "whole"

\* _verify_tree of a tree that was there before: its parent is synced next.
VerifyExisting ==
    /\ At("verifying")
    /\ IF Intact THEN Step("syncing") ELSE Exit
    /\ SameRecord /\ UNCHANGED <<borg, publishVars>>

SyncParent ==
    /\ At("syncing")
    /\ tree' = [tree EXCEPT !.entry = TRUE]
    /\ Step("checking")
    /\ SameRecord /\ UNCHANGED <<borg, staged, current>>

VerifySynced ==
    /\ At("checking")
    /\ IF Intact THEN Step("promoting") ELSE Exit
    /\ SameRecord /\ UNCHANGED <<borg, publishVars>>

\* _promote_published_task_generation: the store verifies and syncs for itself.
Promote ==
    /\ At("promoting")
    /\ IF Intact
       THEN /\ tree' = [tree EXCEPT !.entry = TRUE]
            /\ current' = tree.of
            /\ Step("cleaning")
       ELSE Exit /\ UNCHANGED <<tree, current>>
    /\ SameRecord /\ UNCHANGED <<borg, staged>>

\* _verify_current, then _cleanup_noncurrent: every other tree goes.
CleanUp ==
    /\ At("cleaning")
    /\ IF Intact
       THEN /\ staged' = NoStaging /\ Step("publishing done")
       ELSE Exit /\ UNCHANGED staged
    /\ SameRecord /\ UNCHANGED <<borg, tree, current>>

\* The Supervisor moves the Borg once its tasks are published.
BecomeReady ==
    /\ At("publishing done")
    /\ Transition("ready_to_execute") /\ Exit
    /\ SameRecord /\ UNCHANGED publishVars

\* A published file is edited, or its branch is checked out, before any promotion.
TreeDrifts ==
    /\ Intact /\ current = 0 /\ Drift
    /\ tree' = [tree EXCEPT !.content = "drifted"]
    /\ SameRecord /\ UNCHANGED <<doing, borg, staged, current>>

\* Power is lost: a rename that was not synced may be undone.
PowerLoss ==
    /\ ~IsIdle /\ Die
    /\ tree' \in {tree} \cup (IF tree.entry THEN {} ELSE {NoTree})
    /\ staged' \in {staged, [staged EXCEPT !.content = "partial"], NoStaging}
    /\ UNCHANGED <<borg, draftVars, loopVars, gateVars, graphVars, pm, current>>

PublicationStep ==
    \/ BeginPublication \/ Restage \/ StageFiles \/ Rename
    \/ VerifyExisting \/ SyncParent \/ VerifySynced
    \/ Promote \/ CleanUp \/ BecomeReady
================================================================================
