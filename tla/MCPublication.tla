---------------------------- MODULE MCPublication -----------------------------
(***************************************************************************)
(* Small instances of Publication: one task, or two whose branches both    *)
(* start from the first commit of the project branch.                      *)
(***************************************************************************)
EXTENDS Publication, TLC

CONSTANTS t1, t2

OneApproved == t1 :> 2
TwoApproved == t1 :> 2 @@ t2 :> 3

Symmetry == Permutations(Process)
=============================================================================
