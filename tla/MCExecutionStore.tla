--------------------------- MODULE MCExecutionStore ---------------------------
(***************************************************************************)
(* Small instances of ExecutionStore: one Borg whose two tasks depend on   *)
(* one another in a chain, with a generation to replace theirs, and one    *)
(* whose only task is worked on in detail.                                 *)
(***************************************************************************)
EXTENDS ExecutionStore, TLC

CONSTANTS b1, g1, g2, t1, t2

\* A chain of two tasks in one generation, and a generation that replaces it.
ChainBorgOf == g1 :> b1 @@ g2 :> b1
ChainGenerationOf == t1 :> g1 @@ t2 :> g1
ChainDependencies == t1 :> {} @@ t2 :> {t1}
ChainPosition == t1 :> 1 @@ t2 :> 2

\* One task alone.
SingleBorgOf == g1 :> b1
SingleGenerationOf == t1 :> g1
SingleDependencies == t1 :> {}
SinglePosition == t1 :> 1

\* Run, claim and attempt identities are interchangeable.
Symmetry ==
    Permutations(Run) \cup Permutations(Claim) \cup Permutations(Attempt)
=============================================================================
