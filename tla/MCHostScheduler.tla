--------------------------- MODULE MCHostScheduler ----------------------------
(***************************************************************************)
(* Small instances of HostScheduler: one Borg with one current generation. *)
(***************************************************************************)
EXTENDS HostScheduler, TLC

CONSTANTS b1, g1, t1, t2

OneBorgOf == g1 :> b1

\* Two tasks of which the first in order depends on the second.
PairGenerationOf == t1 :> g1 @@ t2 :> g1
PairDependencies == t1 :> {t2} @@ t2 :> {}
PairPosition == t1 :> 1 @@ t2 :> 2

\* One task alone.
SingleGenerationOf == t1 :> g1
SingleDependencies == t1 :> {}
SinglePosition == t1 :> 1

\* Processes and claims are interchangeable.
Symmetry == Permutations(Run) \cup Permutations(Claim)
=============================================================================
