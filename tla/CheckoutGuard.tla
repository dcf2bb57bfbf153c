------------------------------ MODULE CheckoutGuard ------------------------------
(***************************************************************************)
(* The guard of the primary checkout around one phase of a task            *)
(* (host_execution/guard.py).                                              *)
(*                                                                         *)
(* A checkout is [entries, head, branch], or None when Git could not be     *)
(* asked; an entry is [kind, paths], where kind is "untracked" or           *)
(* "tracked".  own is the set of paths below the prefixes that belong to    *)
(* Betterborg.                                                             *)
(***************************************************************************)
EXTENDS Naturals, FiniteSets

CONSTANT None

\* _snapshot: what is its own is ignored only while Git does not track it.
Status(checkout, own) ==
    {e \in checkout.entries : ~(e.kind = "untracked" /\ e.paths \subseteq own)}

\* before_phase, assert_clean
Refusal(before, own) ==
    IF before = None THEN "unreadable"
    ELSE IF Status(before, own) # {} THEN "dirty" ELSE None

\* after_phase
Changes(before, after, own) ==
    \/ Status(after, own) \ Status(before, own) # {}
    \/ after.head # before.head
    \/ after.branch # before.branch

Breach(before, after, own) ==
    IF after = None THEN "unreadable"
    ELSE IF Changes(before, after, own) THEN "changed" ELSE None

\* protect: what a caller of the phase sees.  The finding of the guard is raised
\* when the phase itself raised nothing, and else attached to what it raised.
Protect(before, after, fails, own) ==
    IF Refusal(before, own) # None
    THEN [ran |-> FALSE, raised |-> Refusal(before, own), attached |-> None]
    ELSE [ran |-> TRUE,
          raised |-> IF fails THEN "phase" ELSE Breach(before, after, own),
          attached |-> IF fails THEN Breach(before, after, own) ELSE None]

\* checkout_was_changed
WasChanged(seen) == "changed" \in {seen.raised, seen.attached}
================================================================================
