---------------------------- MODULE TaskEnvironment ----------------------------
(***************************************************************************)
(* Preparation of one task's worktree (host_execution/environment.py): the *)
(* commands a run's plan prescribes are keyed, a worktree already prepared *)
(* for the key is reused, and a marker in the worktree and a completed     *)
(* attempt in the store say what it was prepared for.  The three are       *)
(* written one after the other and a crash may fall between any two.       *)
(*                                                                         *)
(* The store fences a process that lost its lease.  Nothing fences its     *)
(* commands or the marker file: it goes on beside its successor, as        *)
(* "stale", until it meets the store.                                      *)
(*                                                                         *)
(* What really became of the checkout since its last preparation began is  *)
(* kept in three history variables that no code can read: "installed",     *)
(* "accepted" and "foreign".                                               *)
(***************************************************************************)
CONSTANTS
    PlanKey,     \* _preparation_key of the plans runs are started with
    NoKey        \* no marker; no command of the last preparation ran to its end

VARIABLES
    key,         \* the key of the plan of the process at work
    marker,      \* the marker file of the worktree
    attempted,   \* a materialize attempt was ever appended
    recorded,    \* keys of COMPLETED materialize attempts
    prepared,    \* the key of the latest of them
    stale,       \* a process that lost its lease: what it still goes on with
    installed,   \* the key whose commands it ran to the end
    accepted,    \* the key whose relaxed run took the checkout as it stood
    foreign      \* a process without a lease ran commands or wrote the marker

storeVars == <<key, attempted, recorded, prepared>>
ghostVars == <<installed, accepted, foreign>>
envVars == <<storeVars, marker, stale, ghostVars>>

NotStale == [at |-> "none", key |-> NoKey]

EnvInit ==
    /\ key \in PlanKey
    /\ marker = NoKey
    /\ attempted = FALSE
    /\ recorded = {}
    /\ prepared = NoKey
    /\ stale = NotStale
    /\ installed = NoKey
    /\ accepted = NoKey
    /\ foreign = FALSE

\* find_completed_environment_attempt and _prepared_marker_matches
Reusable == key \in recorded /\ marker = key

\* A preparation begins: commands a stale process still runs are foreign to it.
Untouched ==
    /\ installed' = NoKey
    /\ accepted' = NoKey
    /\ foreign' = (stale.at = "preparing")

\* Mutant: the marker of the previous preparation is left until the next.
InvalidateLate ==
    /\ ~Reusable
    /\ attempted' = TRUE
    /\ Untouched
    /\ UNCHANGED <<key, marker, recorded, prepared, stale>>

\* _invalidate_marker before anything runs, and the attempt is appended.
Invalidate ==
    /\ ~Reusable
    /\ marker' = NoKey
    /\ attempted' = TRUE
    /\ Untouched
    /\ UNCHANGED <<key, recorded, prepared, stale>>

\* _run_commands, to the end
Install ==
    /\ installed' = key
    /\ UNCHANGED <<storeVars, marker, stale, accepted, foreign>>

\* The checkout is taken as it stands and marked like any other: a relaxed
\* preparation failed and left it clean, or a skipped one ran no command.
\* The key is the one a required preparation has: it names no mode.
AcceptUnprepared ==
    /\ marker' = key
    /\ accepted' = key
    /\ UNCHANGED <<storeVars, stale, installed, foreign>>

\* _write_marker
WriteMarker ==
    /\ marker' = key
    /\ UNCHANGED <<storeVars, stale, ghostVars>>

\* complete_environment_attempt(COMPLETED)
RecordPrepared ==
    /\ recorded' = recorded \cup {key}
    /\ prepared' = key
    /\ UNCHANGED <<key, attempted, marker, stale, ghostVars>>

\* The last checks of require_ready_worktree on the environment.
EnvironmentReady == prepared # NoKey /\ marker = prepared

(***************************************************************************)
(* A process that lost its lease within the preparation.                   *)
(***************************************************************************)
\* It goes on where it was; what its commands do from here is nobody's.
Outlive(where) ==
    /\ stale' = [at |-> where, key |-> key]
    /\ foreign' = (foreign \/ where = "preparing")
    /\ UNCHANGED <<storeVars, marker, installed, accepted>>

\* _invalidate_marker; the append of its attempt is refused.
StaleInvalidates ==
    /\ stale.at = "environment"
    /\ marker' = NoKey
    /\ stale' = NotStale
    /\ UNCHANGED <<storeVars, ghostVars>>

\* Its commands end, however they do.
StaleInstalls ==
    /\ stale.at = "preparing"
    /\ stale' = [stale EXCEPT !.at = "marking"]
    /\ UNCHANGED <<storeVars, marker, ghostVars>>

\* _write_marker, of a success or a survived failure; its record is refused.
StaleMarks ==
    /\ stale.at = "marking"
    /\ marker' = stale.key
    /\ foreign' = TRUE
    /\ stale' = NotStale
    /\ UNCHANGED <<storeVars, installed, accepted>>

\* It ends without another write.
StaleEnds ==
    /\ stale.at \in {"environment", "marking"}
    /\ stale' = NotStale
    /\ UNCHANGED <<storeVars, marker, ghostVars>>

StaleStep == StaleInvalidates \/ StaleInstalls \/ StaleMarks \/ StaleEnds
=============================================================================
