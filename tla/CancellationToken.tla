--------------------------- MODULE CancellationToken ---------------------------
(***************************************************************************)
(* CancellationToken (agent_runtime/base.py): the state that every thread   *)
(* of a run shares, the registry of what must be stopped with it, and the   *)
(* delivery of its callbacks.                                              *)
(*                                                                         *)
(* What can be registered: the child process of each worker thread, through *)
(* a window that is opened before the child exists, and FollowUp, the       *)
(* registration of an optional last stage that asks for force as soon as it *)
(* is cancelled.  A section of code under the token's lock is one step,     *)
(* except where the signal handler, which takes no lock, may look at what   *)
(* it has done so far: there `lock' says who holds it.                      *)
(***************************************************************************)
EXTENDS Naturals, FiniteSets

CONSTANTS
    Worker,      \* the threads that start children
    FollowUp,    \* the registration whose callback is the token's own force
    Control,     \* the force worker of the run control
    Nobody

ASSUME TokenAssumption ==
    /\ IsFiniteSet(Worker)
    /\ FollowUp \notin Worker /\ Control \notin Worker \cup {FollowUp}
    /\ Nobody \notin Worker

VARIABLES
    state,      \* "active", "cancelled" or "forced"
    signal,     \* _force_requested_signal, set without the lock
    lock,       \* the worker within a locked section, or Nobody
    opening,    \* _window_opening_count, as who is counted
    windows,    \* unresolved registration windows, by their worker
    entries,    \* registrations
    call,       \* the deliveries claimed for each registration
    delivered,  \* what _cancel_delivery_started and _force_delivery_finished say
    forcing     \* the callers of force, and where each is

tokenVars == <<state, signal, lock, opening, windows, entries, call, delivered, forcing>>

Entry == Worker \cup {FollowUp}

\* A callback is claimed once: "queued" for a thread of the broadcast, "late" for
\* the thread that registers it, then "started" and "finished".
NoCall == [cancel |-> "none", force |-> "none"]

InitToken ==
    /\ state = "active" /\ signal = FALSE /\ lock = Nobody
    /\ opening = {} /\ windows = {}
    /\ entries \in {{}, {FollowUp}}
    /\ call = [e \in Entry |-> NoCall]
    /\ delivered = {}
    /\ forcing = [f \in {Control, FollowUp} |-> "idle"]

Unlocked == lock = Nobody
IsSet == state # "active"
ForceAsked == state = "forced" \/ signal

(***************************************************************************)
(* registration_window                                                     *)
(***************************************************************************)
\* The opener is counted before it looks whether force was asked for.
BeginOpening(w) ==
    /\ opening' = opening \cup {w}
    /\ UNCHANGED <<state, signal, lock, windows, entries, call, delivered, forcing>>

AdmitOpening(w) ==
    /\ Unlocked /\ ~ForceAsked
    /\ lock' = w
    /\ UNCHANGED <<state, signal, opening, windows, entries, call, delivered, forcing>>

RejectOpening(w) ==
    /\ Unlocked /\ ForceAsked
    /\ opening' = opening \ {w}
    /\ UNCHANGED <<state, signal, lock, windows, entries, call, delivered, forcing>>

PublishWindow(w) ==
    /\ lock' = Nobody /\ windows' = windows \cup {w}
    /\ UNCHANGED <<state, signal, opening, entries, call, delivered, forcing>>

EndOpening(w) ==
    /\ opening' = opening \ {w}
    /\ UNCHANGED <<state, signal, lock, windows, entries, call, delivered, forcing>>

\* _settle_no_resource
NoResource(w) ==
    /\ Unlocked
    /\ windows' = windows \ {w}
    /\ UNCHANGED <<state, signal, lock, opening, entries, call, delivered, forcing>>

(***************************************************************************)
(* _register, through a window                                             *)
(***************************************************************************)
PublishEntry(w) ==
    /\ Unlocked
    /\ lock' = w /\ entries' = entries \cup {w}
    /\ UNCHANGED <<state, signal, opening, windows, call, delivered, forcing>>

\* _claim_cancel and _claim_force deliver what was asked for before.
ClaimLate(w, terminates) ==
    /\ call' = [call EXCEPT ![w] =
                  [cancel |-> IF IsSet /\ terminates THEN "late" ELSE "none",
                   force |-> IF ForceAsked THEN "late" ELSE "none"]]
    /\ UNCHANGED <<state, signal, lock, opening, windows, entries, delivered, forcing>>

\* Mutant: the window is settled whatever was asked for in the meantime.
SettleAtOnce(w) == lock' = Nobody /\ windows' = windows \ {w}

\* The window of a child registered with an active token is settled at once.
LeaveRegistration(w) ==
    /\ lock' = Nobody
    /\ windows' = IF state = "active" /\ ~signal THEN windows \ {w} ELSE windows

SettleOnEntry(w) ==
    /\ LeaveRegistration(w)
    /\ UNCHANGED <<state, signal, opening, entries, call, delivered, forcing>>

\* _settle_published_window: after force, only once it has been delivered.
SettlePublished(w) ==
    /\ Unlocked
    /\ ForceAsked => call[w].force = "finished"
    /\ windows' = windows \ {w}
    /\ UNCHANGED <<state, signal, lock, opening, entries, call, delivered, forcing>>

ClaimForceToSettle(w) ==
    /\ Unlocked /\ ForceAsked /\ call[w].force = "none"
    /\ call' = [call EXCEPT ![w].force = "late"]
    /\ UNCHANGED <<state, signal, lock, opening, windows, entries, delivered, forcing>>

\* _unregister waits for the deliveries that are under way.
NothingPending(e) == \A d \in {"cancel", "force"} : call[e][d] \in {"none", "finished"}

Unregister(e) ==
    /\ Unlocked /\ NothingPending(e)
    /\ entries' = entries \ {e} /\ windows' = windows \ {e}
    /\ call' = [call EXCEPT ![e] = NoCall]
    /\ UNCHANGED <<state, signal, lock, opening, delivered, forcing>>

(***************************************************************************)
(* cancel and force                                                        *)
(***************************************************************************)
\* The callbacks claimed when the state is left; terminating are the entries
\* registered with terminate_on_cancel.
ClaimAll(kinds, terminating) ==
    [e \in Entry |->
        IF e \notin entries THEN call[e]
        ELSE [cancel |-> IF "cancel" \in kinds /\ e \in terminating /\ call[e].cancel = "none"
                         THEN "queued" ELSE call[e].cancel,
              force |-> IF "force" \in kinds /\ e # FollowUp /\ call[e].force = "none"
                        THEN "queued" ELSE call[e].force]]

\* The first request wins.
CancelClaims(terminating) ==
    /\ Unlocked
    /\ IF state = "active"
       THEN state' = "cancelled" /\ call' = ClaimAll({"cancel"}, terminating)
       ELSE UNCHANGED <<state, call>>
    /\ UNCHANGED <<signal, lock, opening, windows, entries, delivered, forcing>>

\* Mutant: the broadcast waits for the callbacks it has started.
CancelAwaitsItsCallbacks ==
    /\ \A e \in Entry : call[e].cancel \notin {"queued", "started"}
    /\ delivered' = delivered \cup {"cancel"}
    /\ UNCHANGED <<state, signal, lock, opening, windows, entries, call, forcing>>

\* The broadcast does not wait for the callbacks.
CancelDelivered ==
    /\ delivered' = delivered \cup {"cancel"}
    /\ UNCHANGED <<state, signal, lock, opening, windows, entries, call, forcing>>

ForceBegins(f) ==
    /\ forcing[f] = "idle"
    /\ signal' = TRUE
    /\ forcing' = [forcing EXCEPT ![f] = "asking"]

\* One caller broadcasts, the cancellation first if there was none; any other
\* waits until that has been done.
ForceClaims(f, terminating) ==
    /\ forcing[f] = "asking" /\ Unlocked
    /\ CASE state = "forced" ->
              /\ forcing' = [forcing EXCEPT ![f] = "waiting"]
              /\ UNCHANGED <<state, call>>
         [] state = "active" ->
              /\ state' = "forced" /\ call' = ClaimAll({"cancel", "force"}, terminating)
              /\ forcing' = [forcing EXCEPT ![f] = "cancelling"]
         [] state = "cancelled" ->
              /\ state' = "forced" /\ call' = ClaimAll({"force"}, terminating)
              /\ forcing' = [forcing EXCEPT ![f] = "awaiting cancel"]
    /\ UNCHANGED <<signal, lock, opening, windows, entries, delivered>>

ForceBroadcasts(f) ==
    /\ \/ forcing[f] = "cancelling" /\ delivered' = delivered \cup {"cancel"}
       \/ forcing[f] = "awaiting cancel" /\ "cancel" \in delivered /\ UNCHANGED delivered
    /\ forcing' = [forcing EXCEPT ![f] = "broadcasting"]
    /\ UNCHANGED <<state, signal, lock, opening, windows, entries, call>>

ForceDelivered(f) ==
    /\ forcing[f] = "broadcasting" /\ \A e \in Entry : call[e].force # "queued"
    /\ delivered' = delivered \cup {"force"}
    /\ forcing' = [forcing EXCEPT ![f] = "done"]
    /\ UNCHANGED <<state, signal, lock, opening, windows, entries, call>>

ForceWaited(f) ==
    /\ forcing[f] = "waiting" /\ "force" \in delivered
    /\ forcing' = [forcing EXCEPT ![f] = "done"]
    /\ UNCHANGED <<state, signal, lock, opening, windows, entries, call, delivered>>

Forcing(f, terminating) ==
    \/ ForceClaims(f, terminating)
    \/ ForceBroadcasts(f) \/ ForceDelivered(f) \/ ForceWaited(f)

\* deliver_force waits until the cancel callback of its entry has started.
CancelHasStarted(e) == call[e].cancel \in {"none", "started", "finished"}
================================================================================
