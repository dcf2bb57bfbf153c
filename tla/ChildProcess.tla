----------------------------- MODULE ChildProcess -----------------------------
(***************************************************************************)
(* Child processes and who starts them (agent_runtime/process.py and        *)
(* agent_runtime/api_http.py): a worker thread runs one child after the     *)
(* other, each with a window opened before it is created, a registration,   *)
(* and a clean-up that ends only once the child is gone.                   *)
(*                                                                         *)
(* The threads are not the main one: the KeyboardInterrupt of a first       *)
(* SIGINT never lands between their steps.                                 *)
(***************************************************************************)
EXTENDS CancellationToken

VARIABLES
    at,        \* where each worker is
    child,     \* the child it has started: "none", "alive" or "gone"
    plain,     \* the workers whose child has no process group of its own
    cleanup,   \* the workers whose child is not terminated by a cancellation
    expired    \* the grace after the first request is over

childVars == <<at, child, plain, cleanup>>

InitChild ==
    /\ at = [w \in Worker |-> "working"]
    /\ child = [w \in Worker |-> "none"]
    /\ plain = {} /\ cleanup = {} /\ expired = FALSE

Alive(w) == child[w] = "alive"
Goes(w, from, to) == at[w] = from /\ at' = [at EXCEPT ![w] = to]
Terminating == (Worker \ cleanup) \cup {FollowUp}

\* run_captured, run_streamed or execute is called: ordinary work is not started
\* once the token is set; cleanup is, as long as its deadline is in the future,
\* and always with a process group of its own.
BeginChild(w) ==
    /\ Goes(w, "working", "opening")
    /\ \/ ~IsSet /\ cleanup' = cleanup \ {w} /\ plain' \in {plain \ {w}, plain \cup {w}}
       \/ ~expired /\ cleanup' = cleanup \cup {w} /\ plain' = plain \ {w}
    /\ BeginOpening(w)
    /\ UNCHANGED <<child, expired>>

OpenWindow(w) ==
    /\ \/ Goes(w, "opening", "admitted") /\ AdmitOpening(w)
       \/ Goes(w, "opening", "working") /\ RejectOpening(w)
       \/ Goes(w, "admitted", "published") /\ PublishWindow(w)
       \/ Goes(w, "published", "creating") /\ EndOpening(w)
    /\ UNCHANGED <<child, plain, cleanup, expired>>

\* Popen, which may fail
CreateChild(w) ==
    /\ \/ /\ Goes(w, "creating", "created")
          /\ child' = [child EXCEPT ![w] = "alive"]
          /\ UNCHANGED tokenVars
       \/ Goes(w, "creating", "working") /\ NoResource(w) /\ UNCHANGED child
    /\ UNCHANGED <<plain, cleanup, expired>>

RegisterChild(w) ==
    /\ \/ Goes(w, "created", "registering") /\ PublishEntry(w)
       \/ Goes(w, "registering", "claimed") /\ ClaimLate(w, w \notin cleanup)
       \/ Goes(w, "claimed", "registered") /\ SettleOnEntry(w)
    /\ UNCHANGED <<child, plain, cleanup, expired>>

\* What was asked for before is delivered by the registering thread, without the
\* lock: a request to terminate, then a kill that waits until the child is gone.
DeliverLate(w) ==
    /\ at[w] = "registered" /\ UNCHANGED <<at, plain, cleanup, expired>>
    /\ \/ /\ call[w].cancel = "late"
          /\ call' = [call EXCEPT ![w].cancel = "finished"]
          /\ UNCHANGED child
       \/ /\ call[w].force = "late" /\ CancelHasStarted(w)
          /\ call' = [call EXCEPT ![w].force = "finished"]
          /\ child' = [child EXCEPT ![w] = "gone"]
    /\ UNCHANGED <<state, signal, lock, opening, windows, entries, delivered, forcing>>

DeliveredLate(w) == \A d \in {"cancel", "force"} : call[w][d] # "late"

SettleWindow(w) ==
    /\ at[w] = "registered" /\ DeliveredLate(w)
    /\ \/ w \notin windows /\ at' = [at EXCEPT ![w] = "running"] /\ UNCHANGED tokenVars
       \/ w \in windows /\ SettlePublished(w) /\ at' = [at EXCEPT ![w] = "running"]
       \/ w \in windows /\ ClaimForceToSettle(w) /\ UNCHANGED at
    /\ UNCHANGED <<child, plain, cleanup, expired>>

\* The child ends by itself; or nobody could validate its identity, and it has
\* been terminated before publish_cleaned_resource takes the same way as a
\* registration.
ChildEnds(w) ==
    /\ Alive(w)
    /\ child' = [child EXCEPT ![w] = "gone"]
    /\ UNCHANGED <<at, plain, cleanup, expired, tokenVars>>

\* The wait ends: the child has ended, or the token is set, or the grace is over;
\* then terminate_process asks, waits until the force deadline, kills, waits.
StopWaiting(w) ==
    /\ Goes(w, "running", "unregistering")
    /\ ~Alive(w) \/ (IF w \in cleanup THEN expired ELSE IsSet)
    /\ child' = [child EXCEPT ![w] = "gone"]
    /\ UNCHANGED <<plain, cleanup, expired, tokenVars>>

ReleaseChild(w) ==
    /\ Goes(w, "unregistering", "working")
    /\ Unregister(w)
    /\ child' = [child EXCEPT ![w] = "none"]
    /\ plain' = plain \ {w} /\ cleanup' = cleanup \ {w}
    /\ UNCHANGED expired

\* The worker has nothing more to do, or sees that the token is set.
FinishWork(w) ==
    /\ Goes(w, "working", "finished")
    /\ UNCHANGED <<child, plain, cleanup, expired, tokenVars>>

(***************************************************************************)
(* The callbacks, each in a thread of its broadcast                        *)
(***************************************************************************)
\* A child is asked to terminate; the last stage asks for force.
RunCancel(e) ==
    /\ call[e].cancel = "queued"
    /\ call' = [call EXCEPT ![e].cancel = IF e = FollowUp THEN "started" ELSE "finished"]
    /\ IF e = FollowUp THEN ForceBegins(FollowUp) ELSE UNCHANGED <<signal, forcing>>
    /\ UNCHANGED <<state, lock, opening, windows, entries, delivered, childVars, expired>>

FollowUpForced ==
    /\ call[FollowUp].cancel = "started" /\ forcing[FollowUp] = "done"
    /\ call' = [call EXCEPT ![FollowUp].cancel = "finished"]
    /\ UNCHANGED <<state, signal, lock, opening, windows, entries, delivered, forcing,
                   childVars, expired>>

RunForce(w) ==
    /\ call[w].force = "queued" /\ CancelHasStarted(w)
    /\ \E f \in DOMAIN forcing : forcing[f] = "broadcasting"
    /\ call' = [call EXCEPT ![w].force = "finished"]
    /\ child' = [child EXCEPT ![w] = "gone"]
    /\ UNCHANGED <<state, signal, lock, opening, windows, entries, delivered, forcing,
                   at, plain, cleanup, expired>>

\* All that a worker thread does inside a child's life.
ChildStep(w) ==
    \/ OpenWindow(w) \/ CreateChild(w) \/ RegisterChild(w)
    \/ DeliverLate(w) \/ SettleWindow(w)
    \/ StopWaiting(w) \/ ReleaseChild(w)

Deliver ==
    \/ \E e \in Entry : RunCancel(e)
    \/ \E w \in Worker : RunForce(w)
    \/ FollowUpForced
================================================================================
