------------------------------ MODULE RunControl ------------------------------
(***************************************************************************)
(* RunControl (run_control.py): what becomes of SIGINT.  The handler runs   *)
(* on the main thread between any two of its instructions and takes no      *)
(* lock; the dispatcher thread hears of the same presses through a socket;  *)
(* both ask for force and write what the other reads.  The first press is   *)
(* cancelled cooperatively, the second one, or the end of the grace, kills  *)
(* the registered children and leaves the process as soon as every window   *)
(* that was open is settled.                                               *)
(***************************************************************************)
EXTENDS ChildProcess

\* Whether handler and dispatcher may be within their snapshots at once, each some
\* tens of bytecodes long: if they may, NoChildOutlivesTheRun does not hold, for
\* the windows that one of them has found are overwritten by the other.
CONSTANT Overlap

ASSUME ControlAssumption == Overlap \in BOOLEAN

VARIABLES
    main,         \* the main thread: "working", "unwinding" or "closed"
    presses,      \* _interrupt_count
    handler,      \* the handler of a second press: its step, and what it has read
    dispatcher,   \* the dispatcher's step, and the presses it has handled
    cancelWorker, \* the thread that delivers the cancellation
    force,        \* what the request for force has recorded
    exited        \* _exit_invoked

controlVars == <<main, presses, handler, dispatcher, cancelWorker, force, exited>>
vars == <<tokenVars, childVars, expired, controlVars>>

NotHandling == [at |-> "idle", opening |-> FALSE, windows |-> {}, targets |-> {},
                direct |-> FALSE, notice |-> FALSE]
NoForce == [requested |-> FALSE, windows |-> {}, captured |-> FALSE, direct |-> FALSE,
            started |-> FALSE]

Init ==
    /\ InitToken /\ InitChild
    /\ main = "working" /\ presses = 0 /\ handler = NotHandling
    /\ dispatcher = [at |-> "select", handled |-> 0, asked |-> {}]
    /\ cancelWorker = "none" /\ force = NoForce
    /\ exited = FALSE

Ended == exited \/ main = "closed"
Handling == handler.at # "idle"
Step(label) == dispatcher' = [dispatcher EXCEPT !.at = label]

(***************************************************************************)
(* The main thread                                                         *)
(***************************************************************************)
\* The command returns, or unwinds: its last stage is unregistered.
LeaveFollowUp ==
    /\ main \in {"working", "unwinding"} /\ FollowUp \in entries
    /\ Unregister(FollowUp)
    /\ UNCHANGED <<childVars, expired, controlVars>>

\* Its workers are waited for; after an interrupt, so is the cancellation
\* (_interrupted_exit_code).  close() then gives the signal back.
Close ==
    /\ main \in {"working", "unwinding"} /\ FollowUp \notin entries
    /\ \A w \in Worker : at[w] = "finished"
    /\ presses > 0 => cancelWorker = "done"
    /\ main' = "closed"
    /\ UNCHANGED <<tokenVars, childVars, expired, presses, handler, dispatcher,
                   cancelWorker, force, exited>>

(***************************************************************************)
(* _handle_sigint, within which the main thread does nothing else          *)
(***************************************************************************)
\* KeyboardInterrupt, at once or at the end of a protected section.
FirstPress ==
    /\ presses = 0 /\ presses' = 1
    /\ main' = "unwinding"
    /\ UNCHANGED <<tokenVars, childVars, expired, handler, dispatcher, cancelWorker,
                   force, exited>>

\* The handler, once it has asked for force, and the dispatcher, until it has a
\* snapshot of the windows, write what the other reads.
Snapshot == {"asked", "looked", "listed", "aimed", "recorded", "kill", "exit",
             "testing", "assigning", "finalising"}
Alone(other) == Overlap \/ other.at \notin Snapshot

SecondPress ==
    /\ presses = 1 /\ presses' = 2
    /\ Alone(dispatcher)
    /\ IF force.requested
       THEN UNCHANGED <<handler, force, signal>>
       ELSE /\ handler' = [handler EXCEPT !.at = "asked"]
            /\ force' = [force EXCEPT !.requested = TRUE]
            /\ signal' = TRUE
    /\ UNCHANGED <<state, lock, opening, windows, entries, call, delivered, forcing,
                   childVars, expired, main, dispatcher, cancelWorker, exited>>

\* Mutant: the windows are read before who is still opening one.
ReadBackwards ==
    \/ handler.at = "asked" /\ handler' = [handler EXCEPT !.at = "looked", !.windows = windows]
    \/ handler.at = "looked" /\ handler' = [handler EXCEPT !.at = "listed", !.opening = opening # {}]
    \/ handler.at = "listed" /\ handler' = [handler EXCEPT !.at = "aimed", !.targets = entries \cap Worker]

\* Who is opening a window, then the windows, then the targets.
ReadRegistry ==
    \/ handler.at = "asked" /\ handler' = [handler EXCEPT !.at = "looked", !.opening = opening # {}]
    \/ handler.at = "looked" /\ handler' = [handler EXCEPT !.at = "listed", !.windows = windows]
    \/ handler.at = "listed" /\ handler' = [handler EXCEPT !.at = "aimed", !.targets = entries \cap Worker]

HandlerReads ==
    /\ ReadRegistry
    /\ UNCHANGED <<tokenVars, childVars, expired, main, presses, dispatcher,
                   cancelWorker, force, exited>>

HandlerRecords ==
    /\ \/ /\ handler.at = "aimed"
          /\ handler' = [handler EXCEPT !.at = "recorded"]
          /\ force' = [force EXCEPT !.windows = handler.windows]
       \/ /\ handler.at = "recorded"
          /\ handler' = [handler EXCEPT !.at = "kill"]
          /\ force' = [force EXCEPT !.captured = ~handler.opening]
    /\ UNCHANGED <<tokenVars, childVars, expired, main, presses, dispatcher,
                   cancelWorker, exited>>

\* _signal_process_groups: only children with a group of their own are reached.
KillGroups(targets) ==
    child' = [w \in Worker |-> IF w \in targets \ plain /\ Alive(w) THEN "gone" ELSE child[w]]

\* Without a nonblocking descriptor the handler leaves the notice to the
\* dispatcher, which will take the rest of the request over as well.
HandlerKills ==
    /\ handler.at = "kill"
    /\ KillGroups(handler.targets)
    /\ \E notice \in BOOLEAN :
          handler' = [handler EXCEPT !.at = "exit", !.notice = notice,
                                     !.direct = handler.targets \cap plain = {}]
    /\ UNCHANGED <<tokenVars, at, plain, cleanup, expired, main, presses, dispatcher,
                   cancelWorker, force, exited>>

HandlerExits ==
    /\ handler.at = "exit"
    /\ exited' = (force.captured /\ handler.windows = {} /\ handler.direct /\ handler.notice)
    /\ handler' = NotHandling
    /\ UNCHANGED <<tokenVars, childVars, expired, main, presses, dispatcher,
                   cancelWorker, force>>

Handle == HandlerReads \/ HandlerRecords \/ HandlerKills \/ HandlerExits

(***************************************************************************)
(* The dispatcher                                                          *)
(***************************************************************************)
GraceReached == dispatcher.handled > 0 /\ expired /\ ~force.started

\* _request_force, up to its test for a snapshot
RequestForce(asked) ==
    /\ Alone(handler)
    /\ force' = [force EXCEPT !.requested = TRUE] /\ signal' = TRUE
    /\ dispatcher' = [at |-> "testing", handled |-> presses, asked |-> asked]

\* select returns for a press, the end of the grace, or the poll that arbitration
\* needs; then _dispatch_interrupts, and the grace that ends without a second press.
DispatchInterrupts ==
    /\ dispatcher.at = "select"
    /\ presses > dispatcher.handled \/ GraceReached \/ force.started
    /\ LET first == dispatcher.handled = 0 /\ presses > 0
           second == dispatcher.handled < 2 /\ presses = 2
       IN  /\ IF ~force.started /\ (second \/ GraceReached)
              THEN RequestForce(IF second THEN force.windows ELSE {})
              ELSE /\ dispatcher' = [at |-> IF force.started THEN "arbitrate" ELSE "select",
                                     handled |-> presses, asked |-> {}]
                   /\ UNCHANGED <<force, signal>>
           /\ cancelWorker' = IF first THEN "starting" ELSE cancelWorker
    /\ UNCHANGED <<state, lock, opening, windows, entries, call, delivered, forcing,
                   childVars, expired, main, presses, handler, exited>>

AssignWindows ==
    /\ \/ /\ dispatcher.at = "testing"
          /\ IF force.captured
             THEN dispatcher' = [dispatcher EXCEPT !.at = "aiming", !.asked = {}]
             ELSE Step("assigning")
          /\ UNCHANGED force
       \/ /\ dispatcher.at = "assigning"
          /\ force' = [force EXCEPT !.windows = dispatcher.asked]
          /\ dispatcher' = [dispatcher EXCEPT !.at = "finalising", !.asked = {}]
    /\ UNCHANGED <<tokenVars, childVars, expired, main, presses, handler, cancelWorker, exited>>

\* _finalize_force_window_snapshot, once nobody is opening a window.
Finalised ==
    IF force.captured \/ opening # {} THEN force
    ELSE [force EXCEPT !.windows = @ \cup windows, !.captured = TRUE]

FinaliseSnapshot ==
    /\ dispatcher.at = "finalising"
    /\ force' = Finalised /\ Step("aiming")
    /\ UNCHANGED <<tokenVars, childVars, expired, main, presses, handler, cancelWorker, exited>>

\* The groups are killed, the notice is written, the force worker is started.
DispatcherKills ==
    /\ dispatcher.at = "aiming"
    /\ KillGroups(entries \cap Worker)
    /\ force' = [force EXCEPT !.direct = entries \cap plain = {}, !.started = TRUE]
    /\ ForceBegins(Control) /\ Step("arbitrate")
    /\ UNCHANGED <<state, lock, opening, windows, entries, call, delivered, at, plain, cleanup,
                   expired, main, presses, handler, cancelWorker, exited>>

ExitAllowed(f) ==
    /\ f.captured /\ f.windows \cap windows = {}
    /\ f.direct \/ forcing[Control] = "done"

\* _arbitrate_exit
Arbitrate ==
    /\ dispatcher.at = "arbitrate"
    /\ force' = Finalised /\ exited' = ExitAllowed(force')
    /\ Step("select")
    /\ UNCHANGED <<tokenVars, childVars, expired, main, presses, handler, cancelWorker>>

Dispatch ==
    \/ DispatchInterrupts \/ AssignWindows
    \/ FinaliseSnapshot \/ DispatcherKills \/ Arbitrate

(***************************************************************************)
(* The threads they start, and time                                        *)
(***************************************************************************)
\* _deliver_cancellation
DeliverCancellation ==
    /\ \/ cancelWorker = "starting" /\ CancelClaims(Terminating)
          /\ cancelWorker' = IF state = "active" THEN "broadcasting" ELSE "done"
       \/ cancelWorker = "broadcasting" /\ CancelDelivered /\ cancelWorker' = "done"
    /\ UNCHANGED <<childVars, expired, main, presses, handler, dispatcher, force, exited>>

DeliverForce ==
    /\ \E f \in DOMAIN forcing : Forcing(f, Terminating)
    /\ UNCHANGED <<childVars, expired, controlVars>>

GraceEnds ==
    /\ dispatcher.handled > 0 /\ ~expired
    /\ expired' = TRUE
    /\ UNCHANGED <<tokenVars, childVars, controlVars>>

Press == FirstPress \/ SecondPress
MainStep == LeaveFollowUp \/ Close
WorkerStep(w) == ChildStep(w) /\ UNCHANGED controlVars

Next ==
    \/ /\ ~Ended
       /\ \/ ~Handling /\ (Press \/ MainStep)
          \/ Handle \/ Dispatch
          \/ DeliverCancellation \/ DeliverForce \/ GraceEnds
          \/ Deliver /\ UNCHANGED controlVars
          \/ \E w \in Worker :
               \/ WorkerStep(w)
               \/ (BeginChild(w) \/ FinishWork(w) \/ ChildEnds(w)) /\ UNCHANGED controlVars
    \/ Ended /\ UNCHANGED vars

\* Threads run, and a child that is being created is or is not; a worker need
\* never come back from work that is not a child, nor the main thread.
Fairness ==
    /\ WF_vars(~Ended /\ Handle)
    /\ WF_vars(~Ended /\ Dispatch)
    /\ WF_vars(~Ended /\ DeliverCancellation)
    /\ WF_vars(~Ended /\ DeliverForce)
    /\ WF_vars(~Ended /\ GraceEnds)
    /\ WF_vars(~Ended /\ Deliver /\ UNCHANGED controlVars)
    /\ \A w \in Worker : WF_vars(~Ended /\ WorkerStep(w))

Spec == Init /\ [][Next]_vars /\ Fairness

(***************************************************************************)
(* Properties                                                              *)
(***************************************************************************)
\* Whoever leaves the process leaves no child behind: neither the handler nor
\* the dispatcher exits over a child that is just being created, or that was
\* not killed yet, and a main thread that ends by itself has reaped them all
\* (run_control.py, _handle_sigint and _arbitrate_exit).
NoChildOutlivesTheRun == Ended => \A w \in Worker : ~Alive(w)

\* An interrupt ends the run even when neither the main thread nor a worker ever
\* comes back from what it does: deliveries that wait for one another, for a
\* registration or for a clean-up do not wait for ever (agent_runtime/base.py,
\* force and _unregister).
InterruptEndsTheRun == presses > 0 ~> Ended

\* Once force has been delivered, a child that still lives is one whose window is
\* still open, and whoever settles it kills it: no registration slips between
\* the request, which is made without the lock, and the claim of the callbacks
\* (agent_runtime/base.py, _register and _settle_published_window).
ForceReachesEveryChild ==
    "force" \in delivered => \A w \in Worker : Alive(w) => w \in windows
=================================================================================
