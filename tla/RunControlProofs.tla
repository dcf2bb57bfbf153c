--------------------------- MODULE RunControlProofs ---------------------------
(***************************************************************************)
(* What is proved about run control (run_control.py, agent_runtime/base.py  *)
(* and agent_runtime/process.py), for any number of worker threads.         *)
(*                                                                         *)
(* The argument.  A worker thread is where its window and its registration  *)
(* say it is (WorkerStages).  Force is claimed once for every registration, *)
(* by whoever leaves the state or by the registration itself, and a window  *)
(* is settled after force only over a child that is gone (ForceIsClaimed):  *)
(* so the delivery reaches every child.  The process is left over a         *)
(* snapshot of the windows that was complete when it was taken and can      *)
(* only have shrunk since, because nobody is admitted after the request     *)
(* (SnapshotIsFinal); what is alive outside of a window has been killed.    *)
(***************************************************************************)
EXTENDS RunControl, TLAPS

(***************************************************************************)
(* The inductive invariant                                                 *)
(***************************************************************************)
\* A force callback is never "started": it ends in the step that begins it.
CallType == [Entry -> [cancel : {"none", "queued", "late", "started", "finished"},
                       force : {"none", "queued", "late", "finished"}]]
ForcingState == {"idle", "asking", "cancelling", "awaiting cancel", "broadcasting",
                 "waiting", "done"}

TokenTypes ==
    /\ state \in {"active", "cancelled", "forced"} /\ signal \in BOOLEAN
    /\ lock \in Worker \cup {Nobody}
    /\ opening \in SUBSET Worker /\ windows \in SUBSET Worker /\ entries \in SUBSET Entry
    /\ call \in CallType
    /\ delivered \in SUBSET {"cancel", "force"}
    /\ forcing \in [{Control, FollowUp} -> ForcingState]

ChildTypes ==
    /\ at \in [Worker -> {"working", "opening", "admitted", "published", "creating",
                          "created", "registering", "claimed", "registered", "running",
                          "unregistering", "finished"}]
    /\ child \in [Worker -> {"none", "alive", "gone"}]
    /\ plain \in SUBSET Worker /\ cleanup \in SUBSET Worker

HandlerType ==
    [at : {"idle", "asked", "looked", "listed", "aimed", "recorded", "kill", "exit"},
     opening : BOOLEAN, windows : SUBSET Worker, targets : SUBSET Worker,
     direct : BOOLEAN, notice : BOOLEAN]
DispatcherType ==
    [at : {"select", "testing", "assigning", "finalising", "aiming", "arbitrate"},
     handled : 0..2, asked : SUBSET Worker]
ForceType ==
    [requested : BOOLEAN, windows : SUBSET Worker, captured : BOOLEAN,
     direct : BOOLEAN, started : BOOLEAN]

ControlTypes ==
    /\ main \in {"working", "unwinding", "closed"} /\ presses \in 0..2
    /\ handler \in HandlerType /\ dispatcher \in DispatcherType /\ force \in ForceType
    /\ cancelWorker \in {"none", "starting", "broadcasting", "done"}
    /\ expired \in BOOLEAN /\ exited \in BOOLEAN

\* A worker is counted, holds the lock, has a window, is registered, and has a
\* child, in the steps of a child's life that say so.
Stage(w) ==
    /\ w \in opening <=> at[w] \in {"opening", "admitted", "published"}
    /\ lock = w <=> at[w] \in {"admitted", "registering", "claimed"}
    /\ at[w] \in {"published", "creating", "created", "registering", "claimed"} => w \in windows
    /\ w \in windows => at[w] \in {"published", "creating", "created", "registering",
                                   "claimed", "registered"}
    /\ w \in entries <=> at[w] \in {"registering", "claimed", "registered", "running",
                                    "unregistering"}
    /\ child[w] = "none" <=> at[w] \in {"working", "opening", "admitted", "published",
                                        "creating", "finished"}
    /\ at[w] = "unregistering" => child[w] = "gone"
    /\ w \notin entries \/ at[w] = "registering" => call[w] = NoCall

WorkerStages == \A w \in Worker : Stage(w)

\* The signal is set before the state is changed, the state before the callbacks
\* are delivered; after the delivery nothing is queued.
ForceIsOrdered ==
    /\ state = "forced" => signal
    /\ \A f \in {Control, FollowUp} :
          /\ forcing[f] # "idle" => signal
          /\ forcing[f] \notin {"idle", "asking"} => state = "forced"
          /\ forcing[f] = "done" => "force" \in delivered
    /\ "force" \in delivered => state = "forced" /\ \A e \in Entry : call[e].force # "queued"

\* Every registration has its force claimed; a late claim keeps the window open,
\* and a claim that was carried out leaves no child.
ForceIsClaimed ==
    \A w \in Worker :
        /\ call[w].force = "late" => signal /\ w \in windows
        /\ state = "forced" /\ w \in entries => at[w] = "registering" \/ call[w].force # "none"
        /\ call[w].force = "finished" => child[w] = "gone"

\* The handler asks first or not at all, and while it is at it the dispatcher waits.
OneSnapshot ==
    /\ ~force.requested => /\ ~force.captured /\ ~force.started
                           /\ dispatcher.at = "select" /\ handler.at = "idle"
    /\ force.requested => signal
    /\ handler.at # "idle" => dispatcher.at = "select" /\ ~force.started
    /\ handler.at \in {"asked", "looked", "listed", "aimed", "recorded"} => ~force.captured
    /\ handler.at = "recorded" => force.windows = handler.windows
    /\ handler.at \in {"kill", "exit"} => force.captured = ~handler.opening
    /\ dispatcher.at \in {"assigning", "finalising"} => ~force.captured

\* Nobody is admitted any more, and who was has opened the window.
Sealed == signal /\ \A w \in Worker : at[w] \notin {"admitted", "published"}

SnapshotIsFinal ==
    /\ force.captured => Sealed /\ windows \subseteq force.windows
    /\ handler.at \notin {"idle", "asked"} /\ ~handler.opening => Sealed
    /\ handler.at \notin {"idle", "asked", "looked"} /\ ~handler.opening
          => windows \subseteq handler.windows

NobodyAlive == \A w \in Worker : ~Alive(w)
AliveIn(W) == \A w \in Worker : Alive(w) => w \in W

\* What lives outside of the windows is aimed at, and killed where a group of its
\* own makes that possible.
OutsidersAreKilled ==
    /\ handler.at \in {"aimed", "recorded", "kill"} /\ ~handler.opening /\ handler.windows = {}
          => AliveIn(handler.targets)
    /\ handler.at = "exit" /\ ~handler.opening /\ handler.windows = {} /\ handler.direct
          => NobodyAlive
    /\ force.direct => signal /\ AliveIn(windows)

ForceInv ==
    /\ TokenTypes /\ ChildTypes
    /\ WorkerStages /\ ForceIsOrdered /\ ForceIsClaimed

ExitInv ==
    /\ OneSnapshot /\ SnapshotIsFinal /\ OutsidersAreKilled /\ NoChildOutlivesTheRun

(***************************************************************************)
(* Operators                                                               *)
(***************************************************************************)
LEMMA ClaimsAreCalls ==
    ASSUME call \in CallType, NEW kinds, NEW terminating
    PROVE  ClaimAll(kinds, terminating) \in CallType
  BY DEF ClaimAll, CallType

LEMMA CancelIsSet ==
    ASSUME call \in CallType, NEW e \in Entry,
           NEW c \in {"none", "queued", "late", "started", "finished"}
    PROVE  [call EXCEPT ![e].cancel = c] \in CallType
  BY DEF CallType

LEMMA ForceIsSet ==
    ASSUME call \in CallType, NEW e \in Entry, NEW c \in {"none", "queued", "late", "finished"}
    PROVE  [call EXCEPT ![e].force = c] \in CallType
  BY DEF CallType

LEMMA CallIsSet ==
    ASSUME call \in CallType, NEW e \in Entry,
           NEW c \in {"none", "queued", "late", "started", "finished"},
           NEW d \in {"none", "queued", "late", "finished"}
    PROVE  [call EXCEPT ![e] = [cancel |-> c, force |-> d]] \in CallType
  BY DEF CallType

(***************************************************************************)
(* What the token and the children see of a step                           *)
(***************************************************************************)
Signals ==
    /\ signal' \in {signal, TRUE}
    /\ UNCHANGED <<state, lock, opening, windows, entries, call, delivered, forcing, childVars>>

Kills(targets) == KillGroups(targets) /\ UNCHANGED <<at, plain, cleanup>>

ControlKills(targets) ==
    /\ Kills(targets) /\ ForceBegins(Control)
    /\ UNCHANGED <<state, lock, opening, windows, entries, call, delivered>>

WorkerMoves(w) ==
    \/ BeginChild(w) \/ OpenWindow(w) \/ CreateChild(w) \/ RegisterChild(w)
    \/ DeliverLate(w) \/ SettleWindow(w) \/ ChildEnds(w) \/ StopWaiting(w)
    \/ ReleaseChild(w) \/ FinishWork(w)

TokenStep ==
    \/ Signals
    \/ Unregister(FollowUp) /\ UNCHANGED childVars
    \/ \E targets \in SUBSET Worker :
          (Kills(targets) /\ UNCHANGED tokenVars) \/ ControlKills(targets)
    \/ CancelClaims(Terminating) /\ UNCHANGED childVars
    \/ CancelDelivered /\ UNCHANGED childVars
    \/ \E f \in DOMAIN forcing : Forcing(f, Terminating) /\ UNCHANGED childVars
    \/ Deliver
    \/ \E w \in Worker : WorkerMoves(w)

LEMMA EveryStepIsATokenStep ==
    ASSUME ControlTypes, TokenTypes, [Next]_vars
    PROVE  TokenStep
<1>1. CASE UNCHANGED vars
  BY <1>1 DEF vars, tokenVars, TokenStep, Signals
<1>2. CASE Press \/ MainStep
  BY <1>2 DEF Press, FirstPress, SecondPress, MainStep, LeaveFollowUp, Close, TokenStep,
              Signals, tokenVars
<1>3. CASE Handle
  <2>1. CASE HandlerKills
    <3>1. handler.targets \in SUBSET Worker
      BY DEF ControlTypes, HandlerType
    <3> QED
      BY <2>1, <3>1 DEF HandlerKills, TokenStep, Kills
  <2> QED
    BY <1>3, <2>1 DEF Handle, HandlerReads, HandlerRecords, HandlerExits, TokenStep, Signals,
                      tokenVars
<1>4. CASE Dispatch
  <2>1. CASE DispatchInterrupts
    BY <2>1 DEF DispatchInterrupts, RequestForce, TokenStep, Signals
  <2>2. CASE DispatcherKills
    <3>1. entries \cap Worker \in SUBSET Worker
      OBVIOUS
    <3> QED
      BY <2>2, <3>1 DEF DispatcherKills, TokenStep, Kills, ControlKills
  <2> QED
    BY <1>4, <2>1, <2>2 DEF Dispatch, AssignWindows, FinaliseSnapshot, Arbitrate, TokenStep,
                            Signals, tokenVars
<1>5. CASE DeliverCancellation \/ DeliverForce \/ GraceEnds
  BY <1>5 DEF DeliverCancellation, DeliverForce, GraceEnds, TokenStep, Signals, tokenVars
<1>6. CASE Deliver
  BY <1>6 DEF TokenStep
<1>7. ASSUME NEW w \in Worker,
             WorkerStep(w) \/ BeginChild(w) \/ FinishWork(w) \/ ChildEnds(w)
      PROVE  TokenStep
  BY <1>7 DEF WorkerStep, ChildStep, TokenStep, WorkerMoves
<1> QED
  BY <1>1, <1>2, <1>3, <1>4, <1>5, <1>6, <1>7 DEF Next

LEMMA TokenTypesStep ==
    ASSUME TokenTypes, ChildTypes, TokenStep
    PROVE  TokenTypes'
<1> USE TokenAssumption DEF TokenTypes, ForcingState, Entry
<1>1. CASE Signals
  BY <1>1 DEF Signals, childVars
<1>2. CASE Unregister(FollowUp) /\ UNCHANGED childVars
  BY <1>2, CallIsSet DEF NoCall, Unregister, NothingPending, childVars
<1>3. ASSUME NEW targets \in SUBSET Worker, Kills(targets) /\ UNCHANGED tokenVars
      PROVE  TokenTypes'
  BY <1>3 DEF Kills, KillGroups, Alive, tokenVars
<1>4. ASSUME NEW targets \in SUBSET Worker, ControlKills(targets) PROVE TokenTypes'
  BY <1>4 DEF ControlKills, ForceBegins, Kills, KillGroups, Alive
<1>5. CASE CancelClaims(Terminating) /\ UNCHANGED childVars
  <2>1. ClaimAll({"cancel"}, Terminating) \in CallType
    BY ClaimsAreCalls
  <2> QED
    BY <1>5, <2>1 DEF CancelClaims, childVars
<1>6. CASE CancelDelivered /\ UNCHANGED childVars
  BY <1>6 DEF CancelDelivered, childVars
<1>7. ASSUME NEW f \in DOMAIN forcing, ForceClaims(f, Terminating), UNCHANGED childVars
      PROVE  TokenTypes'
  <2>1. call' \in CallType
    <3>1. CASE state = "forced"
      BY <1>7, <3>1 DEF ForceClaims
    <3>2. CASE state # "forced"
      <4>1. PICK kinds : call' = ClaimAll(kinds, Terminating)
        BY <1>7, <3>2 DEF ForceClaims
      <4> QED
        BY <4>1, ClaimsAreCalls
    <3> QED
      BY <3>1, <3>2
  <2> QED
    BY <1>7, <2>1 DEF ForceClaims, childVars
<1>8. ASSUME NEW f \in DOMAIN forcing, ForceBroadcasts(f), UNCHANGED childVars
      PROVE  TokenTypes'
  BY <1>8 DEF ForceBroadcasts, childVars
<1>9. ASSUME NEW f \in DOMAIN forcing, ForceDelivered(f), UNCHANGED childVars
      PROVE  TokenTypes'
  BY <1>9 DEF ForceDelivered, childVars
<1>10. ASSUME NEW f \in DOMAIN forcing, ForceWaited(f), UNCHANGED childVars
       PROVE  TokenTypes'
  BY <1>10 DEF ForceWaited, childVars
<1>11. ASSUME NEW e \in Entry, RunCancel(e) PROVE TokenTypes'
  BY <1>11, CancelIsSet DEF RunCancel, ForceBegins, childVars
<1>12. ASSUME NEW p \in Worker, RunForce(p) PROVE TokenTypes'
  BY <1>12, ForceIsSet DEF RunForce
<1>13. CASE FollowUpForced
  BY <1>13, CancelIsSet DEF FollowUpForced, childVars
<1>14. ASSUME NEW p \in Worker, BeginChild(p) PROVE TokenTypes'
  BY <1>14 DEF BeginChild, BeginOpening, Goes
<1>15. ASSUME NEW p \in Worker, OpenWindow(p) PROVE TokenTypes'
  BY <1>15 DEF OpenWindow, AdmitOpening, RejectOpening, PublishWindow, EndOpening, Goes
<1>16. ASSUME NEW p \in Worker, CreateChild(p) PROVE TokenTypes'
  BY <1>16 DEF CreateChild, NoResource, Goes, tokenVars
<1>17. ASSUME NEW p \in Worker, RegisterChild(p) PROVE TokenTypes'
  <2>1. call' \in CallType
    <3>1. CASE ClaimLate(p, p \notin cleanup)
      <4>1. PICK c \in {"none", "late"}, d \in {"none", "late"} :
                call' = [call EXCEPT ![p] = [cancel |-> c, force |-> d]]
        BY <3>1 DEF ClaimLate
      <4> QED
        BY <4>1, CallIsSet
    <3> QED
      BY <1>17, <3>1 DEF RegisterChild, PublishEntry, SettleOnEntry
  <2> QED
    BY <1>17, <2>1 DEF RegisterChild, PublishEntry, ClaimLate, SettleOnEntry,
                       LeaveRegistration
<1>18. ASSUME NEW p \in Worker, DeliverLate(p) PROVE TokenTypes'
  <2>1. call' \in CallType
    <3>1. CASE call' = [call EXCEPT ![p].cancel = "finished"]
      BY <3>1, CancelIsSet
    <3>2. CASE call' = [call EXCEPT ![p].force = "finished"]
      BY <3>2, ForceIsSet
    <3> QED
      BY <1>18, <3>1, <3>2 DEF DeliverLate
  <2> QED
    BY <1>18, <2>1 DEF DeliverLate
<1>19. ASSUME NEW p \in Worker, SettleWindow(p) PROVE TokenTypes'
  <2>1. call' \in CallType
    <3>1. CASE call' = [call EXCEPT ![p].force = "late"]
      BY <3>1, ForceIsSet
    <3> QED
      BY <1>19, <3>1 DEF SettleWindow, SettlePublished, ClaimForceToSettle, tokenVars
  <2> QED
    BY <1>19, <2>1 DEF SettleWindow, SettlePublished, ClaimForceToSettle, tokenVars
<1>20. ASSUME NEW p \in Worker, ChildEnds(p) PROVE TokenTypes'
  BY <1>20 DEF ChildEnds, Alive, tokenVars
<1>21. ASSUME NEW p \in Worker, StopWaiting(p) PROVE TokenTypes'
  BY <1>21 DEF StopWaiting, Goes, tokenVars
<1>22. ASSUME NEW p \in Worker, ReleaseChild(p) PROVE TokenTypes'
  BY <1>22, CallIsSet DEF NoCall, ReleaseChild, Unregister, Goes, tokenVars, NothingPending
<1>23. ASSUME NEW p \in Worker, FinishWork(p) PROVE TokenTypes'
  BY <1>23 DEF FinishWork, Goes, tokenVars
<1> QED
  BY <1>1, <1>2, <1>3, <1>4, <1>5, <1>6, <1>7, <1>8, <1>9, <1>10, <1>11, <1>12,
     <1>13, <1>14, <1>15, <1>16, <1>17, <1>18, <1>19, <1>20, <1>21, <1>22, <1>23
     DEF TokenStep, WorkerMoves, Forcing, Deliver

LEMMA ChildTypesStep ==
    ASSUME TokenTypes, ChildTypes, TokenStep
    PROVE  ChildTypes'
<1> USE TokenAssumption DEF ChildTypes
<1>1. CASE Signals
  BY <1>1 DEF Signals, childVars
<1>2. CASE Unregister(FollowUp) /\ UNCHANGED childVars
  BY <1>2 DEF Unregister, NothingPending, childVars
<1>3. ASSUME NEW targets \in SUBSET Worker, Kills(targets) /\ UNCHANGED tokenVars
      PROVE  ChildTypes'
  BY <1>3 DEF Kills, KillGroups, Alive, tokenVars
<1>4. ASSUME NEW targets \in SUBSET Worker, ControlKills(targets) PROVE ChildTypes'
  BY <1>4 DEF ControlKills, ForceBegins, Kills, KillGroups, Alive
<1>5. CASE CancelClaims(Terminating) /\ UNCHANGED childVars
  BY <1>5 DEF CancelClaims, ClaimAll, childVars, Unlocked
<1>6. CASE CancelDelivered /\ UNCHANGED childVars
  BY <1>6 DEF CancelDelivered, childVars
<1>7. ASSUME NEW f \in DOMAIN forcing, ForceClaims(f, Terminating), UNCHANGED childVars
      PROVE  ChildTypes'
  BY <1>7 DEF ForceClaims, ClaimAll, Unlocked, childVars
<1>8. ASSUME NEW f \in DOMAIN forcing, ForceBroadcasts(f), UNCHANGED childVars
      PROVE  ChildTypes'
  BY <1>8 DEF ForceBroadcasts, childVars
<1>9. ASSUME NEW f \in DOMAIN forcing, ForceDelivered(f), UNCHANGED childVars
      PROVE  ChildTypes'
  BY <1>9 DEF ForceDelivered, childVars
<1>10. ASSUME NEW f \in DOMAIN forcing, ForceWaited(f), UNCHANGED childVars
       PROVE  ChildTypes'
  BY <1>10 DEF ForceWaited, childVars
<1>11. ASSUME NEW e \in Entry, RunCancel(e) PROVE ChildTypes'
  BY <1>11 DEF RunCancel, ForceBegins, childVars
<1>12. ASSUME NEW p \in Worker, RunForce(p) PROVE ChildTypes'
  BY <1>12 DEF RunForce
<1>13. CASE FollowUpForced
  BY <1>13 DEF FollowUpForced, childVars
<1>14. ASSUME NEW p \in Worker, BeginChild(p) PROVE ChildTypes'
  BY <1>14 DEF BeginChild, BeginOpening, Goes
<1>15. ASSUME NEW p \in Worker, OpenWindow(p) PROVE ChildTypes'
  BY <1>15 DEF OpenWindow, AdmitOpening, RejectOpening, PublishWindow, EndOpening, Goes
<1>16. ASSUME NEW p \in Worker, CreateChild(p) PROVE ChildTypes'
  BY <1>16 DEF CreateChild, NoResource, Goes, tokenVars
<1>17. ASSUME NEW p \in Worker, RegisterChild(p) PROVE ChildTypes'
  BY <1>17 DEF RegisterChild, PublishEntry, ClaimLate, SettleOnEntry, LeaveRegistration,
               Goes
<1>18. ASSUME NEW p \in Worker, DeliverLate(p) PROVE ChildTypes'
  BY <1>18 DEF DeliverLate
<1>19. ASSUME NEW p \in Worker, SettleWindow(p) PROVE ChildTypes'
  BY <1>19 DEF SettleWindow, SettlePublished, ClaimForceToSettle, DeliveredLate, tokenVars
<1>20. ASSUME NEW p \in Worker, ChildEnds(p) PROVE ChildTypes'
  BY <1>20 DEF ChildEnds, Alive, tokenVars
<1>21. ASSUME NEW p \in Worker, StopWaiting(p) PROVE ChildTypes'
  BY <1>21 DEF StopWaiting, Goes, tokenVars
<1>22. ASSUME NEW p \in Worker, ReleaseChild(p) PROVE ChildTypes'
  BY <1>22 DEF ReleaseChild, Unregister, Goes, NothingPending
<1>23. ASSUME NEW p \in Worker, FinishWork(p) PROVE ChildTypes'
  BY <1>23 DEF FinishWork, Goes, tokenVars
<1> QED
  BY <1>1, <1>2, <1>3, <1>4, <1>5, <1>6, <1>7, <1>8, <1>9, <1>10, <1>11, <1>12,
     <1>13, <1>14, <1>15, <1>16, <1>17, <1>18, <1>19, <1>20, <1>21, <1>22, <1>23
     DEF TokenStep, WorkerMoves, Forcing, Deliver

LEMMA WorkerStagesStep ==
    ASSUME TokenTypes, ChildTypes, TokenTypes', ChildTypes', WorkerStages, TokenStep
    PROVE  WorkerStages'
<1> USE TokenAssumption DEF TokenTypes, CallType, ChildTypes, WorkerStages, Stage, Entry,
                            NoCall, Unlocked
<1>1. CASE Signals
  BY <1>1 DEF Signals, childVars
<1>2. CASE Unregister(FollowUp) /\ UNCHANGED childVars
  BY <1>2 DEF Unregister, NothingPending, childVars
<1>3. ASSUME NEW targets \in SUBSET Worker, Kills(targets) /\ UNCHANGED tokenVars
      PROVE  WorkerStages'
  BY <1>3 DEF Kills, KillGroups, Alive, tokenVars
<1>4. ASSUME NEW targets \in SUBSET Worker, ControlKills(targets) PROVE WorkerStages'
  BY <1>4 DEF ControlKills, ForceBegins, Kills, KillGroups, Alive
<1>5. CASE CancelClaims(Terminating) /\ UNCHANGED childVars
  BY <1>5 DEF CancelClaims, ClaimAll, childVars, Unlocked
<1>6. CASE CancelDelivered /\ UNCHANGED childVars
  BY <1>6 DEF CancelDelivered, childVars
<1>7. ASSUME NEW f \in DOMAIN forcing, ForceClaims(f, Terminating), UNCHANGED childVars
      PROVE  WorkerStages'
  <2>1. CASE state = "forced"
    BY <1>7, <2>1 DEF ForceClaims, childVars
  <2>2. CASE state # "forced"
    <3>1. PICK kinds : call' = ClaimAll(kinds, Terminating)
      BY <1>7, <2>2 DEF ForceClaims
    <3>2. \A p \in Worker \ entries : call'[p] = call[p]
      BY <3>1 DEF ClaimAll
    <3>3. \A p \in Worker : at[p] # "registering"
      BY <1>7 DEF ForceClaims
    <3>4. UNCHANGED <<opening, lock, windows, entries, at, child>>
      BY <1>7 DEF ForceClaims, childVars
    <3> QED
      BY <3>2, <3>3, <3>4
  <2> QED
    BY <2>1, <2>2
<1>8. ASSUME NEW f \in DOMAIN forcing, ForceBroadcasts(f), UNCHANGED childVars
      PROVE  WorkerStages'
  BY <1>8 DEF ForceBroadcasts, childVars
<1>9. ASSUME NEW f \in DOMAIN forcing, ForceDelivered(f), UNCHANGED childVars
      PROVE  WorkerStages'
  BY <1>9 DEF ForceDelivered, childVars
<1>10. ASSUME NEW f \in DOMAIN forcing, ForceWaited(f), UNCHANGED childVars
       PROVE  WorkerStages'
  BY <1>10 DEF ForceWaited, childVars
<1>11. ASSUME NEW e \in Entry, RunCancel(e) PROVE WorkerStages'
  BY <1>11 DEF RunCancel, ForceBegins, childVars
<1>12. ASSUME NEW p \in Worker, RunForce(p) PROVE WorkerStages'
  BY <1>12 DEF RunForce
<1>13. CASE FollowUpForced
  BY <1>13 DEF FollowUpForced, childVars
<1>14. ASSUME NEW p \in Worker, BeginChild(p) PROVE WorkerStages'
  BY <1>14 DEF BeginChild, BeginOpening, Goes
<1>15. ASSUME NEW p \in Worker, OpenWindow(p) PROVE WorkerStages'
  BY <1>15 DEF OpenWindow, AdmitOpening, RejectOpening, PublishWindow, EndOpening, Goes
<1>16. ASSUME NEW p \in Worker, CreateChild(p) PROVE WorkerStages'
  BY <1>16 DEF CreateChild, NoResource, Goes, tokenVars
<1>17. ASSUME NEW p \in Worker, RegisterChild(p) PROVE WorkerStages'
  BY <1>17 DEF RegisterChild, PublishEntry, ClaimLate, SettleOnEntry, LeaveRegistration,
               Goes, IsSet
<1>18. ASSUME NEW p \in Worker, DeliverLate(p) PROVE WorkerStages'
  BY <1>18 DEF DeliverLate
<1>19. ASSUME NEW p \in Worker, SettleWindow(p) PROVE WorkerStages'
  BY <1>19 DEF SettleWindow, SettlePublished, ClaimForceToSettle, DeliveredLate, tokenVars
<1>20. ASSUME NEW p \in Worker, ChildEnds(p) PROVE WorkerStages'
  BY <1>20 DEF ChildEnds, Alive, tokenVars
<1>21. ASSUME NEW p \in Worker, StopWaiting(p) PROVE WorkerStages'
  BY <1>21 DEF StopWaiting, Goes, tokenVars
<1>22. ASSUME NEW p \in Worker, ReleaseChild(p) PROVE WorkerStages'
  BY <1>22 DEF ReleaseChild, Unregister, Goes, NothingPending
<1>23. ASSUME NEW p \in Worker, FinishWork(p) PROVE WorkerStages'
  BY <1>23 DEF FinishWork, Goes, tokenVars
<1> QED
  BY <1>1, <1>2, <1>3, <1>4, <1>5, <1>6, <1>7, <1>8, <1>9, <1>10, <1>11, <1>12,
     <1>13, <1>14, <1>15, <1>16, <1>17, <1>18, <1>19, <1>20, <1>21, <1>22, <1>23
     DEF TokenStep, WorkerMoves, Forcing, Deliver

LEMMA ForceIsOrderedStep ==
    ASSUME TokenTypes, ChildTypes, TokenTypes', WorkerStages, ForceIsOrdered, TokenStep
    PROVE  ForceIsOrdered'
<1> USE TokenAssumption DEF TokenTypes, CallType, ForceIsOrdered, Entry, NoCall
<1>1. CASE Signals
  BY <1>1 DEF Signals, childVars
<1>2. CASE Unregister(FollowUp) /\ UNCHANGED childVars
  BY <1>2 DEF Unregister, NothingPending, childVars
<1>3. ASSUME NEW targets \in SUBSET Worker, Kills(targets) /\ UNCHANGED tokenVars
      PROVE  ForceIsOrdered'
  BY <1>3 DEF Kills, KillGroups, Alive, tokenVars
<1>4. ASSUME NEW targets \in SUBSET Worker, ControlKills(targets) PROVE ForceIsOrdered'
  BY <1>4 DEF ControlKills, ForceBegins, Kills, KillGroups, Alive
<1>5. CASE CancelClaims(Terminating) /\ UNCHANGED childVars
  BY <1>5 DEF CancelClaims, ClaimAll, childVars, Unlocked
<1>6. CASE CancelDelivered /\ UNCHANGED childVars
  BY <1>6 DEF CancelDelivered, childVars
<1>7. ASSUME NEW f \in DOMAIN forcing, ForceClaims(f, Terminating), UNCHANGED childVars
      PROVE  ForceIsOrdered'
  BY <1>7 DEF ForceClaims, ClaimAll, Unlocked, childVars
<1>8. ASSUME NEW f \in DOMAIN forcing, ForceBroadcasts(f), UNCHANGED childVars
      PROVE  ForceIsOrdered'
  BY <1>8 DEF ForceBroadcasts, childVars
<1>9. ASSUME NEW f \in DOMAIN forcing, ForceDelivered(f), UNCHANGED childVars
      PROVE  ForceIsOrdered'
  BY <1>9 DEF ForceDelivered, childVars
<1>10. ASSUME NEW f \in DOMAIN forcing, ForceWaited(f), UNCHANGED childVars
       PROVE  ForceIsOrdered'
  BY <1>10 DEF ForceWaited, childVars
<1>11. ASSUME NEW e \in Entry, RunCancel(e) PROVE ForceIsOrdered'
  BY <1>11 DEF RunCancel, ForceBegins, childVars
<1>12. ASSUME NEW p \in Worker, RunForce(p) PROVE ForceIsOrdered'
  BY <1>12 DEF RunForce
<1>13. CASE FollowUpForced
  BY <1>13 DEF FollowUpForced, childVars
<1>14. ASSUME NEW p \in Worker, BeginChild(p) PROVE ForceIsOrdered'
  BY <1>14 DEF BeginChild, BeginOpening, Goes
<1>15. ASSUME NEW p \in Worker, OpenWindow(p) PROVE ForceIsOrdered'
  BY <1>15 DEF OpenWindow, AdmitOpening, RejectOpening, PublishWindow, EndOpening, Goes,
               ForceAsked
<1>16. ASSUME NEW p \in Worker, CreateChild(p) PROVE ForceIsOrdered'
  BY <1>16 DEF CreateChild, NoResource, Goes, tokenVars
<1>17. ASSUME NEW p \in Worker, RegisterChild(p) PROVE ForceIsOrdered'
  BY <1>17 DEF RegisterChild, PublishEntry, ClaimLate, SettleOnEntry, LeaveRegistration,
               Goes, ForceAsked
<1>18. ASSUME NEW p \in Worker, DeliverLate(p) PROVE ForceIsOrdered'
  BY <1>18 DEF DeliverLate
<1>19. ASSUME NEW p \in Worker, SettleWindow(p) PROVE ForceIsOrdered'
  BY <1>19 DEF SettleWindow, SettlePublished, ClaimForceToSettle, DeliveredLate, tokenVars,
               ForceAsked
<1>20. ASSUME NEW p \in Worker, ChildEnds(p) PROVE ForceIsOrdered'
  BY <1>20 DEF ChildEnds, Alive, tokenVars
<1>21. ASSUME NEW p \in Worker, StopWaiting(p) PROVE ForceIsOrdered'
  BY <1>21 DEF StopWaiting, Goes, tokenVars
<1>22. ASSUME NEW p \in Worker, ReleaseChild(p) PROVE ForceIsOrdered'
  BY <1>22 DEF ReleaseChild, Unregister, Goes, NothingPending
<1>23. ASSUME NEW p \in Worker, FinishWork(p) PROVE ForceIsOrdered'
  BY <1>23 DEF FinishWork, Goes, tokenVars
<1> QED
  BY <1>1, <1>2, <1>3, <1>4, <1>5, <1>6, <1>7, <1>8, <1>9, <1>10, <1>11, <1>12,
     <1>13, <1>14, <1>15, <1>16, <1>17, <1>18, <1>19, <1>20, <1>21, <1>22, <1>23
     DEF TokenStep, WorkerMoves, Forcing, Deliver

LEMMA ForceIsClaimedStep ==
    ASSUME TokenTypes, ChildTypes, TokenTypes', ChildTypes', WorkerStages, WorkerStages',
           ForceIsOrdered, ForceIsClaimed, TokenStep
    PROVE  ForceIsClaimed'
<1> USE TokenAssumption DEF TokenTypes, CallType, ChildTypes, ForceIsClaimed, ForceIsOrdered,
                            WorkerStages, Stage, Entry, NoCall, Unlocked
<1>1. CASE Signals
  BY <1>1 DEF Signals, childVars
<1>2. CASE Unregister(FollowUp) /\ UNCHANGED childVars
  BY <1>2 DEF Unregister, NothingPending, childVars
<1>3. ASSUME NEW targets \in SUBSET Worker, Kills(targets) /\ UNCHANGED tokenVars
      PROVE  ForceIsClaimed'
  BY <1>3 DEF Kills, KillGroups, Alive, tokenVars
<1>4. ASSUME NEW targets \in SUBSET Worker, ControlKills(targets) PROVE ForceIsClaimed'
  BY <1>4 DEF ControlKills, ForceBegins, Kills, KillGroups, Alive
<1>5. CASE CancelClaims(Terminating) /\ UNCHANGED childVars
  BY <1>5 DEF CancelClaims, ClaimAll, childVars, Unlocked
<1>6. CASE CancelDelivered /\ UNCHANGED childVars
  BY <1>6 DEF CancelDelivered, childVars
<1>7. ASSUME NEW f \in DOMAIN forcing, ForceClaims(f, Terminating), UNCHANGED childVars
      PROVE  ForceIsClaimed'
  <2>1. CASE state = "forced"
    BY <1>7, <2>1 DEF ForceClaims, childVars
  <2>2. CASE state # "forced"
    <3>1. PICK kinds : "force" \in kinds /\ call' = ClaimAll(kinds, Terminating)
      BY <1>7, <2>2 DEF ForceClaims
    <3>2. \A p \in entries \cap Worker : call'[p].force # "none"
      BY <3>1 DEF ClaimAll
    <3>3. \A p \in Worker : call'[p].force \in {"late", "finished"}
                           => call[p].force = call'[p].force
      BY <3>1 DEF ClaimAll
    <3>4. UNCHANGED <<signal, windows, entries, child>>
      BY <1>7 DEF ForceClaims, childVars
    <3> QED
      BY <3>2, <3>3, <3>4
  <2> QED
    BY <2>1, <2>2
<1>8. ASSUME NEW f \in DOMAIN forcing, ForceBroadcasts(f), UNCHANGED childVars
      PROVE  ForceIsClaimed'
  BY <1>8 DEF ForceBroadcasts, childVars
<1>9. ASSUME NEW f \in DOMAIN forcing, ForceDelivered(f), UNCHANGED childVars
      PROVE  ForceIsClaimed'
  BY <1>9 DEF ForceDelivered, childVars
<1>10. ASSUME NEW f \in DOMAIN forcing, ForceWaited(f), UNCHANGED childVars
       PROVE  ForceIsClaimed'
  BY <1>10 DEF ForceWaited, childVars
<1>11. ASSUME NEW e \in Entry, RunCancel(e) PROVE ForceIsClaimed'
  BY <1>11 DEF RunCancel, ForceBegins, childVars
<1>12. ASSUME NEW p \in Worker, RunForce(p) PROVE ForceIsClaimed'
  BY <1>12 DEF RunForce
<1>13. CASE FollowUpForced
  BY <1>13 DEF FollowUpForced, childVars
<1>14. ASSUME NEW p \in Worker, BeginChild(p) PROVE ForceIsClaimed'
  BY <1>14 DEF BeginChild, BeginOpening, Goes
<1>15. ASSUME NEW p \in Worker, OpenWindow(p) PROVE ForceIsClaimed'
  BY <1>15 DEF OpenWindow, AdmitOpening, RejectOpening, PublishWindow, EndOpening, Goes,
               ForceAsked
<1>16. ASSUME NEW p \in Worker, CreateChild(p) PROVE ForceIsClaimed'
  BY <1>16 DEF CreateChild, NoResource, Goes, tokenVars
<1>17. ASSUME NEW p \in Worker, RegisterChild(p) PROVE ForceIsClaimed'
  BY <1>17 DEF RegisterChild, PublishEntry, ClaimLate, SettleOnEntry, LeaveRegistration,
               Goes, ForceAsked
<1>18. ASSUME NEW p \in Worker, DeliverLate(p) PROVE ForceIsClaimed'
  BY <1>18 DEF DeliverLate
<1>19. ASSUME NEW p \in Worker, SettleWindow(p) PROVE ForceIsClaimed'
  BY <1>19 DEF SettleWindow, SettlePublished, ClaimForceToSettle, DeliveredLate, tokenVars,
               ForceAsked
<1>20. ASSUME NEW p \in Worker, ChildEnds(p) PROVE ForceIsClaimed'
  BY <1>20 DEF ChildEnds, Alive, tokenVars
<1>21. ASSUME NEW p \in Worker, StopWaiting(p) PROVE ForceIsClaimed'
  BY <1>21 DEF StopWaiting, Goes, tokenVars
<1>22. ASSUME NEW p \in Worker, ReleaseChild(p) PROVE ForceIsClaimed'
  BY <1>22 DEF ReleaseChild, Unregister, Goes, NothingPending, NothingPending
<1>23. ASSUME NEW p \in Worker, FinishWork(p) PROVE ForceIsClaimed'
  BY <1>23 DEF FinishWork, Goes, tokenVars
<1> QED
  BY <1>1, <1>2, <1>3, <1>4, <1>5, <1>6, <1>7, <1>8, <1>9, <1>10, <1>11, <1>12,
     <1>13, <1>14, <1>15, <1>16, <1>17, <1>18, <1>19, <1>20, <1>21, <1>22, <1>23
     DEF TokenStep, WorkerMoves, Forcing, Deliver

(***************************************************************************)
(* The delivery of force                                                   *)
(***************************************************************************)
LEMMA ForceInvInit == ASSUME Init PROVE ForceInv
  BY TokenAssumption DEF Init, InitToken, InitChild, ForceInv, TokenTypes, ChildTypes, CallType,
     ForcingState, Entry, NoCall, WorkerStages, Stage, ForceIsOrdered, ForceIsClaimed

LEMMA ForceInvStep == ASSUME ForceInv, TokenStep PROVE ForceInv'
  BY TokenTypesStep, ChildTypesStep, WorkerStagesStep, ForceIsOrderedStep, ForceIsClaimedStep
     DEF ForceInv

LEMMA ForceReaches == ASSUME ForceInv PROVE ForceReachesEveryChild
<1> SUFFICES ASSUME "force" \in delivered, NEW w \in Worker, Alive(w), w \notin windows
             PROVE  FALSE
  BY DEF ForceReachesEveryChild
<1>1. at[w] \in {"registered", "running"} /\ w \in entries
  BY DEF ForceInv, WorkerStages, Stage, ChildTypes, Alive
<1>2. call[w].force \notin {"queued", "none"} /\ call[w] \in
          [cancel : {"none", "queued", "late", "started", "finished"},
           force : {"none", "queued", "late", "finished"}]
  BY <1>1 DEF ForceInv, TokenTypes, CallType, ForceIsOrdered, ForceIsClaimed, Entry
<1> QED
  BY <1>1, <1>2 DEF ForceInv, ForceIsClaimed, Alive

(***************************************************************************)
(* What every other process leaves of a snapshot                           *)
(***************************************************************************)
\* The signal stays; once it is set nobody is admitted, windows only close, and
\* nothing comes to life outside of a window, or loses its window and lives on.
Contained ==
    /\ signal'
    /\ Sealed => Sealed' /\ windows' \subseteq windows
    /\ \A w \in Worker : Alive(w)' => w \in windows' \/ (Alive(w) /\ w \notin windows)

LEMMA StepsAreContained ==
    ASSUME ForceInv, TokenStep, signal
    PROVE  Contained
<1> USE TokenAssumption DEF ForceInv, TokenTypes, CallType, ChildTypes, ForceIsClaimed,
                            WorkerStages, Stage, Contained, Sealed, Alive
<1>1. CASE Signals
  BY <1>1 DEF Signals, childVars
<1>2. CASE Unregister(FollowUp) /\ UNCHANGED childVars
  BY <1>2 DEF Unregister, NothingPending, childVars
<1>3. ASSUME NEW targets \in SUBSET Worker, Kills(targets) /\ UNCHANGED tokenVars
      PROVE  Contained
  BY <1>3 DEF Kills, KillGroups, Alive, tokenVars
<1>4. ASSUME NEW targets \in SUBSET Worker, ControlKills(targets) PROVE Contained
  BY <1>4 DEF ControlKills, ForceBegins, Kills, KillGroups
<1>5. CASE CancelClaims(Terminating) /\ UNCHANGED childVars
  BY <1>5 DEF CancelClaims, ClaimAll, childVars, Unlocked
<1>6. CASE CancelDelivered /\ UNCHANGED childVars
  BY <1>6 DEF CancelDelivered, childVars
<1>7. ASSUME NEW f \in DOMAIN forcing, ForceClaims(f, Terminating), UNCHANGED childVars
      PROVE  Contained
  BY <1>7 DEF ForceClaims, childVars
<1>8. ASSUME NEW f \in DOMAIN forcing, ForceBroadcasts(f), UNCHANGED childVars
      PROVE  Contained
  BY <1>8 DEF ForceBroadcasts, childVars
<1>9. ASSUME NEW f \in DOMAIN forcing, ForceDelivered(f), UNCHANGED childVars
      PROVE  Contained
  BY <1>9 DEF ForceDelivered, childVars
<1>10. ASSUME NEW f \in DOMAIN forcing, ForceWaited(f), UNCHANGED childVars
       PROVE  Contained
  BY <1>10 DEF ForceWaited, childVars
<1>11. ASSUME NEW e \in Entry, RunCancel(e) PROVE Contained
  BY <1>11 DEF RunCancel, ForceBegins, childVars
<1>12. ASSUME NEW p \in Worker, RunForce(p) PROVE Contained
  BY <1>12 DEF RunForce
<1>13. CASE FollowUpForced
  BY <1>13 DEF FollowUpForced, childVars
<1>14. ASSUME NEW p \in Worker, BeginChild(p) PROVE Contained
  BY <1>14 DEF BeginChild, BeginOpening, Goes
<1>15. ASSUME NEW p \in Worker, OpenWindow(p) PROVE Contained
  <2>1. CASE Goes(p, "opening", "admitted") /\ AdmitOpening(p)
    BY <1>15, <2>1 DEF AdmitOpening, ForceAsked
  <2>2. CASE Goes(p, "opening", "working") /\ RejectOpening(p)
    BY <1>15, <2>2 DEF OpenWindow, RejectOpening, Goes
  <2>3. CASE Goes(p, "admitted", "published") /\ PublishWindow(p)
    BY <1>15, <2>3 DEF OpenWindow, PublishWindow, Goes
  <2>4. CASE Goes(p, "published", "creating") /\ EndOpening(p)
    BY <1>15, <2>4 DEF OpenWindow, EndOpening, Goes
  <2> QED
    BY <1>15, <2>1, <2>2, <2>3, <2>4 DEF OpenWindow
<1>16. ASSUME NEW p \in Worker, CreateChild(p) PROVE Contained
  <2>1. CASE /\ at[p] = "creating" /\ at' = [at EXCEPT ![p] = "created"]
             /\ child' = [child EXCEPT ![p] = "alive"] /\ UNCHANGED <<signal, windows>>
    <3>1. p \in windows
      BY <2>1
    <3> QED
      BY <2>1, <3>1
  <2>2. CASE /\ at[p] = "creating" /\ at' = [at EXCEPT ![p] = "working"]
             /\ child' = child /\ signal' = signal /\ windows' = windows \ {p}
    <3>1. child[p] = "none"
      BY <2>2
    <3> QED
      BY <2>2, <3>1
  <2> QED
    BY <1>16, <2>1, <2>2 DEF CreateChild, Goes, NoResource, tokenVars
<1>17. ASSUME NEW p \in Worker, RegisterChild(p) PROVE Contained
  <2>1. CASE Goes(p, "created", "registering") /\ PublishEntry(p)
    BY <1>17, <2>1 DEF RegisterChild, PublishEntry, Goes
  <2>2. CASE Goes(p, "registering", "claimed") /\ ClaimLate(p, p \notin cleanup)
    BY <1>17, <2>2 DEF RegisterChild, ClaimLate, Goes
  <2>3. CASE Goes(p, "claimed", "registered") /\ SettleOnEntry(p)
    BY <1>17, <2>3 DEF RegisterChild, SettleOnEntry, LeaveRegistration, Goes
  <2> QED
    BY <1>17, <2>1, <2>2, <2>3 DEF RegisterChild
<1>18. ASSUME NEW p \in Worker, DeliverLate(p) PROVE Contained
  BY <1>18 DEF DeliverLate
<1>19. ASSUME NEW p \in Worker, SettleWindow(p) PROVE Contained
  <2>1. CASE p \notin windows /\ UNCHANGED tokenVars
    BY <1>19, <2>1 DEF SettleWindow, tokenVars
  <2>2. CASE p \in windows /\ SettlePublished(p)
    BY <1>19, <2>2 DEF SettleWindow, SettlePublished, ForceAsked
  <2>3. CASE p \in windows /\ ClaimForceToSettle(p) /\ UNCHANGED at
    BY <1>19, <2>3 DEF SettleWindow, ClaimForceToSettle
  <2> QED
    BY <1>19, <2>1, <2>2, <2>3 DEF SettleWindow
<1>20. ASSUME NEW p \in Worker, ChildEnds(p) PROVE Contained
  BY <1>20 DEF ChildEnds, Alive, tokenVars
<1>21. ASSUME NEW p \in Worker, StopWaiting(p) PROVE Contained
  BY <1>21 DEF StopWaiting, Goes, tokenVars
<1>22. ASSUME NEW p \in Worker, ReleaseChild(p) PROVE Contained
  BY <1>22 DEF ReleaseChild, Unregister, Goes, NothingPending, NothingPending
<1>23. ASSUME NEW p \in Worker, FinishWork(p) PROVE Contained
  BY <1>23 DEF FinishWork, Goes, tokenVars
<1> QED
  BY <1>1, <1>2, <1>3, <1>4, <1>5, <1>6, <1>7, <1>8, <1>9, <1>10, <1>11, <1>12,
     <1>13, <1>14, <1>15, <1>16, <1>17, <1>18, <1>19, <1>20, <1>21, <1>22, <1>23
     DEF TokenStep, WorkerMoves, Forcing, Deliver

(***************************************************************************)
(* The process is left over nobody                                         *)
(***************************************************************************)
\* What neither the handler nor the dispatcher does, nor ends the run.
Elsewhere ==
    /\ UNCHANGED <<handler, dispatcher, force, exited>>
    /\ main' \in {main, "unwinding"}

LEMMA ControlCases ==
    ASSUME [Next]_vars
    PROVE  \/ Elsewhere
           \/ ~Ended /\ (Close \/ (SecondPress /\ handler.at = "idle"))
           \/ ~Ended /\ (Handle \/ Dispatch)
<1>1. CASE UNCHANGED vars
  BY <1>1 DEF vars, controlVars, Elsewhere
<1>2. CASE ~Ended /\ ~Handling /\ (Press \/ MainStep)
  BY <1>2 DEF Press, MainStep, FirstPress, LeaveFollowUp, Handling, Elsewhere, controlVars
<1>3. CASE DeliverCancellation \/ DeliverForce \/ GraceEnds
  BY <1>3 DEF DeliverCancellation, DeliverForce, GraceEnds, Elsewhere, controlVars
<1>4. CASE UNCHANGED controlVars
  BY <1>4 DEF Elsewhere, controlVars
<1> QED
  BY <1>1, <1>2, <1>3, <1>4 DEF Next, WorkerStep

LEMMA ControlTypesStep ==
    ASSUME ControlTypes, TokenTypes, [Next]_vars
    PROVE  ControlTypes'
<1> USE DEF ControlTypes
<1>1. CASE UNCHANGED vars
  BY <1>1 DEF vars, controlVars
<1>2. CASE FirstPress \/ MainStep
  BY <1>2 DEF FirstPress, MainStep, LeaveFollowUp, Close, controlVars
<1>3. CASE SecondPress
  <2>1. [handler EXCEPT !.at = "asked"] \in HandlerType
    BY DEF HandlerType
  <2>2. [force EXCEPT !.requested = TRUE] \in ForceType
    BY DEF ForceType
  <2>3. handler' \in HandlerType /\ force' \in ForceType
    BY <1>3, <2>1, <2>2 DEF SecondPress
  <2> QED
    BY <1>3, <2>3 DEF SecondPress
<1>4. CASE DeliverCancellation \/ DeliverForce \/ GraceEnds
  BY <1>4 DEF DeliverCancellation, DeliverForce, GraceEnds, controlVars
<1>5. CASE UNCHANGED <<controlVars, expired>>
  BY <1>5 DEF controlVars
<1>6. CASE HandlerReads
  <2>1. windows \in SUBSET Worker /\ (entries \cap Worker) \in SUBSET Worker
    BY DEF TokenTypes
  <2>2. handler' \in HandlerType
    <3>1. CASE handler' = [handler EXCEPT !.at = "looked", !.opening = opening # {}]
      BY <3>1 DEF HandlerType
    <3>2. CASE handler' = [handler EXCEPT !.at = "listed", !.windows = windows]
      BY <2>1, <3>2 DEF HandlerType
    <3>3. CASE handler' = [handler EXCEPT !.at = "aimed", !.targets = entries \cap Worker]
      BY <2>1, <3>3 DEF HandlerType
    <3> QED
      BY <1>6, <3>1, <3>2, <3>3 DEF HandlerReads, ReadRegistry
  <2> QED
    BY <1>6, <2>2 DEF HandlerReads
<1>7. CASE HandlerRecords
  <2>1. handler' \in HandlerType
    BY <1>7 DEF HandlerRecords, HandlerType
  <2>2. force' \in ForceType
    BY <1>7 DEF HandlerRecords, HandlerType, ForceType
  <2> QED
    BY <1>7, <2>1, <2>2 DEF HandlerRecords
<1>8. CASE HandlerKills
  <2>1. PICK notice \in BOOLEAN :
            handler' = [handler EXCEPT !.at = "exit", !.notice = notice,
                                       !.direct = handler.targets \cap plain = {}]
    BY <1>8 DEF HandlerKills
  <2>2. handler' \in HandlerType
    BY <2>1 DEF HandlerType
  <2> QED
    BY <1>8, <2>2 DEF HandlerKills
<1>9. CASE HandlerExits
  <2>1. NotHandling \in HandlerType
    BY DEF NotHandling, HandlerType
  <2>2. exited' \in BOOLEAN
    BY <1>9 DEF HandlerExits, HandlerType, ForceType
  <2> QED
    BY <1>9, <2>1, <2>2 DEF HandlerExits
<1>10. CASE DispatchInterrupts
  <2>1. force' \in ForceType /\ dispatcher' \in DispatcherType
    <3>1. [force EXCEPT !.requested = TRUE] \in ForceType /\ force.windows \in SUBSET Worker
      BY DEF ForceType
    <3>2. \A a \in {"select", "testing", "arbitrate"}, W \in SUBSET Worker :
             [at |-> a, handled |-> presses, asked |-> W] \in DispatcherType
      BY DEF DispatcherType
    <3>3. {} \in SUBSET Worker
      OBVIOUS
    <3>4. CASE force' = force
      <4>1. PICK a \in {"select", "testing", "arbitrate"}, W \in {{}, force.windows} :
                dispatcher' = [at |-> a, handled |-> presses, asked |-> W]
        BY <1>10 DEF DispatchInterrupts, RequestForce
      <4> QED
        BY <3>1, <3>2, <3>3, <3>4, <4>1
    <3>5. CASE force' = [force EXCEPT !.requested = TRUE]
      <4>1. PICK a \in {"select", "testing", "arbitrate"}, W \in {{}, force.windows} :
                dispatcher' = [at |-> a, handled |-> presses, asked |-> W]
        BY <1>10 DEF DispatchInterrupts, RequestForce
      <4> QED
        BY <3>1, <3>2, <3>3, <3>5, <4>1
    <3> QED
      BY <1>10, <3>4, <3>5 DEF DispatchInterrupts, RequestForce
  <2>2. cancelWorker' \in {cancelWorker, "starting"}
    BY <1>10 DEF DispatchInterrupts
  <2> QED
    BY <1>10, <2>1, <2>2 DEF DispatchInterrupts
<1>11. CASE AssignWindows
  <2>1. dispatcher' \in DispatcherType
    <3>1. CASE dispatcher' = [dispatcher EXCEPT !.at = "aiming", !.asked = {}]
      BY <3>1 DEF DispatcherType
    <3>2. CASE dispatcher' = [dispatcher EXCEPT !.at = "assigning"]
      BY <3>2 DEF DispatcherType
    <3>3. CASE dispatcher' = [dispatcher EXCEPT !.at = "finalising", !.asked = {}]
      BY <3>3 DEF DispatcherType
    <3> QED
      BY <1>11, <3>1, <3>2, <3>3 DEF AssignWindows, Step
  <2>2. force' \in ForceType
    <3>1. [force EXCEPT !.windows = dispatcher.asked] \in ForceType
      BY DEF DispatcherType, ForceType
    <3> QED
      BY <1>11, <3>1 DEF AssignWindows
  <2> QED
    BY <1>11, <2>1, <2>2 DEF AssignWindows
<1>12. Finalised \in ForceType
  <2>1. windows \in SUBSET Worker
    BY DEF TokenTypes
  <2> QED
    BY <2>1 DEF Finalised, ForceType
<1>13. \A label \in {"select", "aiming", "arbitrate"} :
          [dispatcher EXCEPT !.at = label] \in DispatcherType
  BY DEF DispatcherType
<1>14. CASE FinaliseSnapshot
  BY <1>12, <1>13, <1>14 DEF FinaliseSnapshot, Step
<1>15. CASE DispatcherKills
  <2>1. force' \in ForceType
    BY <1>15 DEF DispatcherKills, ForceType
  <2> QED
    BY <1>13, <1>15, <2>1 DEF DispatcherKills, Step
<1>16. CASE Arbitrate
  <2>1. exited' \in BOOLEAN
    BY <1>12, <1>16 DEF Arbitrate, ExitAllowed, ForceType
  <2> QED
    BY <1>12, <1>13, <1>16, <2>1 DEF Arbitrate, Step
<1>17. CASE Deliver /\ UNCHANGED controlVars
  BY <1>17, <1>5 DEF Deliver, RunCancel, RunForce, FollowUpForced
<1>18. ASSUME NEW w \in Worker, WorkerMoves(w), UNCHANGED controlVars PROVE ControlTypes'
  BY <1>18, <1>5 DEF WorkerMoves, BeginChild, OpenWindow, CreateChild, RegisterChild, DeliverLate,
                     SettleWindow, ChildEnds, StopWaiting, ReleaseChild, FinishWork
<1> QED
  BY <1>1, <1>2, <1>3, <1>4, <1>6, <1>7, <1>8, <1>9, <1>10, <1>11, <1>14, <1>15, <1>16, <1>17,
     <1>18
     DEF Next, Press, Handle, Dispatch, WorkerStep, ChildStep, WorkerMoves

LEMMA OneSnapshotStep ==
    ASSUME ControlTypes, ControlTypes', OneSnapshot, ~Overlap, [Next]_vars, signal => signal'
    PROVE  OneSnapshot'
<1> USE DEF ControlTypes, HandlerType, DispatcherType, ForceType, OneSnapshot, Alone, Snapshot
<1>1. CASE Elsewhere
  BY <1>1 DEF Elsewhere
<1>2. CASE Close
  BY <1>2 DEF Close
<1>3. CASE SecondPress /\ handler.at = "idle"
  BY <1>3 DEF SecondPress
<1>4. CASE HandlerReads
  BY <1>4 DEF HandlerReads, ReadRegistry
<1>5. CASE HandlerRecords
  BY <1>5 DEF HandlerRecords
<1>6. CASE HandlerKills
  BY <1>6 DEF HandlerKills
<1>7. CASE HandlerExits
  BY <1>7 DEF HandlerExits, NotHandling
<1>8. CASE DispatchInterrupts
  BY <1>8 DEF DispatchInterrupts, RequestForce
<1>9. CASE AssignWindows
  BY <1>9 DEF AssignWindows, Step
<1>10. CASE FinaliseSnapshot
  BY <1>10 DEF FinaliseSnapshot, Finalised, Step
<1>11. CASE DispatcherKills
  BY <1>11 DEF DispatcherKills, Step
<1>12. CASE Arbitrate
  BY <1>12 DEF Arbitrate, Finalised, Step
<1> QED
  BY ControlCases, <1>1, <1>2, <1>3, <1>4, <1>5, <1>6, <1>7, <1>8, <1>9, <1>10, <1>11, <1>12
     DEF Handle, Dispatch

LEMMA NobodyIsAdmitted ==
    ASSUME ForceInv, signal, opening = {}
    PROVE  Sealed
  BY DEF ForceInv, WorkerStages, Stage, Sealed

LEMMA SnapshotIsFinalStep ==
    ASSUME ForceInv, TokenStep, ControlTypes, OneSnapshot, SnapshotIsFinal, [Next]_vars
    PROVE  SnapshotIsFinal'
<1> USE DEF SnapshotIsFinal, OneSnapshot
<1>1. signal => Contained
  BY StepsAreContained
<1>2. Sealed => signal /\ Sealed' /\ windows' \subseteq windows
  BY <1>1 DEF Sealed, Contained
<1>3. CASE Elsewhere
  BY <1>2, <1>3 DEF Elsewhere
<1>4. CASE Close
  BY <1>2, <1>4 DEF Close
<1>5. CASE SecondPress /\ handler.at = "idle"
  BY <1>2, <1>5 DEF SecondPress, ControlTypes, HandlerType, ForceType
<1>6. CASE HandlerReads
  <2>1. signal /\ UNCHANGED <<windows, force>>
    BY <1>6 DEF HandlerReads, ReadRegistry, tokenVars
  <2>2. opening = {} => Sealed
    BY <2>1, NobodyIsAdmitted
  <2> QED
    BY <1>2, <1>6, <2>1, <2>2 DEF HandlerReads, ReadRegistry, ControlTypes, HandlerType
<1>7. CASE HandlerRecords
  BY <1>2, <1>7 DEF HandlerRecords, ControlTypes, HandlerType, ForceType
<1>8. CASE HandlerKills
  BY <1>2, <1>8 DEF HandlerKills, ControlTypes, HandlerType
<1>9. CASE HandlerExits
  BY <1>2, <1>9 DEF HandlerExits, NotHandling
<1>10. CASE DispatchInterrupts
  BY <1>2, <1>10 DEF DispatchInterrupts, RequestForce, ControlTypes, ForceType
<1>11. CASE AssignWindows
  BY <1>2, <1>11 DEF AssignWindows, ControlTypes, ForceType
<1>12. CASE FinaliseSnapshot \/ Arbitrate
  <2>1. signal /\ force' = Finalised /\ UNCHANGED <<windows, handler>>
    BY <1>12 DEF FinaliseSnapshot, Arbitrate, tokenVars
  <2>2. opening = {} => Sealed
    BY <2>1, NobodyIsAdmitted
  <2> QED
    BY <1>2, <2>1, <2>2 DEF Finalised, ControlTypes, ForceType
<1>13. CASE DispatcherKills
  BY <1>2, <1>13 DEF DispatcherKills, ControlTypes, ForceType
<1> QED
  BY ControlCases, <1>3, <1>4, <1>5, <1>6, <1>7, <1>8, <1>9, <1>10, <1>11, <1>12, <1>13
     DEF Handle, Dispatch

\* A child that lives outside of the windows is registered.
LEMMA OutsidersAreRegistered ==
    ASSUME ForceInv, NEW w \in Worker, Alive(w), w \notin windows
    PROVE  w \in entries
  BY DEF ForceInv, ChildTypes, WorkerStages, Stage, Alive

LEMMA OutsidersAreKilledStep ==
    ASSUME ForceInv, TokenStep, ControlTypes, OneSnapshot, SnapshotIsFinal, OutsidersAreKilled,
           [Next]_vars
    PROVE  OutsidersAreKilled'
<1> USE DEF OutsidersAreKilled, AliveIn, NobodyAlive
<1>1. signal => Contained
  BY StepsAreContained
<1>2. /\ handler.at \in {"aimed", "recorded", "kill", "exit"}
      /\ ~handler.opening /\ handler.windows = {}
      => windows = {} /\ windows' = {} /\ \A w \in Worker : Alive(w)' => Alive(w)
  BY <1>1 DEF SnapshotIsFinal, Sealed, Contained
<1>3. force.direct => signal' /\ \A w \in Worker : Alive(w)' => w \in windows'
  BY <1>1 DEF Contained
<1>4. CASE UNCHANGED <<handler, force>>
  BY <1>2, <1>3, <1>4
<1>5. CASE SecondPress /\ handler.at = "idle"
  BY <1>3, <1>5, <1>4 DEF SecondPress, ControlTypes, HandlerType, ForceType
<1>6. CASE HandlerReads
  <2>1. UNCHANGED <<windows, force, child>>
    BY <1>6 DEF HandlerReads, tokenVars, childVars
  <2>2. CASE handler.at = "listed"
    <3>1. /\ handler'.at = "aimed" /\ handler'.targets = entries \cap Worker
          /\ UNCHANGED <<handler.windows, handler.opening>>
      BY <1>6, <2>2 DEF HandlerReads, ReadRegistry, ControlTypes, HandlerType
    <3>2. ~handler.opening /\ handler.windows = {} => windows = {}
      BY <2>2 DEF SnapshotIsFinal
    <3>3. ~handler.opening /\ handler.windows = {}
             => \A w \in Worker : Alive(w) => w \in entries \cap Worker
      BY <3>2, OutsidersAreRegistered
    <3>4. \A w \in Worker : Alive(w)' <=> Alive(w)
      BY <2>1 DEF Alive
    <3> QED
      BY <1>3, <2>1, <3>1, <3>3, <3>4
  <2>3. CASE handler.at # "listed"
    BY <1>3, <1>6, <2>1, <2>3 DEF HandlerReads, ReadRegistry, ControlTypes, HandlerType
  <2> QED
    BY <2>2, <2>3
<1>7. CASE HandlerRecords
  BY <1>2, <1>3, <1>7 DEF HandlerRecords, ControlTypes, HandlerType, ForceType
<1>8. CASE HandlerKills
  <2>1. /\ handler.at = "kill" /\ handler'.at = "exit" /\ UNCHANGED force
        /\ handler'.direct = (handler.targets \cap plain = {})
        /\ UNCHANGED <<handler.windows, handler.opening>>
    BY <1>8 DEF HandlerKills, ControlTypes, HandlerType
  <2>2. \A w \in Worker : Alive(w)' => Alive(w) /\ w \notin handler.targets \ plain
    BY <1>8 DEF HandlerKills, KillGroups, Alive
  <2> QED
    BY <1>3, <2>1, <2>2
<1>9. CASE HandlerExits
  BY <1>3, <1>9 DEF HandlerExits, NotHandling
<1>10. CASE DispatchInterrupts
  BY <1>2, <1>3, <1>10 DEF DispatchInterrupts, RequestForce, ControlTypes, ForceType
<1>11. CASE AssignWindows
  BY <1>2, <1>3, <1>11 DEF AssignWindows, ControlTypes, ForceType
<1>12. CASE FinaliseSnapshot \/ Arbitrate
  <2>1. force' = Finalised /\ UNCHANGED handler
    BY <1>12 DEF FinaliseSnapshot, Arbitrate
  <2> QED
    BY <1>2, <1>3, <2>1 DEF Finalised, ControlTypes, ForceType
<1>13. CASE DispatcherKills
  <2>1. /\ UNCHANGED <<handler, windows>> /\ signal'
        /\ force'.direct = (entries \cap plain = {})
    BY <1>13 DEF DispatcherKills, ForceBegins, ControlTypes, ForceType
  <2>2. \A w \in Worker : Alive(w)' => Alive(w) /\ w \notin (entries \cap Worker) \ plain
    BY <1>13 DEF DispatcherKills, KillGroups, Alive
  <2>3. force'.direct => \A w \in Worker : Alive(w)' => w \in windows'
    BY <2>1, <2>2, OutsidersAreRegistered
  <2> QED
    BY <1>2, <2>1, <2>3
<1> QED
  BY ControlCases, <1>4, <1>5, <1>6, <1>7, <1>8, <1>9, <1>10, <1>11, <1>12, <1>13
     DEF Handle, Dispatch, Elsewhere, Close

LEMMA NoChildOutlivesTheRunStep ==
    ASSUME ForceInv, ControlTypes, OneSnapshot, SnapshotIsFinal, SnapshotIsFinal',
           OutsidersAreKilled, NoChildOutlivesTheRun, [Next]_vars
    PROVE  NoChildOutlivesTheRun'
<1> USE DEF NoChildOutlivesTheRun, Ended
<1>1. CASE Ended
  BY <1>1 DEF Next, vars, controlVars, childVars, Alive
<1>2. CASE ~Ended /\ UNCHANGED exited /\ main' \in {main, "unwinding"}
  BY <1>2
<1>3. CASE Close
  <2>1. \A w \in Worker : child'[w] = "none"
    BY <1>3 DEF Close, ForceInv, WorkerStages, Stage, childVars
  <2> QED
    BY <2>1 DEF Alive
<1>4. CASE HandlerExits
  <2>1. /\ handler.at = "exit" /\ UNCHANGED <<child, main>>
        /\ exited' => force.captured /\ handler.windows = {} /\ handler.direct
    BY <1>4 DEF HandlerExits, childVars
  <2>2. exited' => NobodyAlive
    BY <2>1 DEF OneSnapshot, OutsidersAreKilled
  <2> QED
    BY <1>2, <2>1, <2>2 DEF Alive, NobodyAlive
<1>5. CASE Arbitrate
  <2>1. /\ UNCHANGED <<windows, child, forcing, main>> /\ exited' = ExitAllowed(force')
        /\ force'.direct = force.direct
    BY <1>5 DEF Arbitrate, tokenVars, childVars, Finalised, ControlTypes, ForceType
  <2>2. exited' => windows = {}
    BY <2>1 DEF ExitAllowed, SnapshotIsFinal
  <2>3. forcing[Control] = "done" => AliveIn(windows)
    BY ForceReaches DEF ForceReachesEveryChild, ForceInv, ForceIsOrdered, AliveIn
  <2>4. exited' => AliveIn(windows)
    BY <2>1, <2>3 DEF ExitAllowed, OutsidersAreKilled
  <2> QED
    BY <1>2, <2>1, <2>2, <2>4 DEF Alive, AliveIn
<1> QED
  BY ControlCases, <1>1, <1>2, <1>3, <1>4, <1>5
     DEF Elsewhere, SecondPress, Handle, HandlerReads, HandlerRecords, HandlerKills, Dispatch,
         DispatchInterrupts, AssignWindows, FinaliseSnapshot, DispatcherKills

(***************************************************************************)
(* Theorems                                                                *)
(***************************************************************************)
LEMMA ExitInvInit == ASSUME Init PROVE ControlTypes /\ ExitInv
<1>1. NotHandling \in HandlerType /\ NoForce \in ForceType
  BY DEF NotHandling, HandlerType, NoForce, ForceType
<1>2. [at |-> "select", handled |-> 0, asked |-> {}] \in DispatcherType
  BY DEF DispatcherType
<1>3. ControlTypes
  <2>1. handler \in HandlerType /\ dispatcher \in DispatcherType /\ force \in ForceType
    BY <1>1, <1>2 DEF Init
  <2>2. main = "working" /\ presses \in 0..2 /\ cancelWorker = "none"
    BY DEF Init
  <2>3. exited \in BOOLEAN /\ expired \in BOOLEAN
    BY Zenon DEF Init, InitChild
  <2> QED
    BY <2>1, <2>2, <2>3 DEF ControlTypes
<1>4. OneSnapshot /\ SnapshotIsFinal /\ OutsidersAreKilled
  BY DEF Init, NotHandling, NoForce, OneSnapshot, SnapshotIsFinal, OutsidersAreKilled
<1>5. NoChildOutlivesTheRun
  BY DEF Init, NoChildOutlivesTheRun, Ended
<1> QED
  BY <1>3, <1>4, <1>5 DEF ExitInv

LEMMA ExitInvStep ==
    ASSUME ForceInv, TokenStep, ControlTypes, ExitInv, ~Overlap, [Next]_vars
    PROVE  ExitInv'
<1>1. ControlTypes'
  BY ControlTypesStep DEF ForceInv
<1>2. signal => signal'
  BY StepsAreContained DEF Contained
<1>3. OneSnapshot'
  BY <1>1, <1>2, OneSnapshotStep DEF ExitInv
<1>4. SnapshotIsFinal'
  BY SnapshotIsFinalStep DEF ExitInv
<1>5. OutsidersAreKilled'
  BY OutsidersAreKilledStep DEF ExitInv
<1>6. NoChildOutlivesTheRun'
  BY <1>4, NoChildOutlivesTheRunStep DEF ExitInv
<1> QED
  BY <1>3, <1>4, <1>5, <1>6 DEF ExitInv

\* Where every worker thread, its window, its registration, its child and its
\* deliveries are, in every reachable state, however handler and dispatcher meet
\* (agent_runtime/base.py and agent_runtime/process.py).
THEOREM RunControlInvariant == Spec => [](ForceInv /\ ControlTypes)
<1>1. Init => ForceInv /\ ControlTypes
  BY ForceInvInit, ExitInvInit
<1>2. ForceInv /\ ControlTypes /\ [Next]_vars => (ForceInv /\ ControlTypes)'
  BY EveryStepIsATokenStep, ForceInvStep, ControlTypesStep DEF ForceInv
<1> QED
  BY <1>1, <1>2, PTL DEF Spec

\* Once force has been delivered, a child that still lives is one whose window is
\* still open (agent_runtime/base.py, _register and _settle_published_window).
THEOREM ForceReachesAll == Spec => []ForceReachesEveryChild
  BY RunControlInvariant, ForceReaches, PTL

\* When the snapshots of the handler and of the dispatcher do not overlap, the
\* process is never left over a child that lives (run_control.py, _handle_sigint
\* and _arbitrate_exit).
THEOREM NobodyIsLeftBehind ==
    ASSUME ~Overlap
    PROVE  Spec => []NoChildOutlivesTheRun
<1>1. Init => ExitInv
  BY ExitInvInit
<1>2. ForceInv /\ ControlTypes /\ ExitInv /\ [Next]_vars => ExitInv'
  BY EveryStepIsATokenStep, ExitInvStep DEF ForceInv
<1>3. ExitInv => NoChildOutlivesTheRun
  BY DEF ExitInv
<1> QED
  BY <1>1, <1>2, <1>3, RunControlInvariant, PTL DEF Spec

================================================================================
