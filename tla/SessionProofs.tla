---------------------------- MODULE SessionProofs ----------------------------
(***************************************************************************)
(* Proofs about Session: the safety invariants of the run, from an         *)
(* inductive invariant in two halves. What the screens promise (the gate   *)
(* at rest, nothing denied, the truth in the menu and at exit) is about    *)
(* the UI thread against the watchdog and the engine; what the outcome     *)
(* says is about the worker, its checkpoint and its queue of events.       *)
(***************************************************************************)
EXTENDS Session, WellFoundedInduction, TLAPS

-----------------------------------------------------------------------------
(* The inductive invariant.                                                *)

Working == {"check", "conflict", "stop", "start"}
Reported(i) == \E k \in DOMAIN events : events[k] = i
ReportedFailure == \E k \in DOMAIN events : events[k] < 0

\* The gate rests wherever the user is offered a command, and is occupied during an
\* update or a cleanup.
GateInv ==
  /\ screen \in {"connect", "reconnect", "outcome", "connected", "lost", "menu", "confirm",
                 "exit", "exited"} => operationState_ \in Resting
  /\ screen = "connecting" =>
       /\ operationState_ \in Resting \cup {"Connecting"}
       /\ worker \in {"finish", "done"} => operationState_ \in Resting
  /\ screen = "cleanup" => why \in {"Connected", "Disconnected"}
  /\ screen = "reconnect" => operationState_ = "Disconnected" /\ frame = "begin"

\* No engine appears behind the back of a screen that has found none.
EngineInv ==
  /\ watchdog \in {"dead", "ended"} \/ lost \/ leave = "lost"
       \/ screen \in {"lost", "reconnect"} => ~IsConnectedByUs
  /\ screen \in {"menu", "confirm"} /\ frame = "observe" /\ ~seen => ~IsConnectedByUs
  /\ frame = "join" => screen = "connected"
  /\ leave # "none" => frame = "join"
  /\ lost => watchdog = "ended"

\* The worker is where its checkpoint says, and has failed or ended only once.
WorkInv ==
  /\ screen \notin {"connecting", "outcome"} => events = <<>> /\ bar = 0 /\ ~failed /\ ~done
  /\ worker \in Working => result = "error" /\ ~failed /\ ~ReportedFailure /\ ~done
  /\ worker \in {"conflict", "stop"} => cp = 5
  /\ worker = "start" => cp = 15
  /\ worker = "check" /\ cp > 15 => confirmed
  /\ done => worker = "done" \/ screen = "outcome"
  /\ screen = "outcome" => events = <<>>

\* 100% is shown or will be exactly for a confirmed success, a failure only for an error.
EventInv ==
  /\ bar = 100 \/ Reported(20) => confirmed /\ result = "connected"
  /\ result = "connected" => bar = 100 \/ Reported(20)
  /\ failed \/ ReportedFailure => result = "error"

\* What the screens rely on, and what the outcome of a connect relies on.
ScreenInv  == GateInv /\ EngineInv /\ NothingDenied /\ MenuTellsTruth /\ ExitAsAsked
ConnectInv == WorkInv /\ EventInv

IInv == TypeOK /\ ScreenInv /\ ConnectInv

-----------------------------------------------------------------------------
(* Steps of the screens that leave the worker alone.                       *)

\* The worker, its locals and what they imply are untouched.
LEMMA WorkSame ==
  ASSUME IInv, UNCHANGED <<workVars, shownVars>>,
         screen' = screen \/ {screen, screen'} \cap {"connecting", "outcome"} = {}
  PROVE  ConnectInv'
<1>1. (Reported(20)' <=> Reported(20)) /\ (ReportedFailure' <=> ReportedFailure)
  BY DEF Reported, ReportedFailure, workVars
<1>2. WorkInv'
  BY <1>1 DEF IInv, ConnectInv, WorkInv, Working, workVars, shownVars, TypeOK, ThreadTypes
<1>3. EventInv'
  BY <1>1 DEF IInv, ConnectInv, EventInv, workVars, shownVars
<1> QED  BY <1>2, <1>3 DEF ConnectInv

\* So are the types, if the watchdog is left alone too.
LEMMA Untouched ==
  ASSUME IInv, UNCHANGED <<workVars, shownVars, watchVars>>, ScreenTypes',
         \/ screen' = screen
         \/ /\ screen \notin {"connecting", "outcome", "connected"}
            /\ screen' \notin {"connecting", "outcome"}
  PROVE  TypeOK' /\ ConnectInv'
<1>1. ConnectInv'
  BY WorkSame
<1>2. ThreadTypes'
  BY DEF IInv, TypeOK, ThreadTypes, workVars, shownVars, watchVars
<1> QED  BY <1>1, <1>2 DEF IInv, TypeOK, workVars, watchVars

\* A stop at a gate that tells the truth is not denied, and the gate tells the truth
\* again when it succeeds.
LEMMA StopIsHonest ==
  ASSUME TypeOK, NEW ok \in BOOLEAN, StopManagedConnection(ok),
         operationState_ \in Resting, operationState_ = "Disconnected" => ~IsConnectedByUs
  PROVE  /\ denied' = denied
         /\ operationState_' \in {"Disconnected", "Error"}
         /\ engine' \in {engine, "none"}
         /\ ok => operationState_' = "Disconnected" /\ ~IsConnectedByUs'
<1> USE DEF StopManagedConnection, IsConnectedByUs, Resting, Busy
<1>1. CASE operationState_ = "Disconnected"
  BY <1>1 DEF TypeOK, ScreenTypes
<1>2. CASE operationState_ \in {"Connected", "Error"}
  BY <1>2
<1> QED  BY <1>1, <1>2

\* The frames of every screen. Observe brings the gate to what Probe saw, and no engine
\* has started since.
LEMMA FramesKeep ==
  ASSUME IInv, Probe \/ Observe \/ Idle
  PROVE  IInv'
<1> USE DEF gateVars, flowVars, workVars, shownVars, watchVars, Show, Framed, IsConnectedByUs
<1>1. CASE Probe
  <2>1. ScreenTypes'
    BY <1>1 DEF Probe, IInv, TypeOK, ScreenTypes
  <2>2. ScreenInv'
    BY <1>1 DEF Probe, IInv, TypeOK, ScreenTypes, ThreadTypes, ScreenInv, GateInv,
       EngineInv, NothingDenied, MenuTellsTruth, ExitAsAsked
  <2> QED  BY <2>1, <2>2, <1>1, Untouched DEF Probe, IInv
<1>2. CASE Observe
  <2>1. /\ frame = "observe" /\ frame' = "keys" /\ seen' = FALSE
        /\ UNCHANGED <<denied, engine, screen, why, leave, workVars, shownVars, watchVars, bye>>
    BY <1>2 DEF Observe
  <2>2. /\ operationState_ \in Resting => operationState_' = Observed(seen)
        /\ operationState_ \notin Resting => operationState_' = operationState_
    BY <1>2, Zenon DEF Observe
  <2>3. /\ Observed(TRUE) = "Connected" /\ Observed(FALSE) = "Disconnected"
        /\ seen = TRUE \/ seen = FALSE
        /\ operationState_ \in Resting \cup Busy
    BY DEF IInv, TypeOK, ScreenTypes, Observed
  <2>4. /\ operationState_ \in Resting =>
             \/ operationState_' = "Connected"
             \/ operationState_' = "Disconnected" /\ ~seen
        /\ operationState_' \in Resting \/ operationState_' = operationState_
    BY <2>2, <2>3 DEF Resting, Busy
  <2>5. ScreenTypes'
    <3>1. operationState_' \in Resting \cup Busy
      BY <2>3, <2>4 DEF Resting
    <3>2. seen' \in BOOLEAN /\ denied' \in BOOLEAN
      BY <2>1 DEF IInv, TypeOK, ScreenTypes
    <3> QED  BY <2>1, <3>1, <3>2 DEF IInv, TypeOK, ScreenTypes
  <2>6. GateInv'
    BY <2>1, <2>4 DEF IInv, ScreenInv, GateInv, Resting, workVars
  <2>7. EngineInv' /\ NothingDenied' /\ ExitAsAsked'
    BY <2>1 DEF IInv, ScreenInv, EngineInv, NothingDenied, ExitAsAsked, watchVars
  <2>8. MenuTellsTruth'
    BY <2>1, <2>4 DEF IInv, ScreenInv, GateInv, EngineInv, MenuTellsTruth
  <2> QED  BY <2>1, <2>5, <2>6, <2>7, <2>8, Untouched DEF IInv, ScreenInv
<1>3. CASE Idle
  <2>1. ScreenTypes'
    BY <1>3 DEF Idle, IInv, TypeOK, ScreenTypes
  <2>2. ScreenInv'
    BY <1>3 DEF Idle, IInv, TypeOK, ScreenTypes, ThreadTypes, ScreenInv, GateInv, EngineInv,
       NothingDenied, MenuTellsTruth, ExitAsAsked
  <2> QED  BY <2>1, <2>2, <1>3, Untouched DEF Idle, IInv
<1> QED  BY <1>1, <1>2, <1>3

\* The connected screen, its loss and a reconnect: while an engine is missed none starts.
LEMMA ConnectedKeep ==
  ASSUME IInv,
         \/ DrainLoss
         \/ \E how \in {"menu", "quit"} : LeaveConnected(how)
         \/ JoinWatchdog
         \/ Reconnect
         \/ GiveUpConnection
         \/ \E ok \in BOOLEAN : StopBeforeReconnect(ok)
  PROVE  IInv'
<1> USE DEF gateVars, flowVars, workVars, shownVars, watchVars, Show, Framed, Resting, Busy,
            IsConnectedByUs, Observed
<1>1. CASE DrainLoss
  <2>1. ScreenTypes'
    BY <1>1 DEF DrainLoss, IInv, TypeOK, ScreenTypes
  <2>2. ScreenInv'
    BY <1>1 DEF DrainLoss, IInv, TypeOK, ScreenTypes, ThreadTypes, ScreenInv, GateInv,
       EngineInv, NothingDenied, MenuTellsTruth, ExitAsAsked
  <2> QED  BY <2>1, <2>2, <1>1, Untouched DEF DrainLoss, IInv
<1>2. ASSUME NEW how \in {"menu", "quit"}, LeaveConnected(how)
      PROVE  IInv'
  <2>1. ScreenTypes'
    BY <1>2 DEF LeaveConnected, IInv, TypeOK, ScreenTypes
  <2>2. ScreenInv'
    BY <1>2 DEF LeaveConnected, IInv, TypeOK, ScreenTypes, ThreadTypes, ScreenInv, GateInv,
       EngineInv, NothingDenied, MenuTellsTruth, ExitAsAsked
  <2> QED  BY <2>1, <2>2, <1>2, Untouched DEF LeaveConnected, IInv
<1>3. CASE JoinWatchdog
  <2>1. ScreenTypes' /\ ThreadTypes'
    <3>1. /\ screen' \in {"lost", "exit", "menu"} /\ frame' = "begin" /\ leave' = "none"
          /\ why' \in {why, "menu"} /\ watchdog' = "off" /\ lost' = FALSE
          /\ UNCHANGED <<gateVars, engine, seen, workVars, shownVars, bye>>
      BY <1>3 DEF JoinWatchdog
    <3>2. ScreenTypes'
      BY <3>1 DEF IInv, TypeOK, ScreenTypes
    <3>3. ThreadTypes'
      BY <3>1 DEF IInv, TypeOK, ThreadTypes
    <3> QED  BY <3>2, <3>3
  <2>2. TypeOK'
    BY <2>1, <1>3 DEF JoinWatchdog, IInv, TypeOK, ScreenInv, EngineInv
  <2>3. ScreenInv'
    BY <1>3 DEF JoinWatchdog, IInv, TypeOK, ScreenTypes, ThreadTypes, ScreenInv, GateInv,
       EngineInv, NothingDenied, MenuTellsTruth, ExitAsAsked
  <2>4. ConnectInv'
    BY <1>3, WorkSame DEF JoinWatchdog
  <2> QED  BY <2>2, <2>3, <2>4 DEF IInv
<1>4. CASE Reconnect
  <2>1. ScreenTypes'
    BY <1>4 DEF Reconnect, IInv, TypeOK, ScreenTypes
  <2>2. ScreenInv'
    BY <1>4 DEF Reconnect, IInv, TypeOK, ScreenTypes, ThreadTypes, ScreenInv, GateInv,
       EngineInv, NothingDenied, MenuTellsTruth, ExitAsAsked
  <2> QED  BY <2>1, <2>2, <1>4, Untouched DEF Reconnect, IInv
<1>5. CASE GiveUpConnection
  <2>1. ScreenTypes'
    BY <1>5 DEF GiveUpConnection, IInv, TypeOK, ScreenTypes
  <2>2. ScreenInv'
    BY <1>5 DEF GiveUpConnection, IInv, TypeOK, ScreenTypes, ThreadTypes, ScreenInv,
       GateInv, EngineInv, NothingDenied, MenuTellsTruth, ExitAsAsked
  <2> QED  BY <2>1, <2>2, <1>5, Untouched DEF GiveUpConnection, IInv
<1>6. ASSUME NEW ok \in BOOLEAN, StopBeforeReconnect(ok)
      PROVE  IInv'
  <2>1. /\ screen = "reconnect" /\ StopManagedConnection(ok)
        /\ operationState_ = "Disconnected" /\ ~IsConnectedByUs
        /\ screen' \in {"connect", "menu"} /\ frame' = "begin" /\ why' \in {why, "menu"}
        /\ UNCHANGED <<seen, leave, workVars, shownVars, watchVars, bye>>
    BY <1>6 DEF StopBeforeReconnect, IInv, ScreenInv, GateInv, EngineInv
  <2>2. /\ denied' = denied /\ operationState_' \in {"Disconnected", "Error"}
        /\ engine' \in {engine, "none"}
    BY <2>1, StopIsHonest DEF IInv, TypeOK
  <2>3. ScreenTypes'
    BY <2>1, <2>2 DEF IInv, TypeOK, ScreenTypes
  <2>4. ScreenInv'
    BY <2>1, <2>2 DEF IInv, TypeOK, ScreenInv, GateInv, EngineInv, NothingDenied,
       MenuTellsTruth, ExitAsAsked
  <2> QED  BY <2>1, <2>3, <2>4, Untouched DEF IInv
<1> QED  BY <1>1, <1>2, <1>3, <1>4, <1>5, <1>6

\* The menu and its questions: what they act on is what the last frame has observed.
LEMMA MenuKeep ==
  ASSUME IInv,
         \/ MenuCleanup
         \/ CleanupEnds
         \/ MenuQuits
         \/ MenuUpdates
         \/ UpdatesEnd
         \/ \E what \in {"disconnect", "filter", "strategy"} : MenuAsks(what)
         \/ Declined
         \/ \E ok \in BOOLEAN : MenuConnect(ok)
         \/ \E ok \in BOOLEAN : Accepted(ok)
         \/ \E status \in {"Applied", "RolledBack", "RollbackFailed", "Rejected"} :
              ApplyPayload(status)
  PROVE  IInv'
<1> USE DEF gateVars, flowVars, workVars, shownVars, watchVars, Show, Framed, Resting, Busy,
            IsConnectedByUs, Observed
<1>1. CASE MenuCleanup
  <2>1. ScreenTypes'
    BY <1>1 DEF MenuCleanup, Choosing, IInv, TypeOK, ScreenTypes
  <2>2. ScreenInv'
    BY <1>1 DEF MenuCleanup, Choosing, IInv, TypeOK, ScreenTypes, ThreadTypes, ScreenInv,
       GateInv, EngineInv, NothingDenied, MenuTellsTruth, ExitAsAsked
  <2> QED  BY <2>1, <2>2, <1>1, Untouched DEF MenuCleanup, Choosing, IInv
<1>2. CASE CleanupEnds
  <2>1. ScreenTypes'
    BY <1>2 DEF CleanupEnds, IInv, TypeOK, ScreenTypes, ScreenInv, GateInv
  <2>2. ScreenInv'
    BY <1>2 DEF CleanupEnds, IInv, TypeOK, ScreenTypes, ThreadTypes, ScreenInv, GateInv,
       EngineInv, NothingDenied, MenuTellsTruth, ExitAsAsked
  <2> QED  BY <2>1, <2>2, <1>2, Untouched DEF CleanupEnds, IInv
<1>3. CASE MenuQuits
  <2>1. ScreenTypes'
    BY <1>3 DEF MenuQuits, Choosing, IInv, TypeOK, ScreenTypes
  <2>2. ScreenInv'
    BY <1>3 DEF MenuQuits, Choosing, IInv, TypeOK, ScreenTypes, ThreadTypes, ScreenInv,
       GateInv, EngineInv, NothingDenied, MenuTellsTruth, ExitAsAsked
  <2> QED  BY <2>1, <2>2, <1>3, Untouched DEF MenuQuits, Choosing, IInv
<1>4. CASE MenuUpdates
  <2>1. ScreenTypes'
    <3>1. /\ operationState_' \in {operationState_, "Updating"}
          /\ screen' \in {"checking", "menu"} /\ frame' = "begin"
          /\ UNCHANGED <<engine, seen, why, leave, bye>>
      BY <1>4 DEF MenuUpdates
    <3>2. denied' = denied
      BY <1>4 DEF MenuUpdates, Choosing, IInv, ScreenInv, MenuTellsTruth
    <3> QED  BY <3>1, <3>2 DEF IInv, TypeOK, ScreenTypes
  <2>2. ScreenInv'
    BY <1>4 DEF MenuUpdates, Choosing, IInv, TypeOK, ScreenTypes, ThreadTypes, ScreenInv,
       GateInv, EngineInv, NothingDenied, MenuTellsTruth, ExitAsAsked
  <2> QED  BY <2>1, <2>2, <1>4, Untouched DEF MenuUpdates, Choosing, IInv
<1>5. CASE UpdatesEnd
  <2>1. ScreenTypes'
    BY <1>5 DEF UpdatesEnd, IInv, TypeOK, ScreenTypes
  <2>2. ScreenInv'
    BY <1>5 DEF UpdatesEnd, IInv, TypeOK, ScreenTypes, ThreadTypes, ScreenInv, GateInv,
       EngineInv, NothingDenied, MenuTellsTruth, ExitAsAsked
  <2> QED  BY <2>1, <2>2, <1>5, Untouched DEF UpdatesEnd, IInv
<1>6. ASSUME NEW what \in {"disconnect", "filter", "strategy"}, MenuAsks(what)
      PROVE  IInv'
  <2>1. ScreenTypes'
    BY <1>6 DEF MenuAsks, Choosing, IInv, TypeOK, ScreenTypes
  <2>2. ScreenInv'
    BY <1>6 DEF MenuAsks, Choosing, IInv, TypeOK, ScreenTypes, ThreadTypes, ScreenInv,
       GateInv, EngineInv, NothingDenied, MenuTellsTruth, ExitAsAsked
  <2> QED  BY <2>1, <2>2, <1>6, Untouched DEF MenuAsks, Choosing, IInv
<1>7. CASE Declined
  <2>1. ScreenTypes'
    BY <1>7 DEF Declined, IInv, TypeOK, ScreenTypes
  <2>2. ScreenInv'
    BY <1>7 DEF Declined, IInv, TypeOK, ScreenTypes, ThreadTypes, ScreenInv, GateInv,
       EngineInv, NothingDenied, MenuTellsTruth, ExitAsAsked
  <2> QED  BY <2>1, <2>2, <1>7, Untouched DEF Declined, IInv
<1>8. ASSUME NEW ok \in BOOLEAN, MenuConnect(ok)
      PROVE  IInv'
  <2>1. /\ screen = "menu" /\ frame = "keys"
        /\ screen' \in {"connect", "menu"} /\ frame' = "begin"
        /\ UNCHANGED <<seen, flowVars, workVars, shownVars, watchVars, bye>>
    BY <1>8 DEF MenuConnect, Choosing
  <2>2. /\ operationState_ \in {"Connected", "Disconnected"}
        /\ operationState_ = "Disconnected" => ~IsConnectedByUs
    BY <2>1 DEF IInv, ScreenInv, MenuTellsTruth
  <2>3. /\ denied' = denied /\ operationState_' \in Resting /\ engine' \in {engine, "none"}
    <3>1. CASE IsConnectedByUs
      <4>1. StopManagedConnection(ok)
        BY <1>8, <3>1 DEF MenuConnect
      <4> QED  BY <2>2, <4>1, StopIsHonest DEF IInv
    <3>2. CASE ~IsConnectedByUs
      BY <1>8, <2>2, <3>2 DEF MenuConnect
    <3> QED  BY <3>1, <3>2
  <2>4. ScreenTypes'
    BY <2>1, <2>3 DEF IInv, TypeOK, ScreenTypes
  <2>5. ScreenInv'
    BY <2>1, <2>3 DEF IInv, TypeOK, ScreenInv, GateInv, EngineInv, NothingDenied,
       MenuTellsTruth, ExitAsAsked
  <2> QED  BY <2>1, <2>4, <2>5, Untouched DEF IInv
<1>9. ASSUME NEW ok \in BOOLEAN, Accepted(ok)
      PROVE  IInv'
  <2>1. /\ screen = "confirm" /\ frame = "keys" /\ StopManagedConnection(ok)
        /\ screen' \in {"connect", "menu"} /\ frame' = "begin" /\ why' \in {why, "menu"}
        /\ UNCHANGED <<seen, leave, workVars, shownVars, watchVars, bye>>
    BY <1>9 DEF Accepted
  <2>2. /\ operationState_ \in {"Connected", "Disconnected"}
        /\ operationState_ = "Disconnected" => ~IsConnectedByUs
    BY <2>1 DEF IInv, ScreenInv, MenuTellsTruth
  <2>3. /\ denied' = denied /\ operationState_' \in {"Disconnected", "Error"}
        /\ engine' \in {engine, "none"}
    BY <2>1, <2>2, StopIsHonest DEF IInv
  <2>4. ScreenTypes'
    BY <2>1, <2>3 DEF IInv, TypeOK, ScreenTypes
  <2>5. ScreenInv'
    BY <2>1, <2>3 DEF IInv, TypeOK, ScreenInv, GateInv, EngineInv, NothingDenied,
       MenuTellsTruth, ExitAsAsked
  <2> QED  BY <2>1, <2>4, <2>5, Untouched DEF IInv
<1>10. ASSUME NEW status \in {"Applied", "RolledBack", "RollbackFailed", "Rejected"},
   ApplyPayload(status)
      PROVE  IInv'
  <2>1. /\ engine' \in {"none", "known", "stray"}
        /\ operationState_' \in {"RollingBack", operationState_}
        /\ screen = "checking" /\ screen' = "updated" /\ frame' = "begin"
        /\ UNCHANGED <<denied, seen, why, leave, workVars, shownVars, watchVars, bye>>
    <3>1. engine' \in {"none", "known", "stray"}
      BY <1>10 DEF ApplyPayload, IInv, TypeOK, ScreenTypes
    <3> QED  BY <1>10, <3>1 DEF ApplyPayload
  <2>2. ScreenTypes'
    BY <2>1 DEF IInv, TypeOK, ScreenTypes
  <2>3. ScreenInv'
    BY <2>1 DEF IInv, TypeOK, ScreenInv, GateInv, EngineInv, NothingDenied, MenuTellsTruth,
       ExitAsAsked
  <2> QED  BY <2>1, <2>2, <2>3, Untouched DEF IInv
<1> QED  BY <1>1, <1>2, <1>3, <1>4, <1>5, <1>6, <1>7, <1>8, <1>9, <1>10

\* The start of a connect flow, the exit and the next launch.
LEMMA ExitKeep ==
  ASSUME IInv,
         \/ AskBeforeConnect
         \/ Exit
         \/ LeaveRunning
         \/ \E ok \in BOOLEAN : StopAtExit(ok)
         \/ Relaunch
  PROVE  IInv'
<1> USE DEF gateVars, flowVars, workVars, shownVars, watchVars, Show, Framed, Resting, Busy,
            IsConnectedByUs, Observed
<1>1. CASE AskBeforeConnect
  <2>1. ScreenTypes'
    BY <1>1 DEF AskBeforeConnect, IInv, TypeOK, ScreenTypes
  <2>2. ScreenInv'
    BY <1>1 DEF AskBeforeConnect, IInv, TypeOK, ScreenTypes, ThreadTypes, ScreenInv,
       GateInv, EngineInv, NothingDenied, MenuTellsTruth, ExitAsAsked
  <2> QED  BY <2>1, <2>2, <1>1, Untouched DEF AskBeforeConnect, IInv
<1>2. CASE Exit
  <2>1. ScreenTypes'
    BY <1>2 DEF Exit, IInv, TypeOK, ScreenTypes
  <2>2. ScreenInv'
    BY <1>2 DEF Exit, IInv, TypeOK, ScreenTypes, ThreadTypes, ScreenInv, GateInv, EngineInv,
       NothingDenied, MenuTellsTruth, ExitAsAsked
  <2> QED  BY <2>1, <2>2, <1>2, Untouched DEF Exit, IInv
<1>3. CASE LeaveRunning
  <2>1. ScreenTypes'
    BY <1>3 DEF LeaveRunning, IInv, TypeOK, ScreenTypes
  <2>2. ScreenInv'
    BY <1>3 DEF LeaveRunning, IInv, TypeOK, ScreenTypes, ThreadTypes, ScreenInv, GateInv,
       EngineInv, NothingDenied, MenuTellsTruth, ExitAsAsked
  <2> QED  BY <2>1, <2>2, <1>3, Untouched DEF LeaveRunning, IInv
<1>4. ASSUME NEW ok \in BOOLEAN, StopAtExit(ok)
      PROVE  IInv'
  <2>1. /\ screen = "confirm" /\ frame = "keys" /\ StopManagedConnection(ok)
        /\ screen' = "exited" /\ frame' = "begin"
        /\ bye' \in {"stopped", "failed"} /\ (~ok => bye' = "failed")
        /\ UNCHANGED <<seen, flowVars, workVars, shownVars, watchVars>>
    BY <1>4 DEF StopAtExit
  <2>2. /\ operationState_ \in {"Connected", "Disconnected"}
        /\ operationState_ = "Disconnected" => ~IsConnectedByUs
    BY <2>1 DEF IInv, ScreenInv, MenuTellsTruth
  <2>3. /\ denied' = denied /\ operationState_' \in {"Disconnected", "Error"}
        /\ engine' \in {engine, "none"} /\ (ok => ~IsConnectedByUs')
    BY <2>1, <2>2, StopIsHonest DEF IInv
  <2>4. ScreenTypes'
    BY <2>1, <2>3 DEF IInv, TypeOK, ScreenTypes
  <2>5. ScreenInv'
    BY <2>1, <2>3 DEF IInv, TypeOK, ScreenInv, GateInv, EngineInv, NothingDenied,
       MenuTellsTruth, ExitAsAsked
  <2> QED  BY <2>1, <2>4, <2>5, Untouched DEF IInv
<1>5. CASE Relaunch
  <2>1. /\ screen = "exited" /\ screen' = "connect" /\ frame' = "begin" /\ why' = "run"
        /\ bye' = "none" /\ engine' \in {engine, "known"}
        /\ operationState_' \in {"Connected", "Disconnected"}
        /\ UNCHANGED <<denied, seen, leave, workVars, shownVars, watchVars>>
    BY <1>5 DEF Relaunch
  <2>2. ScreenTypes'
    BY <2>1 DEF IInv, TypeOK, ScreenTypes
  <2>3. ScreenInv'
    BY <2>1 DEF IInv, TypeOK, ScreenInv, GateInv, EngineInv, NothingDenied, MenuTellsTruth,
       ExitAsAsked
  <2> QED  BY <2>1, <2>2, <2>3, Untouched DEF IInv
<1> QED  BY <1>1, <1>2, <1>3, <1>4, <1>5

\* The watchdog and the engine on their own.
LEMMA WatchKeep ==
  ASSUME IInv,
         \/ WatchdogAsks
         \/ WatchdogReports
         \/ EngineExits
  PROVE  IInv'
<1> USE DEF gateVars, flowVars, workVars, shownVars, watchVars, Show, Framed, Resting, Busy,
            IsConnectedByUs, Observed
<1>1. CASE WatchdogAsks
  <2>1. ScreenTypes' /\ ThreadTypes'
    BY <1>1 DEF WatchdogAsks, IInv, TypeOK, ScreenTypes, ThreadTypes
  <2>2. TypeOK'
    BY <2>1, <1>1 DEF WatchdogAsks, IInv, TypeOK, ScreenInv, EngineInv
  <2>3. ScreenInv'
    BY <1>1 DEF WatchdogAsks, IInv, TypeOK, ScreenTypes, ThreadTypes, ScreenInv, GateInv,
       EngineInv, NothingDenied, MenuTellsTruth, ExitAsAsked
  <2>4. ConnectInv'
    BY <1>1, WorkSame DEF WatchdogAsks
  <2> QED  BY <2>2, <2>3, <2>4 DEF IInv
<1>2. CASE WatchdogReports
  <2>1. ScreenTypes' /\ ThreadTypes'
    BY <1>2 DEF WatchdogReports, IInv, TypeOK, ScreenTypes, ThreadTypes
  <2>2. TypeOK'
    BY <2>1, <1>2 DEF WatchdogReports, IInv, TypeOK, ScreenInv, EngineInv
  <2>3. ScreenInv'
    BY <1>2 DEF WatchdogReports, IInv, TypeOK, ScreenTypes, ThreadTypes, ScreenInv, GateInv,
       EngineInv, NothingDenied, MenuTellsTruth, ExitAsAsked
  <2>4. ConnectInv'
    BY <1>2, WorkSame DEF WatchdogReports
  <2> QED  BY <2>2, <2>3, <2>4 DEF IInv
<1>3. CASE EngineExits
  <2>1. ScreenTypes'
    BY <1>3 DEF EngineExits, IInv, TypeOK, ScreenTypes
  <2>2. ScreenInv'
    BY <1>3 DEF EngineExits, IInv, TypeOK, ScreenTypes, ThreadTypes, ScreenInv, GateInv,
       EngineInv, NothingDenied, MenuTellsTruth, ExitAsAsked
  <2> QED  BY <2>1, <2>2, <1>3, Untouched DEF EngineExits, IInv
<1> QED  BY <1>1, <1>2, <1>3

-----------------------------------------------------------------------------
(* Steps of ScreenConnect and its worker.                                  *)

\* The checkpoints of Launcher::Connect.
LEMMA Numbers == Checkpoints = 1 .. 20
  BY DEF Checkpoints, Percent

\* A set of numbers has a greatest one below a bound.
LEMMA MaxIs ==
  ASSUME NEW S \in SUBSET (0 .. 100), S # {}
  PROVE  Max(S) \in S /\ \A n \in S : n <= Max(S)
<1> DEFINE T == {n \in Nat : n <= 100 /\ 100 - n \in S}
<1>1. T \subseteq Nat /\ T # {}
  <2>1. PICK n \in S : TRUE
    OBVIOUS
  <2>2. 100 - (100 - n) = n /\ 100 - n \in Nat
    OBVIOUS
  <2>3. 100 - n \in T
    BY <2>2
  <2> QED  BY <2>3
<1> HIDE DEF T
<1>2. \E least \in T : \A n \in T : ~(<<n, least>> \in OpToRel(<, Nat))
  BY <1>1, NatLessThanWellFounded, WFMin, Zenon
<1>3. PICK least \in T : \A n \in T : ~(<<n, least>> \in OpToRel(<, Nat))
  BY <1>2, Zenon
<1>4. ASSUME NEW n \in T PROVE ~(n < least)
  <2>1. n \in Nat /\ least \in Nat
    BY <1>1
  <2>2. ~(<<n, least>> \in OpToRel(<, Nat))
    BY <1>3, Zenon
  <2> QED  BY <2>1, <2>2, Zenon DEF OpToRel
<1>5. ASSUME NEW n \in S PROVE n <= 100 - least
  <2>1. 100 - n \in T
    BY DEF T
  <2>2. ~(100 - n < least)
    BY <1>4, <2>1
  <2> QED  BY <2>2, <1>1
<1>6. 100 - least \in S
  BY DEF T
<1> QED  BY <1>5, <1>6 DEF Max

\* What draining the queue does to the bar: it grows to the highest percentage
\* reported, and reaches 100 with the last checkpoint and no other.
LEMMA DrainShows ==
  ASSUME TypeOK, Drain
  PROVE  /\ bar' \in 0 .. 100
         /\ bar' = 100 <=> bar = 100 \/ Reported(20)
         /\ failed' = (failed \/ ReportedFailure) /\ events' = <<>>
<1> DEFINE R == {j \in Checkpoints : \E k \in DOMAIN events : events[k] = j}
           S == {bar} \cup {Percent[i] : i \in R}
<1>1. \A i \in 1 .. 20 : Percent[i] \in 0 .. 100 /\ (Percent[i] = 100 <=> i = 20)
  BY DEF Percent
<1>2. R \subseteq 1 .. 20 /\ (20 \in R <=> Reported(20))
  BY Numbers DEF Reported
<1>3. bar \in 0 .. 100
  BY DEF TypeOK, ThreadTypes
<1>4. bar' = Max(S) /\ failed' = (failed \/ ReportedFailure) /\ events' = <<>>
  BY DEF Drain, ReportedFailure
<1> HIDE DEF R
<1>5. S \subseteq 0 .. 100 /\ S # {} /\ (100 \in S <=> bar = 100 \/ Reported(20))
  BY <1>1, <1>2, <1>3
<1> HIDE DEF S
<1>6. Max(S) \in S /\ \A n \in S : n <= Max(S)
  BY <1>5, MaxIs
<1>7. Max(S) \in 0 .. 100 /\ (Max(S) = 100 <=> bar = 100 \/ Reported(20))
  <2>1. \A m \in 0 .. 100 : 100 <= m => m = 100
    OBVIOUS
  <2>2. Max(S) \in 0 .. 100 /\ (100 \in S => 100 <= Max(S))
    BY <1>5, <1>6, Zenon
  <2>3. Max(S) = 100 <=> 100 \in S
    BY <1>6, <2>1, <2>2, Zenon
  <2> QED  BY <2>2, <2>3, <1>5, Zenon
<1>8. bar' \in 0 .. 100 /\ (bar' = 100 <=> bar = 100 \/ Reported(20))
  BY <1>4, <1>7, Zenon
<1> QED  BY <1>4, <1>8, Zenon

\* A frame begins: ScreenConnect drains its queue, and the gate is looked at.
LEMMA BeginFrameKeeps ==
  ASSUME IInv, BeginFrame
  PROVE  IInv'
<1> USE DEF gateVars, flowVars, workVars, shownVars, watchVars
<1>1. /\ screen \in Framed /\ frame = "begin" /\ frame' \in {"probe", "keys"}
      /\ operationState_ \in Resting => frame' = "probe"
      /\ UNCHANGED <<operationState_, denied, engine, screen, seen, why, leave, worker, cp,
                     done, result, confirmed, watchdog, lost, bye>>
  BY DEF BeginFrame
<1>2. ScreenTypes'
  BY <1>1 DEF IInv, TypeOK, ScreenTypes
<1>3. ScreenInv'
  <2>1. GateInv' /\ NothingDenied' /\ ExitAsAsked'
    BY <1>1 DEF IInv, ScreenInv, GateInv, NothingDenied, ExitAsAsked,
       IsConnectedByUs, Framed
  <2>2. EngineInv'
    BY <1>1 DEF IInv, ScreenInv, EngineInv, IsConnectedByUs
  <2>3. MenuTellsTruth'
    BY <1>1 DEF IInv, ScreenInv, GateInv, MenuTellsTruth
  <2> QED  BY <2>1, <2>2, <2>3 DEF ScreenInv
<1>4. CASE screen = "connecting"
  <2>1. Drain
    BY <1>4 DEF BeginFrame
  <2>2. /\ bar' \in 0 .. 100 /\ (bar' = 100 <=> bar = 100 \/ Reported(20))
        /\ failed' = (failed \/ ReportedFailure) /\ events' = <<>>
    BY <2>1, DrainShows DEF IInv
  <2>3. failed' \in BOOLEAN
    BY <2>2
  <2>4. ThreadTypes'
    BY <1>1, <2>2, <2>3 DEF IInv, TypeOK, ThreadTypes
  <2>5. ~Reported(20)' /\ ~ReportedFailure'
    BY <2>2 DEF Reported, ReportedFailure
  <2>6. WorkInv'
    BY <1>1, <1>4, <2>2, <2>5 DEF IInv, ConnectInv, WorkInv
  <2>7. EventInv'
    BY <1>1, <2>2, <2>5 DEF IInv, ConnectInv, EventInv
  <2> QED  BY <1>1, <1>2, <1>3, <2>4, <2>6, <2>7 DEF IInv, TypeOK, ConnectInv
<1>5. CASE screen # "connecting"
  <2>1. UNCHANGED <<events, shownVars>>
    BY <1>5 DEF BeginFrame
  <2> QED  BY <1>1, <1>2, <1>3, <2>1, Untouched DEF IInv
<1> QED  BY <1>4, <1>5

\* The locals of ScreenConnect as it declares them.
LEMMA FreshLocals ==
  ASSUME worker' \in {"off", "check"}, cp' = 1, events' = <<>>, done' = FALSE,
         result' = "error", confirmed' = FALSE, bar' = 0, failed' = FALSE,
         watchdog' \in {"off", "asleep", "alive", "dead", "ended"}, lost' \in BOOLEAN
  PROVE  ThreadTypes'
<1>1. events' \in Seq(-20 .. 20) /\ cp' \in Checkpoints /\ bar' \in 0 .. 100
  BY Numbers
<1>2. done' \in BOOLEAN /\ failed' \in BOOLEAN /\ confirmed' \in BOOLEAN
  BY Zenon
<1> QED  BY <1>1, <1>2, Zenon DEF ThreadTypes

\* The worker starts from the first checkpoint, and a screen that leaves the flow finds
\* its locals gone.
LEMMA FlowKeeps ==
  ASSUME IInv, EnterConnect \/ LeaveConnecting \/ CloseOutcome
  PROVE  IInv'
<1> USE DEF gateVars, flowVars, workVars, shownVars, watchVars, Show
<1>1. CASE EnterConnect
  <2>1. operationState_ \in Resting /\ screen = "connect"
    BY <1>1 DEF EnterConnect, IInv, ScreenInv, GateInv
  <2>2. seen \/ Observed(seen) = "Disconnected"
    BY DEF Observed
  <2>3. /\ operationState_' \in {"Connected", "Connecting"}
        /\ worker' = "check" /\ cp' = 1 /\ events' = <<>> /\ done' = FALSE
        /\ result' = "error" /\ confirmed' = FALSE /\ bar' = 0 /\ failed' = FALSE
        /\ screen' = "connecting" /\ frame' = "begin" /\ seen' = FALSE
        /\ UNCHANGED <<denied, flowVars, engine, watchVars, bye>>
    BY <1>1, <2>1, <2>2 DEF EnterConnect
  <2>4. ScreenTypes'
    BY <2>3 DEF IInv, TypeOK, ScreenTypes, Resting, Busy, Framed
  <2>5. ThreadTypes'
    BY <2>3, FreshLocals DEF IInv, TypeOK, ThreadTypes
  <2>6. TypeOK'
    BY <2>1, <2>3, <2>4, <2>5 DEF IInv, TypeOK
  <2>7. ScreenInv'
    BY <2>1, <2>3 DEF IInv, TypeOK, ScreenInv, GateInv, EngineInv, NothingDenied, MenuTellsTruth,
       ExitAsAsked, Resting
  <2>8. ConnectInv'
    BY <2>3 DEF ConnectInv, WorkInv, EventInv, Working, Reported, ReportedFailure
  <2> QED  BY <2>6, <2>7, <2>8 DEF IInv
<1>2. CASE LeaveConnecting
  <2>1. /\ screen = "connecting" /\ frame = "keys" /\ frame' = "begin"
        /\ \/ done /\ events = <<>> /\ screen' = "outcome" /\ worker' = "off"
           \/ screen' = "connecting" /\ worker' = worker
        /\ UNCHANGED <<operationState_, denied, engine, seen, flowVars, cp, events, done,
                       result, confirmed, shownVars, watchVars, bye>>
    BY <1>2 DEF LeaveConnecting
  <2>2. ScreenTypes'
    BY <2>1 DEF IInv, TypeOK, ScreenTypes, Framed
  <2>3. ThreadTypes'
    BY <2>1 DEF IInv, TypeOK, ThreadTypes
  <2>4. TypeOK'
    BY <2>1, <2>2, <2>3 DEF IInv, TypeOK
  <2>5. ScreenInv'
    BY <2>1 DEF IInv, TypeOK, ScreenInv, ConnectInv, WorkInv, GateInv, EngineInv,
       NothingDenied, MenuTellsTruth, ExitAsAsked
  <2>6. ConnectInv'
    BY <2>1 DEF IInv, ConnectInv, WorkInv, EventInv, Working, Reported, ReportedFailure
  <2> QED  BY <2>4, <2>5, <2>6 DEF IInv
<1>3. CASE CloseOutcome
  <2>1. /\ screen = "outcome" /\ frame' = "begin"
        /\ \/ /\ screen' = "connected" /\ watchdog' = "asleep" /\ lost' = FALSE
              /\ UNCHANGED <<operationState_, why>>
           \/ /\ screen' = "menu" /\ why' = "menu" /\ operationState_' = "Disconnected"
              /\ UNCHANGED watchVars
        /\ worker' = "off" /\ cp' = 1 /\ events' = <<>> /\ done' = FALSE
        /\ result' = "error" /\ confirmed' = FALSE /\ bar' = 0 /\ failed' = FALSE
        /\ UNCHANGED <<denied, engine, seen, leave, bye>>
    BY <1>3 DEF CloseOutcome, ScopeEnds
  <2>2. ScreenTypes'
    BY <2>1 DEF IInv, TypeOK, ScreenTypes, Framed, Resting
  <2>3. ThreadTypes'
    BY <2>1, FreshLocals DEF IInv, TypeOK, ThreadTypes
  <2>4. TypeOK'
    BY <2>1, <2>2, <2>3 DEF IInv, TypeOK
  <2>5. ScreenInv'
    BY <2>1 DEF IInv, TypeOK, ScreenInv, GateInv, EngineInv, NothingDenied, MenuTellsTruth,
       ExitAsAsked, Resting
  <2>6. ConnectInv'
    BY <2>1 DEF ConnectInv, WorkInv, EventInv, Working, Reported, ReportedFailure
  <2> QED  BY <2>4, <2>5, <2>6 DEF IInv
<1> QED  BY <1>1, <1>2, <1>3

\* A step of the worker leaves the screens alone; it is the one that occupies them.
LEMMA WorkerAlone ==
  ASSUME IInv, worker # "off", WorkerOnly, engine' \in {"none", "known", "stray"},
         \/ operationState_' \in Resting
         \/ operationState_' = operationState_ /\ worker' \notin {"finish", "done"}
  PROVE  ScreenTypes' /\ ScreenInv' /\ screen = "connecting" /\ watchdog = "off"
<1>1. screen = "connecting" /\ watchdog = "off" /\ frame # "join" /\ leave = "none" /\ ~lost
  BY DEF IInv, TypeOK, ScreenInv, EngineInv
<1>2. UNCHANGED <<denied, screen, frame, seen, why, leave, watchdog, lost, bye>>
  BY DEF WorkerOnly, flowVars, watchVars
<1>3. ScreenTypes'
  <2>1. operationState_' \in Resting \cup Busy /\ engine' \in {"none", "known", "stray"}
    BY DEF IInv, TypeOK, ScreenTypes
  <2> QED  BY <1>2, <2>1 DEF IInv, TypeOK, ScreenTypes
<1>4. GateInv'
  BY <1>1, <1>2 DEF IInv, ScreenInv, GateInv
<1>5. EngineInv' /\ NothingDenied' /\ MenuTellsTruth' /\ ExitAsAsked'
  BY <1>1, <1>2 DEF IInv, ScreenInv, EngineInv, NothingDenied, MenuTellsTruth, ExitAsAsked
<1> QED  BY <1>1, <1>3, <1>4, <1>5 DEF ScreenInv

\* What the queue reports after the worker has pushed the events t.
LEMMA Pushed ==
  ASSUME TypeOK, NEW t \in Seq(-20 .. 20), events' = events \o t
  PROVE  /\ events' \in Seq(-20 .. 20)
         /\ \A i : Reported(i)' <=> Reported(i) \/ \E k \in DOMAIN t : t[k] = i
         /\ ReportedFailure' <=> ReportedFailure \/ \E k \in DOMAIN t : t[k] < 0
<1>1. events \in Seq(-20 .. 20)
  BY DEF TypeOK, ThreadTypes
<1> DEFINE s == events \o t
<1>2. /\ s \in Seq(-20 .. 20) /\ DOMAIN s = 1 .. Len(events) + Len(t)
      /\ \A k \in DOMAIN events : k \in DOMAIN s /\ s[k] = events[k]
      /\ \A k \in DOMAIN t : Len(events) + k \in DOMAIN s /\ s[Len(events) + k] = t[k]
      /\ \A k \in DOMAIN s : \/ k \in DOMAIN events
                             \/ k - Len(events) \in DOMAIN t /\ s[k] = t[k - Len(events)]
  BY <1>1
<1> HIDE DEF s
<1>3. events' = s
  BY DEF s
<1>4. ASSUME NEW i PROVE Reported(i)' <=> Reported(i) \/ \E k \in DOMAIN t : t[k] = i
  <2>1. Reported(i)' <=> \E k \in DOMAIN s : s[k] = i
    BY <1>3 DEF Reported
  <2>2. Reported(i) <=> \E k \in DOMAIN events : events[k] = i
    BY DEF Reported
  <2> QED  BY <1>2, <2>1, <2>2, Zenon
<1>5. ReportedFailure' <=> ReportedFailure \/ \E k \in DOMAIN t : t[k] < 0
  <2>1. ReportedFailure' <=> \E k \in DOMAIN s : s[k] < 0
    BY <1>3 DEF ReportedFailure
  <2>2. ReportedFailure <=> \E k \in DOMAIN events : events[k] < 0
    BY DEF ReportedFailure
  <2> QED  BY <1>2, <2>1, <2>2, Zenon
<1> QED  BY <1>2, <1>3, <1>4, <1>5

\* The same for one event.
LEMMA PushedOne ==
  ASSUME TypeOK, NEW e \in -20 .. 20, events' = Append(events, e)
  PROVE  /\ events' \in Seq(-20 .. 20)
         /\ e # 20 => (Reported(20)' <=> Reported(20))
         /\ ReportedFailure' <=> ReportedFailure \/ e < 0
<1>1. <<e>> \in Seq(-20 .. 20) /\ DOMAIN <<e>> = {1} /\ <<e>>[1] = e
  OBVIOUS
<1>2. events' = events \o <<e>>
  BY DEF TypeOK, ThreadTypes
<1> DEFINE t == <<e>>
<1> HIDE DEF t
<1>3. /\ events' \in Seq(-20 .. 20)
      /\ \A i : Reported(i)' <=> Reported(i) \/ \E k \in DOMAIN t : t[k] = i
      /\ ReportedFailure' <=> ReportedFailure \/ \E k \in DOMAIN t : t[k] < 0
  BY <1>1, <1>2, Pushed DEF t
<1>4. DOMAIN t = {1} /\ t[1] = e
  BY <1>1 DEF t
<1> QED  BY <1>3, <1>4

\* The attempt ends without a new success: what has been reported so far agrees with any
\* result but "connected", and a failed stage only with an error.
LEMMA AttemptEnds ==
  ASSUME IInv, worker \in Working, WorkerOnly, NEW e \in -20 .. 20,
         events' = Append(events, e), e # 20, worker' = "complete", cp' = cp,
         result' \in {"error", "adopted", "refused"}, e < 0 => result' = "error",
         UNCHANGED <<confirmed, done, operationState_>>,
         engine' \in {"none", "known", "stray"}
  PROVE  IInv'
<1>1. ScreenTypes' /\ ScreenInv' /\ screen = "connecting" /\ watchdog = "off"
  BY WorkerAlone DEF Working
<1>2. UNCHANGED <<screen, shownVars, watchVars, bar, failed, watchdog, lost>>
  BY DEF WorkerOnly, shownVars, watchVars
<1>3. /\ events' \in Seq(-20 .. 20) /\ (Reported(20)' <=> Reported(20))
      /\ ReportedFailure' <=> ReportedFailure \/ e < 0
  BY PushedOne DEF IInv
<1>4. ThreadTypes'
  BY <1>2, <1>3 DEF IInv, TypeOK, ThreadTypes
<1>5. TypeOK'
  BY <1>1, <1>2, <1>4 DEF IInv, TypeOK
<1>6. WorkInv'
  BY <1>1, <1>2 DEF IInv, ConnectInv, WorkInv, Working
<1>7. EventInv'
  BY <1>2, <1>3 DEF IInv, ConnectInv, WorkInv, EventInv
<1> QED  BY <1>1, <1>5, <1>6, <1>7 DEF IInv, ConnectInv

\* The worker goes on, with one more checkpoint reported or none.
LEMMA WorkerGoesOn ==
  ASSUME IInv, worker \in Working, WorkerOnly,
         \/ UNCHANGED events
         \/ \E e \in 0 .. 19 : events' = Append(events, e),
         worker' \in Working, cp' \in Checkpoints,
         worker' \in {"conflict", "stop"} => cp' = 5, worker' = "start" => cp' = 15,
         worker' = "check" /\ cp' > 15 => confirmed', confirmed' \in {TRUE, confirmed},
         UNCHANGED <<result, done, operationState_>>,
         engine' \in {"none", "known", "stray"}
  PROVE  IInv'
<1>1. ScreenTypes' /\ ScreenInv' /\ screen = "connecting" /\ watchdog = "off"
  BY WorkerAlone DEF Working
<1>2. UNCHANGED <<screen, shownVars, watchVars, bar, failed, watchdog, lost>>
  BY DEF WorkerOnly, shownVars, watchVars
<1>3. /\ events' \in Seq(-20 .. 20) /\ (Reported(20)' <=> Reported(20))
      /\ ReportedFailure' <=> ReportedFailure
  <2>1. CASE UNCHANGED events
    BY <2>1 DEF IInv, TypeOK, ThreadTypes, Reported, ReportedFailure
  <2>2. ASSUME NEW e \in 0 .. 19, events' = Append(events, e)
        PROVE  /\ events' \in Seq(-20 .. 20) /\ (Reported(20)' <=> Reported(20))
               /\ ReportedFailure' <=> ReportedFailure
    <3>1. e \in -20 .. 20 /\ e # 20 /\ ~(e < 0)
      OBVIOUS
    <3> QED  BY <2>2, <3>1, PushedOne DEF IInv
  <2> QED  BY <2>1, <2>2
<1>4. ThreadTypes'
  <2>1. confirmed' \in BOOLEAN /\ failed' \in BOOLEAN /\ done' \in BOOLEAN /\ lost' \in BOOLEAN
    BY <1>2, Zenon DEF IInv, TypeOK, ThreadTypes
  <2> QED  BY <1>2, <1>3, <2>1 DEF IInv, TypeOK, ThreadTypes, Working
<1>5. TypeOK'
  BY <1>1, <1>2, <1>4 DEF IInv, TypeOK
<1>6. WorkInv'
  BY <1>1, <1>2, <1>3 DEF IInv, ConnectInv, WorkInv
<1>7. EventInv'
  BY <1>2, <1>3 DEF IInv, ConnectInv, WorkInv, EventInv
<1> QED  BY <1>1, <1>5, <1>6, <1>7 DEF IInv, ConnectInv

\* Every step of Launcher::Connect, of Start and of the thread around them.
LEMMA WorkerKeeps ==
  ASSUME IInv, WorkerStep
  PROVE  IInv'
<1>0. /\ Working = {"check", "conflict", "stop", "start"} /\ Checkpoints = 1 .. 20
      /\ cp \in 1 .. 20 /\ engine \in {"none", "known", "stray"}
      /\ worker \in {"conflict", "stop"} => cp = 5
      /\ worker = "start" => cp = 15
      /\ worker = "check" /\ cp > 15 => confirmed
      /\ worker \in Working => result = "error"
  BY Numbers DEF Working, IInv, TypeOK, ScreenTypes, ThreadTypes, ConnectInv, WorkInv
<1>1. CASE Check
  <2>0. worker = "check" /\ UNCHANGED <<operationState_, engine, done>> /\ WorkerOnly
    BY <1>1 DEF Check
  <2>1. CASE cp # 15 /\ Pass /\ UNCHANGED confirmed /\ cp # 20
    <3>1. /\ cp' = cp + 1 /\ events' = Append(events, cp) /\ result' = result
          /\ worker' = IF cp = 4 THEN "conflict" ELSE "check"
      <4>1. events' = events \o <<cp>> /\ cp' = cp + 1 /\ result' = result
        BY <2>1 DEF Pass
      <4>2. worker' = IF cp = 4 THEN "conflict" ELSE "check"
        BY <2>1 DEF Pass
      <4> QED  BY <4>1, <4>2, <1>0 DEF IInv, TypeOK, ThreadTypes
    <3>2. cp \in 0 .. 19 /\ cp + 1 \in 1 .. 20
      BY <1>0, <2>1
    <3>3. cp + 1 > 15 => cp > 15
      BY <1>0, <2>1
    <3>4. \E e \in 0 .. 19 : events' = Append(events, e)
      BY <3>1, <3>2
    <3>5. worker' = "conflict" => cp' = 5
      BY <3>1
    <3> QED  BY <1>0, <2>0, <2>1, <3>1, <3>2, <3>3, <3>4, <3>5, WorkerGoesOn
  <2>2. CASE Pass /\ UNCHANGED confirmed /\ cp = 20
    <3>1. /\ cp' = 20 /\ events' = events \o <<20, 0>> /\ result' = "connected"
          /\ worker' = "complete" /\ confirmed /\ confirmed'
      BY <1>0, <2>0, <2>2 DEF Pass
    <3>2. ScreenTypes' /\ ScreenInv' /\ screen = "connecting" /\ watchdog = "off"
      BY <1>0, <2>0, <3>1, WorkerAlone
    <3>3. UNCHANGED <<screen, shownVars, watchVars, bar, failed, watchdog, lost>>
      BY <2>0 DEF WorkerOnly, shownVars, watchVars
    <3>4. events' \in Seq(-20 .. 20) /\ Reported(20)' /\ (ReportedFailure' <=> ReportedFailure)
      <4> DEFINE t == <<20, 0>>
      <4>1. t \in Seq(-20 .. 20) /\ DOMAIN t = {1, 2} /\ t[1] = 20 /\ t[2] = 0
        OBVIOUS
      <4>2. events' = events \o t
        BY <3>1
      <4> HIDE DEF t
      <4>3. /\ events' \in Seq(-20 .. 20)
            /\ \A i : Reported(i)' <=> Reported(i) \/ \E k \in DOMAIN t : t[k] = i
            /\ ReportedFailure' <=> ReportedFailure \/ \E k \in DOMAIN t : t[k] < 0
        BY <4>1, <4>2, Pushed DEF IInv
      <4> QED  BY <4>1, <4>3
    <3>5. ThreadTypes'
      <4>1. confirmed' \in BOOLEAN /\ failed' \in BOOLEAN /\ done' \in BOOLEAN /\ lost' \in BOOLEAN
        BY <2>0, <2>2, <3>3, Zenon DEF IInv, TypeOK, ThreadTypes
      <4> QED  BY <1>0, <3>1, <3>3, <3>4, <4>1 DEF IInv, TypeOK, ThreadTypes
    <3>6. TypeOK'
      BY <3>2, <3>3, <3>5 DEF IInv, TypeOK
    <3>7. ~failed /\ ~ReportedFailure
      BY <1>0, <2>0 DEF IInv, ConnectInv, WorkInv
    <3>8. WorkInv'
      BY <2>0, <3>1, <3>2, <3>3, <3>7 DEF IInv, ConnectInv, WorkInv, Working
    <3>9. EventInv'
      BY <3>1, <3>3, <3>4, <3>7 DEF EventInv
    <3> QED  BY <3>2, <3>6, <3>8, <3>9 DEF IInv, ConnectInv
  <2>3. CASE cp \notin Reporting \cup {15, 17} /\ Fail
    <3>1. -cp \in -20 .. 20 /\ -cp # 20 /\ events' = Append(events, -cp)
      BY <1>0, <2>3 DEF Fail
    <3> QED  BY <1>0, <2>0, <2>3, <3>1, AttemptEnds DEF Fail
  <2>4. CASE cp = 15 /\ worker' = "start" /\ UNCHANGED <<cp, events, result, confirmed>>
    BY <1>0, <2>0, <2>4, WorkerGoesOn
  <2> QED  BY <1>1, <2>1, <2>2, <2>3, <2>4 DEF Check
<1>2. CASE Conflict
  <2>0. worker = "conflict" /\ UNCHANGED <<operationState_, engine, done>> /\ WorkerOnly
    BY <1>2 DEF Conflict
  <2>1. ASSUME NEW r \in {"adopted", "refused"}, Answer(r) PROVE IInv'
    <3>1. 0 \in -20 .. 20 /\ events' = Append(events, 0)
      BY <2>1 DEF Answer
    <3> QED  BY <1>0, <2>0, <2>1, <3>1, AttemptEnds DEF Answer
  <2>2. CASE worker' \in {"stop", "check"} /\ UNCHANGED <<cp, events, result, confirmed>>
    BY <1>0, <2>0, <2>2, WorkerGoesOn
  <2> QED  BY <1>2, <2>1, <2>2 DEF Conflict
<1>3. CASE StopUntrusted
  <2>1. -4 \in -20 .. 20
    OBVIOUS
  <2> QED  BY <1>0, <1>3, <2>1, AttemptEnds DEF StopUntrusted
<1>4. CASE Start
  <2>0. worker = "start" /\ UNCHANGED <<operationState_, done>> /\ WorkerOnly
    BY <1>4 DEF Start
  <2>1. CASE /\ engine' = "known" /\ confirmed' = TRUE /\ events' = Append(events, 15)
             /\ cp' = 16 /\ worker' = "check" /\ UNCHANGED result
    BY <1>0, <2>0, <2>1, WorkerGoesOn
  <2>2. CASE Fail /\ UNCHANGED engine
    <3>1. -cp \in -20 .. 20 /\ -cp # 20 /\ events' = Append(events, -cp)
      BY <1>0, <2>2 DEF Fail
    <3> QED  BY <1>0, <2>0, <2>2, <3>1, AttemptEnds DEF Fail
  <2>3. CASE /\ events' = events \o <<15, 16, -17>> /\ cp' = 17 /\ worker' = "complete"
             /\ result' = "error" /\ UNCHANGED <<engine, confirmed>>
    <3>2. ScreenTypes' /\ ScreenInv' /\ screen = "connecting" /\ watchdog = "off"
      BY <1>0, <2>0, <2>3, WorkerAlone
    <3>3. UNCHANGED <<screen, shownVars, watchVars, bar, failed, watchdog, lost>>
      BY <2>0 DEF WorkerOnly, shownVars, watchVars
    <3>4. events' \in Seq(-20 .. 20) /\ (Reported(20)' <=> Reported(20)) /\ ReportedFailure'
      <4> DEFINE t == <<15, 16, -17>>
      <4>1. t \in Seq(-20 .. 20) /\ DOMAIN t = {1, 2, 3} /\ t[1] = 15 /\ t[2] = 16 /\ t[3] = -17
        OBVIOUS
      <4>2. events' = events \o t
        BY <2>3
      <4> HIDE DEF t
      <4>3. /\ events' \in Seq(-20 .. 20)
            /\ \A i : Reported(i)' <=> Reported(i) \/ \E k \in DOMAIN t : t[k] = i
            /\ ReportedFailure' <=> ReportedFailure \/ \E k \in DOMAIN t : t[k] < 0
        BY <4>1, <4>2, Pushed DEF IInv
      <4> QED  BY <4>1, <4>3
    <3>5. ThreadTypes'
      BY <1>0, <2>0, <2>3, <3>3, <3>4 DEF IInv, TypeOK, ThreadTypes
    <3>6. TypeOK'
      BY <3>2, <3>3, <3>5 DEF IInv, TypeOK
    <3>7. WorkInv'
      BY <2>0, <2>3, <3>2, <3>3 DEF IInv, ConnectInv, WorkInv, Working
    <3>8. EventInv'
      BY <1>0, <2>0, <2>3, <3>3, <3>4 DEF IInv, ConnectInv, EventInv
    <3> QED  BY <3>2, <3>6, <3>7, <3>8 DEF IInv, ConnectInv
  <2> QED  BY <1>4, <2>1, <2>2, <2>3 DEF Start
<1>5. CASE WorkerThrows
  <2>1. 0 \in -20 .. 20
    OBVIOUS
  <2> QED  BY <1>0, <1>5, <2>1, AttemptEnds DEF WorkerThrows
<1>6. CASE WorkerCompletes \/ WorkerDone
  <2>1. /\ worker \in {"complete", "finish"} /\ WorkerOnly
        /\ UNCHANGED <<engine, cp, events, result, confirmed>>
        /\ \/ worker' = "finish" /\ operationState_' \in Resting /\ done' = done
           \/ worker' = "done" /\ operationState_' = operationState_ /\ done' = TRUE
    BY <1>6 DEF WorkerCompletes, WorkerDone, Resting
  <2>2. operationState_' \in Resting
    BY <1>6, <2>1 DEF WorkerDone, WorkerCompletes, IInv, TypeOK, ScreenInv, GateInv
  <2>3. ScreenTypes' /\ ScreenInv' /\ screen = "connecting" /\ watchdog = "off"
    BY <1>0, <2>1, <2>2, WorkerAlone
  <2>4. UNCHANGED <<screen, shownVars, watchVars, bar, failed, watchdog, lost>>
    BY <2>1 DEF WorkerOnly, shownVars, watchVars
  <2>5. done' \in BOOLEAN
    BY <2>1, Zenon DEF IInv, TypeOK, ThreadTypes
  <2>6. ThreadTypes'
    BY <2>1, <2>4, <2>5 DEF IInv, TypeOK, ThreadTypes
  <2>7. TypeOK'
    BY <2>3, <2>4, <2>6 DEF IInv, TypeOK
  <2>8. WorkInv'
    BY <1>6, <2>1, <2>3, <2>4 DEF IInv, ConnectInv, WorkInv, Working, WorkerCompletes
  <2>9. EventInv'
    BY <2>1, <2>4 DEF IInv, ConnectInv, EventInv, Reported, ReportedFailure
  <2> QED  BY <2>3, <2>7, <2>8, <2>9 DEF IInv, ConnectInv
<1> QED  BY <1>1, <1>2, <1>3, <1>4, <1>5, <1>6 DEF WorkerStep

-----------------------------------------------------------------------------
(* The invariant, and the theorems it gives.                               *)

\* Every step of the UI thread.
LEMMA UIKeeps ==
  ASSUME IInv, UIStep
  PROVE  IInv'
<1>1. CASE BeginFrame
  BY <1>1, BeginFrameKeeps
<1>2. CASE Probe \/ Observe \/ Idle
  BY <1>2, FramesKeep
<1>3. CASE EnterConnect \/ LeaveConnecting \/ CloseOutcome
  BY <1>3, FlowKeeps
<1>4. CASE \/ DrainLoss \/ (\E how \in {"menu", "quit"} : LeaveConnected(how)) \/ JoinWatchdog
           \/ Reconnect \/ GiveUpConnection \/ \E ok \in BOOLEAN : StopBeforeReconnect(ok)
  BY <1>4, ConnectedKeep
<1>5. CASE \/ MenuCleanup \/ CleanupEnds \/ MenuQuits \/ MenuUpdates \/ UpdatesEnd
           \/ (\E what \in {"disconnect", "filter", "strategy"} : MenuAsks(what)) \/ Declined
           \/ (\E ok \in BOOLEAN : MenuConnect(ok)) \/ (\E ok \in BOOLEAN : Accepted(ok))
           \/ \E status \in {"Applied", "RolledBack", "RollbackFailed", "Rejected"} :
                ApplyPayload(status)
  BY <1>5, MenuKeep
<1>6. CASE \/ AskBeforeConnect \/ Exit \/ LeaveRunning
           \/ (\E ok \in BOOLEAN : StopAtExit(ok)) \/ Relaunch
  BY <1>6, ExitKeep
<1> QED  BY <1>1, <1>2, <1>3, <1>4, <1>5, <1>6 DEF UIStep

\* A launch begins with nothing opened and nothing believed of the engine but the truth.
LEMMA InitIInv == Init => IInv
<1> SUFFICES ASSUME Init PROVE IInv
  OBVIOUS
<1>1. /\ engine \in {"none", "known"} /\ screen = "connect" /\ frame = "begin"
      /\ operationState_ = (IF IsConnectedByUs THEN "Connected" ELSE "Disconnected")
      /\ seen = FALSE /\ why = "run" /\ leave = "none" /\ worker = "off" /\ cp = 1
      /\ events = <<>> /\ done = FALSE /\ result = "error" /\ confirmed = FALSE
      /\ bar = 0 /\ failed = FALSE /\ watchdog = "off" /\ lost = FALSE
      /\ denied = FALSE /\ bye = "none"
  BY DEF Init, Observed
<1>2. ScreenTypes
  <2>1. seen \in BOOLEAN /\ denied \in BOOLEAN
    BY <1>1, Zenon
  <2> QED  BY <1>1, <2>1 DEF ScreenTypes, Resting
<1>3. ThreadTypes
  <2>1. events \in Seq(-20 .. 20) /\ cp \in Checkpoints /\ bar \in 0 .. 100
    BY <1>1, Numbers
  <2>2. done \in BOOLEAN /\ failed \in BOOLEAN /\ confirmed \in BOOLEAN /\ lost \in BOOLEAN
    BY <1>1, Zenon
  <2> QED  BY <1>1, <2>1, <2>2 DEF ThreadTypes
<1>4. TypeOK
  BY <1>1, <1>2, <1>3 DEF TypeOK
<1>5. ScreenInv
  BY <1>1 DEF ScreenInv, GateInv, EngineInv, NothingDenied, MenuTellsTruth, ExitAsAsked, Resting
<1>6. ConnectInv
  BY <1>1 DEF ConnectInv, WorkInv, EventInv, Working, Reported, ReportedFailure
<1> QED  BY <1>4, <1>5, <1>6 DEF IInv

\* No step of any thread, nor of the engine, disturbs the invariant.
LEMMA NextIInv == IInv /\ [Next]_vars => IInv'
<1> SUFFICES ASSUME IInv, [Next]_vars PROVE IInv'
  OBVIOUS
<1>1. CASE UIStep
  BY <1>1, UIKeeps
<1>2. CASE WorkerStep
  BY <1>2, WorkerKeeps
<1>3. CASE WatchdogStep \/ EngineExits
  BY <1>3, WatchKeep DEF WatchdogStep
<1>4. CASE UNCHANGED vars
  <2>1. ScreenTypes'
    BY <1>4 DEF vars, gateVars, flowVars, IInv, TypeOK, ScreenTypes
  <2>2. TypeOK' /\ ConnectInv'
    BY <1>4, <2>1, Untouched DEF vars
  <2>3. ScreenInv'
    BY <1>4 DEF vars, gateVars, flowVars, workVars, watchVars, IInv, ScreenInv, GateInv,
       EngineInv, NothingDenied, MenuTellsTruth, ExitAsAsked, IsConnectedByUs
  <2> QED  BY <2>2, <2>3 DEF IInv
<1> QED  BY <1>1, <1>2, <1>3, <1>4 DEF Next

\* The invariant holds in every reachable state.
LEMMA Inductive == Spec => []IInv
<1> QED  BY InitIInv, NextIInv, PTL DEF Spec

\* Every variable keeps its type, and neither thread outlives the screen whose locals it
\* uses: ScreenConnect joins its worker, ScreenConnected its watchdog.
THEOREM Typed == Spec => []TypeOK
<1>1. IInv => TypeOK
  BY DEF IInv
<1> QED  BY <1>1, Inductive, PTL

\* One gate serialises connect, stop, update and cleanup, and no order of operations,
\* failures, losses and exits leaves it in a state that refuses the next command.
THEOREM GateServes == Spec => []NothingDenied
<1>1. IInv => NothingDenied
  BY DEF IInv, ScreenInv
<1> QED  BY <1>1, Inductive, PTL

\* A menu or a question that reads a key never takes a running engine of ours for absent.
THEOREM MenuIsTrue == Spec => []MenuTellsTruth
<1>1. IInv => MenuTellsTruth
  BY DEF IInv, ScreenInv
<1> QED  BY <1>1, Inductive, PTL

\* 100% means that Start has confirmed the process; the outcome panel of ScreenConnect
\* follows every event of the worker and agrees with its result.
THEOREM OutcomeFollowsEvents == Spec => []OutcomeIsComplete
<1>1. IInv => OutcomeIsComplete
  <2> SUFFICES ASSUME IInv PROVE OutcomeIsComplete
    OBVIOUS
  <2>1. screen = "outcome" => events = <<>> /\ ~Reported(20)
    BY DEF IInv, ConnectInv, WorkInv, Reported
  <2> QED  BY <2>1 DEF IInv, ConnectInv, EventInv, OutcomeIsComplete
<1> QED  BY <1>1, Inductive, PTL

\* An engine of ours that runs after HandleExit was left running by choice, or its stop
\* has failed.
THEOREM ExitKeepsItsWord == Spec => []ExitAsAsked
<1>1. IInv => ExitAsAsked
  BY DEF IInv, ScreenInv
<1> QED  BY <1>1, Inductive, PTL

=============================================================================
