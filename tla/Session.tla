------------------------------- MODULE Session -------------------------------
(***************************************************************************)
(* The threads of one launcher process: the UI thread with its screens,    *)
(* the worker of ScreenConnect that runs Launcher::Connect, and the        *)
(* Watchdog of ScreenConnected, around the gate OperationState and the     *)
(* engine.                                                                 *)
(*                                                                         *)
(* Every loop of a screen is a frame: BeginFrame may look at the gate, ask *)
(* ProcessManager whether the engine runs, and correct the gate; then a    *)
(* key is read. Between any two of these the other threads and the engine  *)
(* take steps. A message box is a frame of the screen that opened it.      *)
(***************************************************************************)
EXTENDS Integers, Sequences, FiniteSetsExt

VARIABLES
  operationState_,  \* AppOperationState
  engine,     \* winws.exe: "none", "known" to pm_, or "stray": running unknown to pm_
  screen,     \* what the UI thread shows
  frame,      \* where it is in the loop of that screen
  seen,       \* its last answer of IsConnectedByUs
  why,        \* what a connect flow or a question was opened for; during a cleanup
              \* the gate it came from
  leave,      \* how ScreenConnected is being left
  worker,     \* the thread of ScreenConnect
  cp,         \* the checkpoint it is at
  events,     \* UiEventQueue q: i is StageOk(i), -i is StageFailed(i), 0 any other
  done, result,     \* the locals of ScreenConnect it shares with the worker
  bar, failed,      \* what the screen has shown: percentage, and a failed stage
  watchdog,   \* the Watchdog thread
  lost,       \* a ProcessStopped event is in its queue
  confirmed,  \* history: this Connect had Ok from ProcessManager::Start
  denied,     \* history: a command was refused although nothing else was going on
  bye         \* history: how HandleExit ended

gateVars  == <<operationState_, denied>>
flowVars  == <<why, leave>>
workVars  == <<worker, cp, events, done, result, confirmed>>
shownVars == <<bar, failed>>
watchVars == <<watchdog, lost>>
vars == <<gateVars, engine, screen, frame, seen, flowVars, workVars, shownVars,
          watchVars, bye>>

Percent == <<5, 8, 12, 18, 24, 34, 44, 50, 55, 60,
             64, 68, 72, 76, 82, 88, 92, 95, 98, 100>>
Checkpoints == DOMAIN Percent

\* Checkpoints that only report progress; the others check or do something.
Reporting == {5, 7, 8, 9, 10, 11, 12, 14, 16, 18, 19, 20}
Resting == {"Connected", "Disconnected", "Error"}
Busy    == {"Connecting", "Disconnecting", "Updating", "RollingBack"}

\* ProcessManager holds its mutex during Start and during Stop.
Locked == worker \in {"start", "stop"}

IsConnectedByUs == engine = "known"
Observed(alive) == IF alive THEN "Connected" ELSE "Disconnected"

\* ConnectResult::success.
Success == result \in {"connected", "adopted"}

-----------------------------------------------------------------------------
(* Frames.                                                                 *)

Framed == {"connecting", "outcome", "connected", "lost", "menu", "confirm", "checking"}

\* The screen s is opened, or its loop begins again.
Show(s) == screen' = s /\ frame' = "begin"

\* What the loop of ScreenConnect does with the events it drains.
Drain ==
  /\ bar' = Max({bar} \cup {Percent[i] : i \in {j \in Checkpoints :
                                 \E k \in DOMAIN events : events[k] = j}})
  /\ failed' = (failed \/ \E k \in DOMAIN events : events[k] < 0)
  /\ events' = <<>>

\* The queue is drained; only a gate at rest is compared with the process.
BeginFrame ==
  /\ screen \in Framed /\ frame = "begin"
  /\ ~(screen = "connected" /\ lost)
  /\ frame' = IF operationState_ \in Resting THEN "probe" ELSE "keys"
  /\ IF screen = "connecting" THEN Drain ELSE UNCHANGED <<events, shownVars>>
  /\ UNCHANGED <<gateVars, engine, screen, seen, flowVars, worker, cp, done, result,
                 confirmed, watchVars, bye>>

\* IsConnectedByUs waits for the mutex of ProcessManager.
Probe ==
  /\ frame = "probe" /\ ~Locked
  /\ seen' = IsConnectedByUs
  /\ frame' = "observe"
  /\ UNCHANGED <<gateVars, engine, screen, flowVars, workVars, shownVars, watchVars, bye>>

\* Mutant: a gate at Disconnected is taken to need no correction.
Observe_ConnectedOnly ==
  /\ frame = "observe"
  /\ operationState_' = IF operationState_ \in Resting \ {"Disconnected"}
                        THEN Observed(seen) ELSE operationState_
  /\ seen' = FALSE /\ frame' = "keys"
  /\ UNCHANGED <<denied, engine, screen, flowVars, workVars, shownVars, watchVars, bye>>

\* OperationState::ObserveProcess.
Observe ==
  /\ frame = "observe"
  /\ operationState_' = IF operationState_ \in Resting
                        THEN Observed(seen) ELSE operationState_
  /\ seen' = FALSE /\ frame' = "keys"
  /\ UNCHANGED <<denied, engine, screen, flowVars, workVars, shownVars, watchVars, bye>>

\* No key, or one that changes nothing.
Idle ==
  /\ screen \in Framed \ {"connecting"} /\ frame = "keys"
  /\ Show(screen)
  /\ UNCHANGED <<gateVars, engine, seen, flowVars, workVars, shownVars, watchVars, bye>>

-----------------------------------------------------------------------------
(* App::StopManagedConnection. No other thread runs then, so the calls     *)
(* between its two transitions of the gate are one step.                   *)

StopManagedConnection(ok) ==
  \/ /\ operationState_ = "Disconnected"
     /\ ok = ~IsConnectedByUs /\ denied' = (denied \/ IsConnectedByUs)
     /\ UNCHANGED <<operationState_, engine>>
  \/ /\ operationState_ \in {"Connected", "Error"}
     /\ engine' = IF ok /\ IsConnectedByUs THEN "none" ELSE engine
     /\ operationState_' = IF ok THEN "Disconnected" ELSE "Error"
     /\ UNCHANGED denied
  \/ /\ operationState_ \in Busy
     /\ ~ok /\ denied' = TRUE
     /\ UNCHANGED <<operationState_, engine>>

-----------------------------------------------------------------------------
(* ScreenConnect.                                                          *)

\* DoConnectFlow calls it; the first thing it does is ask for the process.
AskBeforeConnect ==
  /\ screen = "connect" /\ frame = "begin"
  /\ seen' = IsConnectedByUs
  /\ frame' = "enter"
  /\ UNCHANGED <<gateVars, engine, screen, flowVars, workVars, shownVars, watchVars, bye>>

\* The gate is observed, then forced or moved by compare and exchange.
EnterConnect ==
  LET observed == IF operationState_ \in Resting THEN Observed(seen) ELSE operationState_
  IN
  /\ screen = "connect" /\ frame = "enter"
  /\ seen' = FALSE
  /\ IF seen \/ observed = "Disconnected"
     THEN /\ operationState_' = IF seen THEN "Connected" ELSE "Connecting"
          /\ worker' = "check" /\ cp' = 1 /\ events' = <<>>
          /\ done' = FALSE /\ result' = "error" /\ confirmed' = FALSE
          /\ bar' = 0 /\ failed' = FALSE
          /\ Show("connecting")
          /\ UNCHANGED <<denied, flowVars>>
     ELSE /\ operationState_' = observed /\ denied' = TRUE
          /\ why' = "menu" /\ Show("menu")
          /\ UNCHANGED <<workVars, shownVars, leave>>
  /\ UNCHANGED <<engine, watchVars, bye>>

\* Mutant: the loop ends as soon as the worker is done.
LeaveConnecting_EventsLeft ==
  /\ screen = "connecting" /\ frame = "keys"
  /\ IF done THEN Show("outcome") /\ worker' = "off" ELSE Show("connecting") /\ UNCHANGED worker
  /\ UNCHANGED <<gateVars, engine, seen, flowVars, cp, events, done, result, confirmed,
                 shownVars, watchVars, bye>>

\* The loop ends when the worker is done and its queue is drained; then join.
LeaveConnecting ==
  /\ screen = "connecting" /\ frame = "keys"
  /\ IF done /\ events = <<>> THEN Show("outcome") /\ worker' = "off"
                              ELSE Show("connecting") /\ UNCHANGED worker
  /\ UNCHANGED <<gateVars, engine, seen, flowVars, cp, events, done, result, confirmed,
                 shownVars, watchVars, bye>>

\* The locals of ScreenConnect are gone.
ScopeEnds == /\ worker' = "off" /\ cp' = 1 /\ events' = <<>> /\ done' = FALSE
             /\ result' = "error" /\ confirmed' = FALSE /\ bar' = 0 /\ failed' = FALSE

\* The outcome panel is closed: ScreenConnected starts its watchdog, or the flow
\* ends in the menu.
CloseOutcome ==
  /\ screen = "outcome" /\ frame = "keys"
  /\ IF Success
     THEN /\ Show("connected") /\ watchdog' = "asleep" /\ lost' = FALSE
          /\ UNCHANGED <<operationState_, why>>
     ELSE /\ Show("menu") /\ why' = "menu"
          /\ operationState_' = "Disconnected"
          /\ UNCHANGED watchVars
  /\ ScopeEnds
  /\ UNCHANGED <<denied, engine, seen, leave, bye>>

-----------------------------------------------------------------------------
(* Launcher::Connect on the worker thread.                                 *)

\* fail(i, ...): StageFailed(i), and Connect returns an Error.
Fail == /\ events' = Append(events, -cp)
        /\ worker' = "complete" /\ result' = "error"
        /\ UNCHANGED <<cp, confirmed>>

\* Mutant: the counter runs past the last checkpoint.
Pass_PastTheEnd ==
  /\ cp' = cp + 1
  /\ events' = events \o (IF cp = 20 THEN <<20, 0>> ELSE <<cp>>)
  /\ worker' = CASE cp = 4  -> "conflict"
                 [] cp = 20 -> "complete"
                 [] OTHER   -> "check"
  /\ result' = IF cp = 20 THEN "connected" ELSE result

\* okcp(i), and on to the next checkpoint or, after the last, the ProcessStarted
\* event and the Connected result.
Pass == /\ cp' = IF cp = 20 THEN 20 ELSE cp + 1
        /\ events' = events \o (IF cp = 20 THEN <<20, 0>> ELSE <<cp>>)
        /\ worker' = CASE cp = 4  -> "conflict"
                       [] cp = 20 -> "complete"
                       [] OTHER   -> "check"
        /\ result' = IF cp = 20 THEN "connected" ELSE result

\* An outcome without a failed stage, reported by an Info event.
Answer(r) == /\ events' = Append(events, 0)
             /\ worker' = "complete" /\ result' = r
             /\ UNCHANGED <<cp, confirmed>>

WorkerOnly == UNCHANGED <<denied, screen, frame, seen, flowVars, shownVars, watchVars, bye>>

\* A checkpoint that can fail is passed or failed; 15 starts the engine.
Check ==
  /\ worker = "check"
  /\ \/ cp # 15 /\ Pass /\ UNCHANGED confirmed
     \/ cp \notin Reporting \cup {15, 17} /\ Fail
     \/ cp = 15 /\ worker' = "start" /\ UNCHANGED <<cp, events, result, confirmed>>
  /\ UNCHANGED <<operationState_, engine, done>> /\ WorkerOnly

\* An engine of ours is adopted if its tree verifies, and stopped otherwise; the
\* zapret service and a foreign winws.exe end the attempt.
Conflict ==
  /\ worker = "conflict"
  /\ \/ IsConnectedByUs /\ Answer("adopted")
     \/ IsConnectedByUs /\ worker' = "stop" /\ UNCHANGED <<cp, events, result, confirmed>>
     \/ ~IsConnectedByUs /\ Answer("refused")
     \/ engine = "none" /\ worker' = "check" /\ UNCHANGED <<cp, events, result, confirmed>>
  /\ UNCHANGED <<operationState_, engine, done>> /\ WorkerOnly

StopUntrusted ==
  /\ worker = "stop"
  /\ engine' \in {"none", engine}
  /\ events' = Append(events, -4)
  /\ worker' = "complete" /\ result' = "error"
  /\ UNCHANGED <<operationState_, cp, done, confirmed>> /\ WorkerOnly

\* ProcessManager::Start, with its three kinds of result.
Start ==
  /\ worker = "start"
  /\ \/ engine' = "known" /\ confirmed' = TRUE
        /\ events' = Append(events, 15) /\ cp' = 16 /\ worker' = "check"
        /\ UNCHANGED result
     \/ Fail /\ UNCHANGED engine
     \/ events' = events \o <<15, 16, -17>> /\ cp' = 17       \* ExitedEarly
        /\ worker' = "complete" /\ result' = "error"
        /\ UNCHANGED <<engine, confirmed>>
  /\ UNCHANGED <<operationState_, done>> /\ WorkerOnly

\* An exception in Connect, outside its calls of ProcessManager, is caught by the
\* thread.
WorkerThrows ==
  /\ worker \in {"check", "conflict"}
  /\ events' = Append(events, 0)
  /\ worker' = "complete" /\ result' = "error"
  /\ UNCHANGED <<operationState_, engine, cp, done, confirmed>> /\ WorkerOnly

WorkerCompletes ==
  /\ worker = "complete"
  /\ operationState_' = IF Success THEN "Connected" ELSE "Error"
  /\ worker' = "finish"
  /\ UNCHANGED <<engine, cp, events, done, result, confirmed>> /\ WorkerOnly

\* Mutant: done is stored only for a success.
WorkerDone_SuccessOnly ==
  /\ worker = "finish"
  /\ done' = Success /\ worker' = "done"
  /\ UNCHANGED <<operationState_, engine, cp, events, result, confirmed>> /\ WorkerOnly

WorkerDone ==
  /\ worker = "finish"
  /\ done' = TRUE /\ worker' = "done"
  /\ UNCHANGED <<operationState_, engine, cp, events, result, confirmed>> /\ WorkerOnly

WorkerStep == Check \/ Conflict \/ StopUntrusted \/ Start \/ WorkerThrows
              \/ WorkerCompletes \/ WorkerDone

-----------------------------------------------------------------------------
(* ScreenConnected and its Watchdog.                                       *)

\* Mutant: the thread ends without pushing ProcessStopped.
WatchdogReports_Silent ==
  /\ watchdog \in {"alive", "dead"}
  /\ watchdog' = IF watchdog = "alive" THEN "asleep" ELSE "ended"
  /\ UNCHANGED <<lost, gateVars, engine, screen, frame, seen, flowVars, workVars,
                 shownVars, bye>>

\* After its interval, unless it was asked to stop.
WatchdogAsks ==
  /\ watchdog = "asleep" /\ frame # "join"
  /\ watchdog' = IF IsConnectedByUs THEN "alive" ELSE "dead"
  /\ UNCHANGED <<lost, gateVars, engine, screen, frame, seen, flowVars, workVars,
                 shownVars, bye>>

\* A heartbeat, or ProcessStopped and the end of the thread.
WatchdogReports ==
  /\ watchdog \in {"alive", "dead"}
  /\ lost' = (lost \/ watchdog = "dead")
  /\ watchdog' = IF watchdog = "alive" THEN "asleep" ELSE "ended"
  /\ UNCHANGED <<gateVars, engine, screen, frame, seen, flowVars, workVars, shownVars, bye>>

WatchdogStep == WatchdogAsks \/ WatchdogReports

\* ProcessStopped is drained: the loop turns into the one that shows the loss.
DrainLoss ==
  /\ screen = "connected" /\ frame = "begin" /\ lost
  /\ operationState_' = "Error"
  /\ leave' = "lost" /\ frame' = "join"
  /\ UNCHANGED <<denied, engine, screen, seen, why, workVars, shownVars, watchVars, bye>>

LeaveConnected(how) ==
  /\ screen = "connected" /\ frame = "keys"
  /\ leave' = how /\ frame' = "join"
  /\ UNCHANGED <<gateVars, engine, screen, seen, why, workVars, shownVars, watchVars, bye>>

\* Watchdog::Stop joins. Post::Quit is dropped by ScreenStrategy, which ignores what
\* DoConnectFlow returns.
JoinWatchdog ==
  /\ frame = "join" /\ watchdog \in {"asleep", "ended"}
  /\ watchdog' = "off" /\ lost' = FALSE /\ leave' = "none"
  /\ \/ leave = "lost" /\ Show("lost") /\ UNCHANGED why
     \/ leave = "quit" /\ why # "strategy" /\ Show("exit") /\ UNCHANGED why
     \/ leave = "quit" /\ why = "strategy" /\ Show("menu") /\ why' = "menu"
     \/ leave = "menu" /\ Show("menu") /\ why' = "menu"
  /\ UNCHANGED <<gateVars, engine, seen, workVars, shownVars, bye>>

\* R: the flow stops what may be left and connects again.
Reconnect ==
  /\ screen = "lost" /\ frame = "keys"
  /\ operationState_' = "Disconnected"
  /\ Show("reconnect")
  /\ UNCHANGED <<denied, engine, seen, flowVars, workVars, shownVars, watchVars, bye>>

StopBeforeReconnect(ok) ==
  /\ screen = "reconnect"
  /\ StopManagedConnection(ok)
  /\ IF ok THEN Show("connect") /\ UNCHANGED why ELSE Show("menu") /\ why' = "menu"
  /\ UNCHANGED <<seen, leave, workVars, shownVars, watchVars, bye>>

GiveUpConnection ==
  /\ screen = "lost" /\ frame = "keys"
  /\ operationState_' = "Disconnected"
  /\ Show("menu") /\ why' = "menu"
  /\ UNCHANGED <<denied, engine, seen, leave, workVars, shownVars, watchVars, bye>>

-----------------------------------------------------------------------------
(* ScreenMainMenu, ScreenStrategy and HandleExit.                          *)

Choosing == screen = "menu" /\ frame = "keys"

\* "Connect", or "Restart" when an engine runs.
MenuConnect(ok) ==
  /\ Choosing
  /\ IF IsConnectedByUs THEN StopManagedConnection(ok)
                        ELSE ok /\ UNCHANGED <<gateVars, engine>>
  /\ Show(IF ok THEN "connect" ELSE "menu")
  /\ UNCHANGED <<seen, flowVars, workVars, shownVars, watchVars, bye>>

\* A question that only makes sense while an engine runs: disconnect, restart for
\* a new game filter, restart for a new strategy.
MenuAsks(what) ==
  /\ Choosing /\ IsConnectedByUs
  /\ why' = what /\ Show("confirm")
  /\ UNCHANGED <<gateVars, engine, seen, leave, workVars, shownVars, watchVars, bye>>

Declined ==
  /\ screen = "confirm" /\ frame = "keys" /\ why # "exit"
  /\ Show("menu") /\ why' = "menu"
  /\ UNCHANGED <<gateVars, engine, seen, leave, workVars, shownVars, watchVars, bye>>

Accepted(ok) ==
  /\ screen = "confirm" /\ frame = "keys" /\ why # "exit"
  /\ StopManagedConnection(ok)
  /\ IF ok /\ why # "disconnect"
     THEN Show("connect") /\ why' = (IF why = "filter" THEN "menu" ELSE why)
     ELSE Show("menu") /\ why' = "menu"
  /\ UNCHANGED <<seen, leave, workVars, shownVars, watchVars, bye>>

MenuCleanup ==
  /\ Choosing
  /\ IF operationState_ \in {"Disconnected", "Connected"}
     THEN /\ operationState_' = "Updating" /\ UNCHANGED denied
          /\ screen' = "cleanup" /\ frame' = "begin"
          /\ why' = operationState_
     ELSE /\ denied' = TRUE /\ Show("menu") /\ UNCHANGED <<operationState_, why>>
  /\ UNCHANGED <<engine, seen, leave, workVars, shownVars, watchVars, bye>>

CleanupEnds ==
  /\ screen = "cleanup"
  /\ operationState_' = why
  /\ Show("menu") /\ why' = "menu"
  /\ UNCHANGED <<denied, engine, seen, leave, workVars, shownVars, watchVars, bye>>

MenuQuits ==
  /\ Choosing
  /\ Show("exit")
  /\ UNCHANGED <<gateVars, engine, seen, flowVars, workVars, shownVars, watchVars, bye>>

\* HandleExit asks what to do with an engine that runs.
Exit ==
  /\ screen = "exit"
  /\ IF IsConnectedByUs THEN Show("confirm") /\ why' = "exit" /\ UNCHANGED bye
                        ELSE Show("exited") /\ bye' = "none" /\ UNCHANGED why
  /\ UNCHANGED <<gateVars, engine, seen, leave, workVars, shownVars, watchVars>>

LeaveRunning ==
  /\ screen = "confirm" /\ frame = "keys" /\ why = "exit"
  /\ Show("exited") /\ bye' = "kept"
  /\ UNCHANGED <<gateVars, engine, seen, flowVars, workVars, shownVars, watchVars>>

\* Mutant: both answers detach.
StopAtExit_Detaches(ok) ==
  /\ screen = "confirm" /\ frame = "keys" /\ why = "exit"
  /\ Show("exited") /\ bye' = IF ok THEN "stopped" ELSE "failed"
  /\ UNCHANGED <<gateVars, engine, seen, flowVars, workVars, shownVars, watchVars>>

\* The result of the stop is only logged.
StopAtExit(ok) ==
  /\ screen = "confirm" /\ frame = "keys" /\ why = "exit"
  /\ StopManagedConnection(ok)
  /\ Show("exited") /\ bye' = IF ok THEN "stopped" ELSE "failed"
  /\ UNCHANGED <<seen, flowVars, workVars, shownVars, watchVars>>

\* The program is started again; a stray engine is found by its record.
Relaunch ==
  /\ screen = "exited"
  /\ engine' = IF engine = "stray" THEN "known" ELSE engine
  /\ operationState_' = Observed(engine' = "known")
  /\ Show("connect") /\ why' = "run" /\ bye' = "none"
  /\ UNCHANGED <<denied, seen, leave, workVars, shownVars, watchVars>>

-----------------------------------------------------------------------------
(* ScreenUpdates. The check runs on a thread of its own and touches none of *)
(* this state; the gate stays at Updating to the end.                       *)

MenuUpdates ==
  /\ Choosing
  /\ IF operationState_ \in {"Disconnected", "Connected"}
     THEN operationState_' = "Updating" /\ Show("checking") /\ UNCHANGED denied
     ELSE denied' = TRUE /\ Show("menu") /\ UNCHANGED operationState_
  /\ UNCHANGED <<engine, seen, flowVars, workVars, shownVars, watchVars, bye>>

\* Mutant: a cancelled check returns without completing the operation.
UpdatesEnd_GateKept ==
  /\ (screen = "checking" /\ frame = "keys") \/ screen = "updated"
  /\ operationState_' = IF screen = "checking" THEN operationState_ ELSE Observed(IsConnectedByUs)
  /\ Show("menu")
  /\ UNCHANGED <<denied, engine, seen, flowVars, workVars, shownVars, watchVars, bye>>

\* The check was cancelled or offered nothing, the offer was declined, or the
\* package has been applied or rejected.
UpdatesEnd ==
  /\ (screen = "checking" /\ frame = "keys") \/ screen = "updated"
  /\ operationState_' = Observed(IsConnectedByUs)
  /\ Show("menu")
  /\ UNCHANGED <<denied, engine, seen, flowVars, workVars, shownVars, watchVars, bye>>

\* ApplyPayload. A new manager, which a commit or a completed rollback brings, may
\* miss the record of the engine.
ApplyPayload(status) ==
  /\ screen = "checking" /\ frame = "keys"
  /\ CASE status = "Applied"        -> engine' \in IF engine = "none" THEN {"none"}
                                                   ELSE {"none", "known", "stray"}
       [] status = "RolledBack"     -> engine' \in IF engine = "none" THEN {"none"}
                                                   ELSE {"none", "known", "stray"}
       [] status = "RollbackFailed" -> engine' \in IF engine = "known"
                                                   THEN {"none", "known", "stray"}
                                                   ELSE {engine}
       [] status = "Rejected"       -> UNCHANGED engine
  /\ operationState_' = IF status \in {"RolledBack", "RollbackFailed"}
                        THEN "RollingBack" ELSE operationState_
  /\ screen' = "updated" /\ frame' = "begin"
  /\ UNCHANGED <<denied, seen, flowVars, workVars, shownVars, watchVars, bye>>

-----------------------------------------------------------------------------
EngineExits ==
  /\ engine # "none"
  /\ engine' = "none"
  /\ UNCHANGED <<gateVars, screen, frame, seen, flowVars, workVars, shownVars, watchVars, bye>>

UIStep ==
  \/ BeginFrame \/ Probe \/ Observe \/ Idle
  \/ AskBeforeConnect \/ EnterConnect \/ LeaveConnecting \/ CloseOutcome
  \/ DrainLoss \/ (\E how \in {"menu", "quit"} : LeaveConnected(how)) \/ JoinWatchdog
  \/ Reconnect \/ GiveUpConnection
  \/ MenuCleanup \/ CleanupEnds \/ MenuQuits \/ MenuUpdates \/ UpdatesEnd
  \/ (\E what \in {"disconnect", "filter", "strategy"} : MenuAsks(what)) \/ Declined
  \/ Exit \/ LeaveRunning \/ Relaunch
  \/ \E ok \in BOOLEAN : StopBeforeReconnect(ok) \/ MenuConnect(ok) \/ Accepted(ok)
                         \/ StopAtExit(ok)
  \/ \E status \in {"Applied", "RolledBack", "RollbackFailed", "Rejected"} :
       ApplyPayload(status)

\* App::App has observed the process; Run goes to the first connect flow.
Init ==
  /\ engine \in {"none", "known"}
  /\ operationState_ = Observed(IsConnectedByUs)
  /\ screen = "connect" /\ frame = "begin" /\ seen = FALSE
  /\ why = "run" /\ leave = "none"
  /\ worker = "off" /\ cp = 1 /\ events = <<>> /\ done = FALSE
  /\ result = "error" /\ confirmed = FALSE
  /\ bar = 0 /\ failed = FALSE
  /\ watchdog = "off" /\ lost = FALSE
  /\ denied = FALSE /\ bye = "none"

Next == UIStep \/ WorkerStep \/ WatchdogStep \/ EngineExits

Spec == Init /\ [][Next]_vars

\* The threads of the process are scheduled; no key need ever be pressed, and no
\* engine need ever exit.
Fairness == WF_vars(UIStep) /\ WF_vars(WorkerStep) /\ WF_vars(WatchdogStep)
FairSpec == Spec /\ Fairness

-----------------------------------------------------------------------------
(* Properties.                                                             *)

ScreenTypes ==
  /\ operationState_ \in Resting \cup Busy
  /\ engine \in {"none", "known", "stray"}
  /\ screen \in Framed \cup {"connect", "reconnect", "cleanup", "updated", "exit", "exited"}
  /\ frame \in {"begin", "probe", "observe", "keys", "enter", "join"}
  /\ seen \in BOOLEAN /\ denied \in BOOLEAN
  /\ why \in {"run", "menu", "disconnect", "filter", "strategy", "exit", "Connected",
              "Disconnected"}
  /\ leave \in {"none", "menu", "quit", "lost"}
  /\ bye \in {"none", "kept", "stopped", "failed"}

ThreadTypes ==
  /\ worker \in {"off", "check", "conflict", "stop", "start", "complete", "finish", "done"}
  /\ cp \in Checkpoints
  /\ events \in Seq(-20 .. 20)
  /\ done \in BOOLEAN /\ failed \in BOOLEAN /\ confirmed \in BOOLEAN
  /\ result \in {"error", "connected", "adopted", "refused"}
  /\ bar \in 0 .. 100
  /\ watchdog \in {"off", "asleep", "alive", "dead", "ended"} /\ lost \in BOOLEAN

\* Types; and the threads of a screen, which use its locals, live only while it is shown.
TypeOK ==
  /\ ScreenTypes /\ ThreadTypes
  /\ worker # "off" => screen = "connecting"
  /\ watchdog # "off" => screen = "connected"

\* OperationState.h: one gate serialises connect, stop, update and cleanup. Since
\* they all run for the one UI thread, no order of operations, failures and exits
\* leaves the gate in a state that refuses the next command.
NothingDenied == ~denied

\* Whatever way an operation ended, a screen that takes commands never believes a
\* running engine of ours to be absent.
MenuTellsTruth ==
  screen \in {"menu", "confirm"} /\ frame = "keys" =>
    \/ operationState_ = "Connected"
    \/ operationState_ = "Disconnected" /\ ~IsConnectedByUs

\* UiEvent.h: the bar shows 100% only after Start has confirmed the process; and the
\* outcome panel follows everything the worker reported.
OutcomeIsComplete ==
  /\ bar = 100 => confirmed
  /\ screen = "outcome" =>
       /\ events = <<>>
       /\ result = "connected" => bar = 100
       /\ failed => result = "error"

\* An engine of ours that runs after exit was left by choice, or its stop failed.
ExitAsAsked ==
  screen = "exited" /\ IsConnectedByUs => bye \in {"kept", "failed"}

\* A loss of the engine is shown to a user who only watches the connected screen.
LossIsShown == (screen = "connected" /\ ~IsConnectedByUs) ~> (screen # "connected")

\* Connect ends: the UI thread and the worker do not wait for each other for ever.
ConnectEnds == (screen = "connecting") ~> (screen # "connecting")
=============================================================================
