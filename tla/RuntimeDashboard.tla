-------------------------- MODULE RuntimeDashboard --------------------------
(***************************************************************************)
(* ui/tui: runRuntime, which runs a client or a server (the worker) beside *)
(* the screens that show it (RuntimeDashboard of bubble_tea), until either *)
(* ends.  The screens live on messages that come back: a tick that is      *)
(* started again when it was handled, and a goroutine that waits for the   *)
(* log to change.  Numbers (tickSeq) and channels (waitStop) keep those of *)
(* a screen that was left from being taken for those of the present one.   *)
(*                                                                         *)
(* A tick with an old number does nothing; it is forgotten when the number *)
(* changes.  What the log holds is in RingBuffers.                         *)
(***************************************************************************)
EXTENDS Naturals

CONSTANT MaxVisits  \* bound of the model: how often the logs are shown

ASSUME DashboardAssumption == MaxVisits \in Nat

VARIABLES
  role,           \* options.Mode
  workerReady,    \* what Ready of the worker returns
  display, dialog, connected,
  ticks,          \* ticks under way with the present tickSeq
  visits,         \* logs.tickSeq
  waitStop,       \* the channel of logs.waitStop, 0 for none
  stopped,        \* channels that are closed
  waiters,        \* the goroutine of each visit to the logs
  change,         \* a token is in the channel changes of the log
  leaving,        \* reconfigureRequested
  screens,        \* the goroutine that runs the program
  worker,         \* Run of the client or the server
  runCtxDone,     \* runtimeCtx
  uiResult,       \* uiErrCh
  runResult       \* what runRuntime returns

onScreen == <<display, dialog, connected, ticks>>
logWait == <<visits, waitStop, stopped, waiters, change>>
life == <<screens, worker, runCtxDone, uiResult, runResult>>
dashboardVars == <<role, workerReady, onScreen, logWait, leaving, life>>

Visit == 1 .. MaxVisits
Waiter == {"none", "waits", "changed", "over", "ended"}

-----------------------------------------------------------------------------
DashboardInit ==
  /\ role \in {"client", "server"} /\ workerReady \in BOOLEAN
  /\ display = "dataplane" /\ dialog = "none"
  /\ connected = (role = "server" \/ workerReady)
  /\ ticks = 1
  /\ visits = 0 /\ waitStop = 0 /\ stopped = {} /\ waiters = [v \in Visit |-> "none"]
  /\ change \in BOOLEAN
  /\ leaving = FALSE
  /\ screens = "running" /\ worker = "running" /\ runCtxDone = FALSE
  /\ uiResult = "none" /\ runResult = "none"

Shown == screens = "running"

StopWait ==
  /\ stopped' = stopped \cup ({waitStop} \ {0})
  /\ waitStop' = 0

QuitProgram == screens' = "quit"

ReenteredSameSeq(n) == n + 1  \* mutant: tickSeq stays, a tick still under way counts
Reentered(n) == 1

(* tickSeq is increased and a tick with the new number started. *)
EnterDataplane == display' = "dataplane" /\ ticks' = Reentered(ticks)

(* restartWait, and a waiter for the new visit.  Nothing is left to close  *)
(* here: the logs are entered from the settings.                           *)
EnterLogs ==
  /\ visits < MaxVisits
  /\ display' = "logs" /\ ticks' = ticks
  /\ visits' = visits + 1
  /\ stopped' = stopped \cup ({waitStop} \ {0})
  /\ waitStop' = visits'
  /\ waiters' = [waiters EXCEPT ![visits'] = "waits"]

-----------------------------------------------------------------------------
(* Update. *)

Tick ==
  /\ Shown /\ ticks > 0
  /\ connected' = (connected \/ workerReady)
  /\ ticks' = IF display = "dataplane" THEN ticks ELSE ticks - 1
  /\ UNCHANGED <<role, workerReady, display, dialog, logWait, leaving, life>>

Tab ==
  /\ Shown /\ dialog = "none"
  /\ \/ display = "dataplane" /\ display' = "settings" /\ UNCHANGED <<ticks, visits, waitStop, stopped, waiters>>
     \/ display = "settings" /\ EnterLogs
     \/ display = "logs" /\ StopWait /\ EnterDataplane /\ UNCHANGED <<visits, waiters>>
  /\ UNCHANGED <<role, workerReady, dialog, connected, change, leaving, life>>

EscBack ==
  /\ Shown /\ dialog = "none" /\ display # "dataplane"
  /\ EnterDataplane
  /\ IF display = "logs" THEN StopWait ELSE UNCHANGED <<stopped, waitStop>>
  /\ UNCHANGED <<role, workerReady, dialog, connected, visits, waiters, change, leaving, life>>

(* A client that is not seen connected is left without a question. *)
EscLeaves ==
  /\ Shown /\ dialog = "none" /\ display = "dataplane"
  /\ IF role = "client" /\ ~connected
       THEN leaving' = TRUE /\ QuitProgram /\ StopWait /\ dialog' = dialog
       ELSE dialog' = "stay" /\ UNCHANGED <<leaving, screens, stopped, waitStop>>
  /\ UNCHANGED <<role, workerReady, display, connected, ticks, visits, waiters, change,
                 worker, runCtxDone, uiResult, runResult>>

(* updateConfirm *)
Answer ==
  /\ Shown /\ dialog # "none"
  /\ \/ dialog' \in {"stay", "leave"} \ {dialog} /\ UNCHANGED <<leaving, screens, stopped, waitStop>>
     \/ dialog' = "none" /\ UNCHANGED <<leaving, screens, stopped, waitStop>>
     \/ dialog = "leave" /\ leaving' = TRUE /\ QuitProgram /\ StopWait /\ dialog' = dialog
  /\ UNCHANGED <<role, workerReady, display, connected, ticks, visits, waiters, change,
                 worker, runCtxDone, uiResult, runResult>>

CtrlC ==
  /\ Shown /\ QuitProgram /\ StopWait
  /\ UNCHANGED <<role, workerReady, onScreen, visits, waiters, change, leaving,
                 worker, runCtxDone, uiResult, runResult>>

(* logViewportTickMsg: only the one of the present visit is waited for     *)
(* again, while the logs are shown.                                        *)
Expected(v) == v = visits /\ display = "logs"

LogChanged(v) ==
  /\ Shown /\ waiters[v] = "changed"
  /\ waiters' = [waiters EXCEPT ![v] = IF Expected(v) THEN "waits" ELSE "ended"]
  /\ UNCHANGED <<role, workerReady, onScreen, visits, waitStop, stopped, change, leaving, life>>

(* runtimeContextDoneMsg, from waitForRuntimeContextDone or from a waiter, *)
(* or the Quit of runRuntimePhase.                                         *)
ContextDoneMsg ==
  /\ Shown /\ runCtxDone
  /\ QuitProgram /\ StopWait
  /\ UNCHANGED <<role, workerReady, onScreen, visits, waiters, change, leaving,
                 worker, runCtxDone, uiResult, runResult>>

-----------------------------------------------------------------------------
(* runtimeLogUpdateCmd: a select, so any case that is ready may be taken,  *)
(* also by a goroutine that first runs when its visit is long over.  What  *)
(* it returns goes to the program, or nowhere after the program has ended. *)
WaiterWakes(v) ==
  /\ waiters[v] = "waits"
  /\ \/ runCtxDone /\ waiters' = [waiters EXCEPT ![v] = "over"] /\ change' = change
     \/ v \in stopped /\ waiters' = [waiters EXCEPT ![v] = "ended"] /\ change' = change
     \/ change /\ waiters' = [waiters EXCEPT ![v] = "changed"] /\ change' = FALSE
  /\ UNCHANGED <<role, workerReady, onScreen, visits, waitStop, stopped, leaving, life>>

(* Write, WriteSeparator: signalChangeLocked *)
LogWritten ==
  /\ runResult = "none" /\ ~change /\ change' = TRUE
  /\ UNCHANGED <<role, workerReady, onScreen, visits, waitStop, stopped, waiters, leaving, life>>

-----------------------------------------------------------------------------
(* runRuntime. *)

(* A session of the client is set up or lost; a server is always ready.    *)
ReadyChanges ==
  /\ role = "client" /\ worker = "running" /\ Shown
  /\ workerReady' = ~workerReady
  /\ UNCHANGED <<role, onScreen, logWait, leaving, life>>

ContextEnds ==
  /\ runResult = "none" /\ ~runCtxDone /\ runCtxDone' = TRUE
  /\ UNCHANGED <<role, workerReady, onScreen, logWait, leaving, screens, worker, uiResult, runResult>>

ProgramFails ==
  /\ Shown /\ screens' = "failed"
  /\ UNCHANGED <<role, workerReady, onScreen, logWait, leaving, worker, runCtxDone, uiResult, runResult>>

CancelsNot == runCtxDone  \* mutant: the worker is left to itself
CancelsWorker == TRUE

(* runRuntimePhase has returned: a client that is to be reconfigured does  *)
(* not connect by itself any more, which has to be saved.                  *)
UIReturns ==
  /\ screens \in {"quit", "failed"} /\ screens' = "ended"
  /\ uiResult' \in
       IF screens = "failed" THEN {"failed"}
       ELSE IF ~leaving THEN {"done"}
       ELSE {"reconfigure"} \cup (IF role = "client" THEN {"failed"} ELSE {})
  /\ runCtxDone' = CancelsWorker
  /\ UNCHANGED <<role, workerReady, onScreen, logWait, leaving, worker, runResult>>

(* Run returns when its context is done, or earlier with an error. *)
WorkerEnds ==
  /\ worker = "running"
  /\ worker' \in {"failed"} \cup (IF runCtxDone THEN {"done"} ELSE {})
  /\ runCtxDone' = TRUE
  /\ UNCHANGED <<role, workerReady, onScreen, logWait, leaving, screens, uiResult, runResult>>

RunReturns ==
  /\ worker # "running" /\ uiResult # "none" /\ runResult = "none"
  /\ runResult' = IF worker = "failed" THEN "workerError" ELSE uiResult
  /\ UNCHANGED <<role, workerReady, onScreen, logWait, leaving, screens, worker, runCtxDone, uiResult>>

-----------------------------------------------------------------------------
DashboardNext ==
  \/ Tick \/ Tab \/ EscBack \/ EscLeaves \/ Answer \/ CtrlC \/ ContextDoneMsg
  \/ \E v \in Visit : LogChanged(v) \/ WaiterWakes(v)
  \/ LogWritten \/ ReadyChanges \/ ContextEnds \/ ProgramFails
  \/ UIReturns \/ WorkerEnds \/ RunReturns

(* The program handles its messages, goroutines that can go on do, and a   *)
(* client or a server whose context is done ends (ReconnectsUntilStopped,  *)
(* ServerEnds).                                                            *)
DashboardFairness ==
  /\ WF_dashboardVars(ContextDoneMsg)
  /\ WF_dashboardVars(UIReturns)
  /\ WF_dashboardVars(runCtxDone /\ WorkerEnds)
  /\ WF_dashboardVars(RunReturns)
  /\ \A v \in Visit : WF_dashboardVars(WaiterWakes(v))

DashboardSpec == DashboardInit /\ [][DashboardNext]_dashboardVars /\ DashboardFairness

-----------------------------------------------------------------------------
(* Whatever screens were left and entered again, and however late ticks    *)
(* and goroutines come: the dataplane has exactly one tick of its number   *)
(* under way (without one it never shows a connection, with two it counts  *)
(* twice as fast each time), the logs exactly one waiter, which no closed  *)
(* channel ends, every other waiter can end, and no channel that is closed *)
(* will be closed again, which would end the program.                      *)
ChainsAlive ==
  /\ waiters \in [Visit -> Waiter] /\ waitStop \notin stopped
  /\ screens = "running" =>
       /\ display = "dataplane" => ticks = 1
       /\ ticks <= 1
       /\ display = "logs" => waitStop = visits /\ waiters[visits] \in {"waits", "changed", "over"}
       /\ \A v \in Visit : waiters[v] = "waits" => (v \in stopped) # (display = "logs" /\ v = waitStop)

(* However it begins to end (the user quits or leaves, the program or the  *)
(* worker fails, the context is cancelled), the screens, the worker and    *)
(* runRuntime all end, and no goroutine is left waiting for the log.       *)
RunEnds ==
  (screens # "running" \/ worker # "running" \/ runCtxDone) ~>
    runResult # "none" /\ \A v \in Visit : waiters[v] # "waits"
=============================================================================
