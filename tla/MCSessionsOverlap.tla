------------------------- MODULE MCSessionsOverlap -------------------------
(***************************************************************************)
(* Parts that share no state, in one run: a behaviour is about one of them *)
(* (its subject) while the others stay as they are.  The sessions of a     *)
(* server that are torn down while threads use them, the file that tells   *)
(* the server which to allow, and the dashboard that shows the server.     *)
(***************************************************************************)
EXTENDS ServerSessions, ServerConfiguration, RuntimeDashboard

VARIABLE subject

overlapVars == <<vars, configVars, dashboardVars, subject>>

(* A dashboard after its end. *)
DashboardRests ==
  /\ role = "client" /\ workerReady = FALSE /\ display = "dataplane" /\ dialog = "none"
  /\ connected = FALSE /\ ticks = 1
  /\ visits = 0 /\ waitStop = 0 /\ stopped = {} /\ waiters = [v \in Visit |-> "none"]
  /\ change = FALSE /\ leaving = FALSE
  /\ screens = "ended" /\ worker = "done" /\ runCtxDone = TRUE /\ uiResult = "done" /\ runResult = "done"

OverlapInit ==
  /\ subject \in {"sessions", "configuration", "dashboard"}
  /\ Init /\ (subject = "sessions" \/ config = [c \in Client |-> None])
  /\ ConfigInit
  /\ IF subject = "dashboard" THEN DashboardInit ELSE DashboardRests

OverlapNext ==
  /\ subject' = subject
  /\ \/ subject = "sessions" /\ Next /\ UNCHANGED <<configVars, dashboardVars>>
     \/ subject = "configuration" /\ ConfigNext /\ UNCHANGED <<vars, dashboardVars>>
     \/ subject = "dashboard" /\ DashboardNext /\ UNCHANGED <<vars, configVars>>

(* That of each part: none of a part that stays as it is can do what its   *)
(* fairness is about.                                                      *)
OverlapFairness ==
  /\ RepoFairness
  /\ WF_configVars(CheckAndRevoke)
  /\ DashboardFairness

OverlapSpec == OverlapInit /\ [][OverlapNext]_overlapVars /\ OverlapFairness
=============================================================================
