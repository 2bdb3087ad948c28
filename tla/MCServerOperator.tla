-------------------------- MODULE MCServerOperator --------------------------
(***************************************************************************)
(* Parts that share no state, in one run: a behaviour is about one of them *)
(* (its subject) while the others stay as they are.  The sessions of a     *)
(* server while its operator edits the peers, the screens on which that is *)
(* done, the log and the graph these show, the replay window of a session, *)
(* and the tunnels of a client on Windows or macOS.                        *)
(***************************************************************************)
EXTENDS ServerSessions, SlidingWindow, Configurator, RingBuffers, PlatformTunnels, TLC

VARIABLE subject

operatorVars == <<vars, slidingVars, configuratorVars, ringVars, platformVars, subject>>

(* Constants of the configuration. *)
SessionSymmetry == Permutations(Session)
TwoNames == <<"home", "work">>
TwoIDs == <<1, 2>>

-----------------------------------------------------------------------------
SessionsRest == Init /\ config = [c \in Client |-> None]

ScreensRest ==
  /\ tui = "ended" /\ chosenMode = "exit" /\ screen = "mode" /\ cursor = 0
  /\ list = <<>> /\ about = Nothing /\ typing = "none" /\ question = NoQuestion
  /\ preferences = [mode |-> "none", auto |-> FALSE, config |-> "none"]
  /\ disk = [n \in Name |-> "absent"] /\ activeConf = [name |-> "none", state |-> "absent"]
  /\ peers = {} /\ unit = NoUnit /\ surprises = 0 /\ changes = 0

RingsRest ==
  /\ lines = EmptyRing(0) /\ samples = EmptyRing(0) /\ graph = FALSE
  /\ logged = <<>> /\ sampled = <<>>

PlatformRests ==
  /\ setup = [system |-> "windows", stacks |-> {"v4"}, domain |-> FALSE, others |-> FALSE]
  /\ upsets = 0 /\ where = "dispose" /\ todo = << >> /\ pinned = NoAddress /\ known = NothingKnown
  /\ device = NoDevice /\ hostRoutes = {} /\ inherited = {} /\ uplinkNow = "wifi"

OperatorInit ==
  /\ subject \in {"sessions", "window", "screens", "rings", "platform"}
  /\ IF subject = "sessions" THEN Init ELSE SessionsRest
  /\ SlidingInit
  /\ IF subject = "screens" THEN ConfiguratorInit ELSE ScreensRest
  /\ IF subject = "rings" THEN RingInit ELSE RingsRest
  /\ IF subject = "platform" THEN PlatformInit ELSE PlatformRests

OperatorNext ==
  /\ subject' = subject
  /\ \/ subject = "sessions" /\ Next /\ UNCHANGED <<slidingVars, configuratorVars, ringVars, platformVars>>
     \/ subject = "window" /\ SlidingNext /\ UNCHANGED <<vars, configuratorVars, ringVars, platformVars>>
     \/ subject = "screens" /\ ConfiguratorNext /\ UNCHANGED <<vars, slidingVars, ringVars, platformVars>>
     \/ subject = "rings" /\ RingNext /\ UNCHANGED <<vars, slidingVars, configuratorVars, platformVars>>
     \/ subject = "platform" /\ PlatformNext /\ UNCHANGED <<vars, slidingVars, configuratorVars, ringVars>>

OperatorSpec == OperatorInit /\ [][OperatorNext]_operatorVars
=============================================================================
