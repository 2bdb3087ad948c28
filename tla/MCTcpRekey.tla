----------------------------- MODULE MCTcpRekey -----------------------------
(***************************************************************************)
(* TcpRekey on two links in one run: the constants of the configuration    *)
(* are those of a link whose answers come within the interval (rekey V1),  *)
(* "Slow" is a session under rekey V2 whose answers may take longer, so    *)
(* that inits are repeated and acks sent again.  A behaviour is about one  *)
(* of these sessions, or about the TUN device of the machine whose client  *)
(* holds it, where that is Windows; the others stay as they are.           *)
(***************************************************************************)
EXTENDS TcpRekey, WintunDevice

VARIABLE link    \* "fast", "slow" or "device": what this behaviour is about

Slow == INSTANCE TcpRekey WITH
  V2 <- TRUE, SlowLink <- TRUE, MaxEpoch <- 2, MaxInFlight <- 2

linkVars == <<vars, deviceVars, link>>

DeviceRests ==
  /\ sessionRef = [s \in WintunSession |-> [Opened EXCEPT !.endedBy = "closer"]]
  /\ cur = NoSession /\ deviceClosed = TRUE /\ closeEvent = "gone" /\ reopenMu = NoSession
  /\ at = [t \in WintunThread |-> "stopped"] /\ ref = [t \in WintunThread |-> NoSession]
  /\ sequel = [t \in Op |-> "idle"]

LinkInit ==
  /\ link \in {"fast", "slow", "device"}
  /\ Init
  /\ IF link = "device" THEN DeviceInit ELSE DeviceRests

(* Nobody has to call a device; that calls do not block each other for     *)
(* ever is DeviceCloses.                                                   *)
LinkNext ==
  /\ link' = link
  /\ \/ link = "fast" /\ Next /\ UNCHANGED deviceVars
     \/ link = "slow" /\ Slow!Next /\ UNCHANGED deviceVars
     \/ link = "device" /\ DeviceNext /\ UNCHANGED vars
     \/ link = "device" /\ UNCHANGED <<vars, deviceVars>>

(* The threads of both ends go on while the connection lasts, and a frame  *)
(* on the wire arrives: that is what the byte stream provides.  Every loop *)
(* of the client's TUN thread ends by asking for a due rekey, the tunnel   *)
(* has uplink packets or the client pings, and a silent server is pinged.  *)
LinkFairness ==
  /\ SF_vars(link = "slow" /\ Slow!BuildRekeyInit)
  /\ SF_vars(link = "slow" /\ Slow!SendRekeyInit)
  /\ SF_vars(link = "slow" /\ (Slow!TunSend("client") \/ Slow!SendPing))
  /\ SF_vars(link = "slow" /\ (Slow!TunSend("server") \/ Slow!SendPing))
  /\ WF_vars(link = "slow" /\ Slow!ClientTakes)
  /\ WF_vars(link = "slow" /\ Slow!ServerHandles)
  /\ SF_vars(link = "slow" /\ Slow!SendReply)
  /\ WF_vars(link = "slow" /\ Slow!ServerActivate)
  /\ DeviceFairness

LinkSpec == LinkInit /\ [][LinkNext]_linkVars /\ LinkFairness

(* The keys of an epoch outlive the frames sealed under it: a session that *)
(* was retired has no frame on its way, and on the fast link every frame   *)
(* opens.  (With slow answers an exchange that V2 rejects at the client    *)
(* leaves the server one epoch ahead.)                                     *)
EpochsOutliveFrames ==
  /\ RetiredEpochIsDrained
  /\ link = "fast" => EveryFrameOpens

(* A rekey ends: the exchange the client started is answered and its       *)
(* transition is over, so that the next one may start; the epoch a server  *)
(* staged is taken into use and its transaction does not block the next    *)
(* one.  Or the session ends.                                              *)
SlowRekeysComplete ==
  /\ link = "slow" /\ pending # None
       ~> (pending = None /\ sm["client"].phase = "idle") \/ ~up
  /\ link = "slow" /\ sm["server"].phase # "idle"
       ~> (sm["server"].phase = "idle" /\ tx # None /\ Complete(tx)) \/ ~up
=============================================================================
