------------------------------ MODULE MCHosts ------------------------------
(***************************************************************************)
(* A Linux machine that runs a client or a server: a behaviour is about    *)
(* one of them (its subject) while the other rests, ended.                 *)
(***************************************************************************)
EXTENDS ClientRuntime, ServerRuntime

VARIABLE subject

hostsVars == <<clientVars, serverVars, subject>>

(* Constants of the configuration. *)
DualStack == {{"v4", "v6"}}
Literal == {[domain |-> FALSE, v4 |-> TRUE, v6 |-> b] : b \in BOOLEAN}
TwoProfiles == <<"tcp", "udp">>

-----------------------------------------------------------------------------
(* Parts at rest. *)

ClientRests ==
  /\ troubles = 0 /\ settings = [protocol |-> "udp", host |-> CHOOSE h \in ClientHosts : TRUE, ipv6 |-> FALSE]
  /\ stopping = TRUE /\ runner = "stopped" /\ forwarder = "idle" /\ cancelled = FALSE
  /\ budget = "none" /\ hook = "off" /\ adapter = NoAdapter /\ routeEndpoint = NoFamily
  /\ machine = NoMachine(NewClamp({"tun"}, "nft", FALSE)) /\ tunOpen = FALSE /\ outcome = "none"

ServerRests ==
  /\ mishaps = 0 /\ enabled = [profiles |-> {}, ipv6 |-> FALSE] /\ uplink = TRUE
  /\ kernel = [links |-> {}, rules |-> [p \in Profile |-> [r \in FirewallRule |-> 0]],
               clamp |-> NewClamp(Profile, "nft", FALSE)]
  /\ phase = "done" /\ toDispose = {} /\ toCreate = {} /\ step = "sysctl"
  /\ tunnels = [p \in Profile |-> "none"] /\ open = {} /\ listening = {}
  /\ groupDone = FALSE /\ serverStop = FALSE
  /\ missed = [p \in Profile |-> [rules |-> 0, clamp |-> 0]]

-----------------------------------------------------------------------------
HostsInit ==
  /\ subject \in {"client", "server"}
  /\ IF subject = "client" THEN ClientInit ELSE ClientRests
  /\ IF subject = "server" THEN ServerInit ELSE ServerRests

HostsNext ==
  /\ subject' = subject
  /\ \/ subject = "client" /\ ClientNext /\ UNCHANGED serverVars
     \/ subject = "server" /\ ServerNext /\ UNCHANGED clientVars

(* That of each part, for behaviours about it.                             *)
HostsFairness ==
  /\ WF_clientVars(subject = "client" /\ ForwarderSteps)
  /\ WF_clientVars(subject = "client" /\ RunnerSteps)
  /\ WF_clientVars(subject = "client" /\ SessionDone /\ TunnelEnds)
  /\ WF_serverVars(subject = "server" /\ ServerSteps)
  /\ WF_serverVars(subject = "server" /\ TunnelResult /\ \E p \in Profile : TunnelReturns(p))

HostsSpec == HostsInit /\ [][HostsNext]_hostsVars /\ HostsFairness
=============================================================================
