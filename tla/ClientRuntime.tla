---------------------------- MODULE ClientRuntime ----------------------------
(***************************************************************************)
(* The client of a Linux machine from Run to its end: the reconnect loop,  *)
(* the goroutine that establishes a session and forwards packets, the      *)
(* choice of the server's address, the deadline of the handshake, and the  *)
(* TUN device with its routes.                                             *)
(*                                                                         *)
(* Two goroutines take turns: the runner (run, runSession) disposes of the *)
(* device, starts the forwarder and waits for it in every branch.  What    *)
(* comes between them are the stop of the client, a resume of the machine, *)
(* the deadline and the callback that closes the connection when the       *)
(* deadline passes.  Every command of the operating system may fail while  *)
(* the device is set up; when it is torn down a command fails only because *)
(* what it deletes is not there.                                           *)
(***************************************************************************)
EXTENDS MssClamp, Sequences

CONSTANTS
  ClientHosts,    \* the server hosts a configuration may name: records of
                  \* BOOLEAN fields domain, v4, v6
  Answers,        \* the sets of address families the resolver may return
  MaxTroubles,    \* bound of the model: how many things go wrong by themselves
  NoFamily        \* stands for no address

Family == {"v4", "v6"}

ASSUME ClientAssumption == MaxTroubles \in Nat /\ NoFamily \notin Family

VARIABLES
  troubles,       \* how many things went wrong so far
  settings,       \* protocol, server host, and whether the tunnel has IPv6
  stopping,       \* the context of Run is cancelled
  runner,         \* where run and runSession are
  forwarder,      \* where the forward goroutine is
  cancelled,      \* the context of the session is cancelled
  budget,         \* the context of establishConnection
  hook,           \* the callback of context.AfterFunc
  adapter,        \* the connection: is it open, and to which address family
  routeEndpoint,  \* Manager.routeEndpoint
  machine,        \* link, host routes, split default routes, MSS rules
  tunOpen,        \* the descriptor of the TUN device is open
  outcome         \* what forward returns

session == <<cancelled, budget, hook, adapter, outcome>>
clientVars == <<settings, troubles, stopping, runner, forwarder, session, routeEndpoint, machine, tunOpen>>

Runner == {"dispose", "select", "drainStop", "drainResume", "backoff", "lastDispose", "stopped"}
Establishing == {"dial", "handshake", "crypto", "check"}
Closing == {"closeDevice", "closeAdapter"}
ConfigSteps == {"link", "addresses", "hostRoute", "hostRoute6", "split4", "split6", "mtu", "mss", "open", "wrap"}
Forwarder == {"idle", "start", "attach", "tunnel", "returned"} \cup Establishing \cup ConfigSteps \cup Closing

Settings ==
  [protocol : {"udp", "tcp", "ws"}, host : ClientHosts, ipv6 : BOOLEAN]

NoMachine(clamp) ==
  [link |-> FALSE, hosts |-> {}, split |-> {}, clamp |-> clamp]

NoAdapter == [open |-> FALSE, family |-> NoFamily]

ClientInit ==
  /\ troubles = 0
  /\ settings \in Settings
  /\ stopping = FALSE
  /\ runner = "dispose"
  /\ forwarder = "idle"
  /\ cancelled = FALSE
  /\ budget = "none"
  /\ hook = "off"
  /\ adapter = NoAdapter
  /\ routeEndpoint = NoFamily
  /\ \E backend \in {"iptables", "nft"} :
       machine = NoMachine(NewClamp({"tun"}, backend, FALSE))
  /\ tunOpen = FALSE
  /\ outcome = "none"

(* Something goes wrong, unless it does so as a consequence of what went   *)
(* wrong before.                                                           *)
Trouble(forced) ==
  IF forced THEN troubles' = troubles
  ELSE troubles < MaxTroubles /\ troubles' = troubles + 1

-----------------------------------------------------------------------------
(* Addresses.  "dns" is what the resolver returns for the domain now.      *)

FirstOf(families) ==
  IF "v4" \in families THEN "v4" ELSE IF "v6" \in families THEN "v6" ELSE NoFamily

Literals(h) == {f \in Family : h[f]}

(* host.ResolveIP, resolvePreferredAddrPort *)
ResolveIP(h, dns) ==
  IF Literals(h) # {} THEN FirstOf(Literals(h))
  ELSE IF h.domain THEN FirstOf(dns) ELSE NoFamily

(* host.ResolveIPv6, resolveIPv6AddrPort *)
ResolveIPv6(h, dns) ==
  IF h.v6 \/ (h.domain /\ "v6" \in dns) THEN "v6" ELSE NoFamily

(* The addresses dialWithFallback and dialWSWithFallback try, in order.    *)
DialOrder(s, dns) ==
  LET pref == ResolveIP(s.host, dns)
      six == ResolveIPv6(s.host, dns)
      wsHost == IF s.host.domain THEN dns ELSE {FirstOf(Literals(s.host))}
  IN  CASE s.protocol = "udp" -> <<{pref}, {six}>>
        [] s.protocol = "tcp" -> <<{six}, {pref}>>
        [] s.protocol = "ws" -> <<IF s.host.v6 THEN {"v6"} ELSE {}, wsHost>>

(* A dial of a socket for UDP always succeeds; the others need the server. *)
DialResults(s, dns, reachable) ==
  LET order == DialOrder(s, dns)
      ok(i) == (order[i] \cap Family) \cap reachable
  IN  IF ok(1) # {} THEN ok(1) ELSE ok(2)

-----------------------------------------------------------------------------
(* Contexts.  The session's is derived from Run's, the one of              *)
(* establishConnection from the session's.                                 *)

SessionDone == stopping \/ cancelled
EstablishDone == SessionDone \/ budget \in {"expired", "released"}

Stop ==
  /\ ~stopping
  /\ stopping' = TRUE
  /\ UNCHANGED <<settings, troubles, runner, forwarder, session, routeEndpoint, machine, tunOpen>>

DeadlinePasses ==
  /\ budget = "live"
  /\ Trouble(FALSE)
  /\ budget' = "expired"
  /\ UNCHANGED <<settings, stopping, runner, forwarder, cancelled, hook, adapter, outcome,
                 routeEndpoint, machine, tunOpen>>

(* The callback starts in a goroutine of its own and closes the adapter.   *)
HookStarts ==
  /\ hook = "armed"
  /\ EstablishDone
  /\ hook' = "running"
  /\ UNCHANGED <<settings, troubles, stopping, runner, forwarder, cancelled, budget, adapter, outcome,
                 routeEndpoint, machine, tunOpen>>

HookCloses ==
  /\ hook = "running"
  /\ hook' = "off"
  /\ adapter' = [adapter EXCEPT !.open = FALSE]
  /\ UNCHANGED <<settings, troubles, stopping, runner, forwarder, cancelled, budget, outcome,
                 routeEndpoint, machine, tunOpen>>

-----------------------------------------------------------------------------
(* The forwarder: establishConnection, attachRouteEndpoint, CreateDevice,  *)
(* runTunnel.                                                              *)

ForwardEnds(result) ==
  /\ outcome' = result
  /\ budget' = "released"

Failure == IF SessionDone THEN "canceled" ELSE "error"

StartForward ==
  /\ forwarder = "start"
  /\ routeEndpoint' = NoFamily
  /\ budget' = "live"
  /\ forwarder' = "dial"
  /\ UNCHANGED <<settings, troubles, stopping, runner, cancelled, hook, adapter, outcome, machine, tunOpen>>

Dial ==
  /\ forwarder = "dial"
  /\ ~EstablishDone
  /\ \E dns \in Answers, reachable \in SUBSET Family :
       \E f \in DialResults(settings, dns, reachable) : adapter' = [open |-> TRUE, family |-> f]
  /\ hook' = "armed"
  /\ forwarder' = "handshake"
  /\ UNCHANGED <<settings, troubles, stopping, runner, cancelled, budget, outcome, routeEndpoint, machine, tunOpen>>

DialFails ==
  /\ forwarder = "dial"
  /\ Trouble(EstablishDone)
  /\ ForwardEnds(Failure)
  /\ forwarder' = "returned"
  /\ UNCHANGED <<settings, stopping, runner, cancelled, hook, adapter, routeEndpoint, machine, tunOpen>>

HandshakeSucceeds ==
  /\ forwarder = "handshake"
  /\ forwarder' = "crypto"
  /\ UNCHANGED <<settings, troubles, stopping, runner, session, routeEndpoint, machine, tunOpen>>

StopHookForgotten == hook  \* mutant: a context that ends later still closes the adapter
StopHook == IF hook = "armed" THEN "off" ELSE hook

(* Also an error of NewFromHandshake, which is met after the check below.  *)
(* closeOnce waits for a callback that is closing the adapter already.     *)
HandshakeFails ==
  /\ forwarder = "handshake"
  /\ Trouble(EstablishDone)
  /\ hook' = "off"
  /\ adapter' = [adapter EXCEPT !.open = FALSE]
  /\ ForwardEnds(Failure)
  /\ forwarder' = "returned"
  /\ UNCHANGED <<settings, stopping, runner, cancelled, routeEndpoint, machine, tunOpen>>

(* The callback is stopped before the context is consulted: one that has   *)
(* started by then had a context that was done, and the next step sees it. *)
StopDeadlineHook ==
  /\ forwarder = "crypto"
  /\ hook' = StopHook
  /\ forwarder' = "check"
  /\ UNCHANGED <<settings, troubles, stopping, runner, cancelled, budget, adapter, outcome,
                 routeEndpoint, machine, tunOpen>>

CheckDeadline ==
  /\ forwarder = "check"
  /\ IF EstablishDone
       THEN /\ adapter' = [adapter EXCEPT !.open = FALSE]
            /\ hook' = "off"
            /\ ForwardEnds(Failure)
            /\ forwarder' = "returned"
       ELSE /\ budget' = "released"
            /\ forwarder' = "attach"
            /\ UNCHANGED <<adapter, hook, outcome>>
  /\ UNCHANGED <<settings, troubles, stopping, runner, cancelled, routeEndpoint, machine, tunOpen>>

AttachRouteEndpoint ==
  /\ forwarder = "attach"
  /\ routeEndpoint' = adapter.family
  /\ forwarder' = "link"
  /\ UNCHANGED <<settings, troubles, stopping, runner, session, machine, tunOpen>>

-----------------------------------------------------------------------------
(* CreateDevice: configureTUN, the ioctl and the wrapper, one command      *)
(* after another.  What a failure leaves is there until the next session.  *)

ConfigOrderSplitFirst ==  \* mutant: the default routes before the server's
  <<"link", "addresses", "split4", "split6", "hostRoute", "hostRoute6", "mtu", "mss", "open", "wrap">>
ConfigOrder ==
  <<"link", "addresses", "hostRoute", "hostRoute6", "split4", "split6", "mtu", "mss", "open", "wrap">>

NextStep(step) ==
  LET i == CHOOSE j \in DOMAIN ConfigOrder : ConfigOrder[j] = step
  IN  IF i = Len(ConfigOrder) THEN "tunnel" ELSE ConfigOrder[i + 1]

(* The address the route to the server is for. *)
RouteTargets ==
  IF routeEndpoint # NoFamily THEN {routeEndpoint}
  ELSE {ResolveIP(settings.host, dns) : dns \in Answers} \ {NoFamily}

WithRoute(f) == [machine EXCEPT !.hosts = @ \cup {f}]
WithSplit(f) == [machine EXCEPT !.split = @ \cup {f}]

AfterStep(step) ==
  CASE step = "link" -> IF machine.link THEN {} ELSE {[machine EXCEPT !.link = TRUE]}
    [] step = "hostRoute" -> {WithRoute(f) : f \in RouteTargets \ machine.hosts}
    [] step = "hostRoute6" ->
         IF settings.host.v6 \/ routeEndpoint = "v6" THEN {machine, WithRoute("v6")} ELSE {machine}
    [] step = "split4" -> {WithSplit("v4")}
    [] step = "split6" -> {IF settings.ipv6 THEN WithSplit("v6") ELSE machine}
    [] step = "mss" -> {[machine EXCEPT !.clamp = InstallSucceeds(@, "tun")]}
    [] OTHER -> {machine}

(* The two halves of a split default route are two commands.               *)
AfterFailure(step) ==
  CASE step = "hostRoute6" -> {}
    [] step = "split4" -> {machine, WithSplit("v4")}
    [] step = "split6" -> IF settings.ipv6 THEN {machine, WithSplit("v6")} ELSE {}
    [] step = "mss" -> {[machine EXCEPT !.clamp = c] : c \in InstallFails(machine.clamp, "tun")}
    [] OTHER -> {machine}

ConfigureStep(step) ==
  /\ forwarder = step
  /\ machine' \in AfterStep(step)
  /\ forwarder' = NextStep(step)
  /\ tunOpen' = (NextStep(step) = "tunnel")
  /\ UNCHANGED <<settings, troubles, stopping, runner, session, routeEndpoint>>

ConfigureFails(step) ==
  /\ forwarder = step
  /\ Trouble(AfterStep(step) = {})
  /\ machine' \in AfterFailure(step)
  /\ outcome' = "error"
  /\ forwarder' = "closeAdapter"
  /\ UNCHANGED <<settings, stopping, runner, cancelled, budget, hook, adapter, routeEndpoint, tunOpen>>

(* What HandleTun and HandleTransport return: nil only when the context is *)
(* done, errors of the network, the device, the keepalive and the epochs.  *)
HandlerResults == IF SessionDone THEN {"nil", "error"} ELSE {"error"}

TunnelEnds ==
  /\ forwarder = "tunnel"
  /\ Trouble(SessionDone)
  /\ outcome' \in HandlerResults \cup (IF SessionDone THEN {"canceled"} ELSE {})
  /\ forwarder' = "closeDevice"
  /\ UNCHANGED <<settings, stopping, runner, cancelled, budget, hook, adapter, routeEndpoint, machine, tunOpen>>

CloseDevice ==
  /\ forwarder = "closeDevice"
  /\ tunOpen' = FALSE
  /\ forwarder' = "closeAdapter"
  /\ UNCHANGED <<settings, troubles, stopping, runner, session, routeEndpoint, machine>>

CloseAdapter ==
  /\ forwarder = "closeAdapter"
  /\ adapter' = [adapter EXCEPT !.open = FALSE]
  /\ forwarder' = "returned"
  /\ UNCHANGED <<settings, troubles, stopping, runner, cancelled, budget, hook, outcome, routeEndpoint, machine, tunOpen>>

-----------------------------------------------------------------------------
(* The runner. *)

DisposedPreferredOnly ==  \* mutant: the second route is forgotten
  {[link |-> FALSE, split |-> {}, clamp |-> RemoveClamp(machine.clamp, "tun"),
    hosts |-> machine.hosts \ {ResolveIP(settings.host, dns)}] : dns \in Answers}

(* DisposeDevices: the address of the server is resolved again.            *)
Disposed ==
  LET h == settings.host
  IN  {[link |-> FALSE, split |-> {}, clamp |-> RemoveClamp(machine.clamp, "tun"),
        hosts |-> machine.hosts \ ({ResolveIP(h, dns)} \cup (IF h.v6 THEN {"v6"} ELSE {}))]
         : dns \in Answers}

RunSession ==
  /\ runner = "dispose"
  /\ machine' \in Disposed
  /\ runner' = "select"
  /\ forwarder' = "start"
  /\ cancelled' = FALSE
  /\ budget' = "none"
  /\ outcome' = "none"
  /\ UNCHANGED <<settings, troubles, stopping, hook, adapter, routeEndpoint, tunOpen>>

SelectDone ==
  /\ runner = "select"
  /\ stopping
  /\ cancelled' = TRUE
  /\ runner' = "drainStop"
  /\ UNCHANGED <<settings, troubles, stopping, forwarder, budget, hook, adapter, outcome, routeEndpoint, machine, tunOpen>>

SelectResume ==
  /\ runner = "select"
  /\ Trouble(FALSE)
  /\ cancelled' = TRUE
  /\ runner' = "drainResume"
  /\ UNCHANGED <<settings, stopping, forwarder, budget, hook, adapter, outcome, routeEndpoint, machine, tunOpen>>

SelectForward ==
  /\ runner = "select"
  /\ forwarder = "returned"
  /\ forwarder' = "idle"
  /\ cancelled' = TRUE
  /\ runner' = IF outcome = "error" THEN "backoff" ELSE "lastDispose"
  /\ UNCHANGED <<settings, troubles, stopping, budget, hook, adapter, outcome, routeEndpoint, machine, tunOpen>>

Drained ==
  /\ runner \in {"drainStop", "drainResume"}
  /\ forwarder = "returned"
  /\ forwarder' = "idle"
  /\ runner' = IF runner = "drainResume" THEN "backoff" ELSE "lastDispose"
  /\ UNCHANGED <<settings, troubles, stopping, session, routeEndpoint, machine, tunOpen>>

Backoff ==
  /\ runner = "backoff"
  /\ runner' = IF stopping THEN "lastDispose" ELSE "dispose"
  /\ UNCHANGED <<settings, troubles, stopping, forwarder, session, routeEndpoint, machine, tunOpen>>

LastDispose ==
  /\ runner = "lastDispose"
  /\ machine' \in Disposed
  /\ runner' = "stopped"
  /\ UNCHANGED <<settings, troubles, stopping, forwarder, session, routeEndpoint, tunOpen>>

-----------------------------------------------------------------------------
ForwarderSteps ==
  \/ StartForward \/ Dial \/ DialFails
  \/ HandshakeSucceeds \/ HandshakeFails \/ StopDeadlineHook \/ CheckDeadline
  \/ AttachRouteEndpoint
  \/ \E step \in ConfigSteps : ConfigureStep(step) \/ ConfigureFails(step)
  \/ CloseDevice \/ CloseAdapter

RunnerSteps ==
  RunSession \/ SelectDone \/ SelectForward \/ Drained \/ Backoff \/ LastDispose

ClientNext ==
  \/ Stop \/ DeadlinePasses \/ HookStarts \/ HookCloses
  \/ ForwarderSteps \/ TunnelEnds
  \/ RunnerSteps \/ SelectResume

ClientSpec == ClientInit /\ [][ClientNext]_clientVars

(* The goroutines and the callback go on, and a tunnel ends when its       *)
(* context is done.                                                        *)
ClientFairness ==
  /\ WF_clientVars(ForwarderSteps)
  /\ WF_clientVars(RunnerSteps)
  /\ WF_clientVars(SessionDone /\ TunnelEnds)

ClientFairSpec == ClientSpec /\ ClientFairness

-----------------------------------------------------------------------------
Machine ==
  [link : BOOLEAN, hosts : SUBSET Family, split : SUBSET Family, clamp : ClampOf({"tun"})]

ClientTypes ==
  /\ troubles \in 0 .. MaxTroubles
  /\ settings \in Settings
  /\ runner \in Runner
  /\ forwarder \in Forwarder
  /\ stopping \in BOOLEAN /\ cancelled \in BOOLEAN /\ tunOpen \in BOOLEAN
  /\ budget \in {"none", "live", "expired", "released"}
  /\ hook \in {"off", "armed", "running"}
  /\ adapter \in [open : BOOLEAN, family : Family \cup {NoFamily}]
  /\ routeEndpoint \in Family \cup {NoFamily}
  /\ machine \in Machine
  /\ outcome \in {"none", "nil", "canceled", "error"}

(* Run returns only when the client was stopped, and then leaves no link,   *)
(* no default route and no MSS rule behind, whatever failed before.         *)
EndsOnlyStoppedAndClean ==
  runner = "stopped" =>
    /\ stopping
    /\ ~machine.link /\ machine.split = {}
    /\ Unclamped(machine.clamp, "tun")

(* There is at most one session, and nothing of it is open while the       *)
(* runner prepares the next.                                               *)
OneSession ==
  /\ runner \in {"dispose", "backoff", "lastDispose", "stopped"} <=> forwarder = "idle"
  /\ forwarder \in {"idle", "start", "dial", "returned"} => ~adapter.open
  /\ tunOpen => forwarder \in {"tunnel", "closeDevice"}

(* A connection that was handed out by establishConnection is closed by    *)
(* its owner only, never by the callback of its deadline: until the        *)
(* callback is stopped it closes the connection only when a context is     *)
(* done, which the forwarder checks afterwards.                            *)
ClosedByItsOwner ==
  /\ forwarder \in ConfigSteps \cup Closing \cup {"attach", "tunnel"} => adapter.open
  /\ forwarder \in {"handshake", "crypto", "check"} => adapter.open \/ EstablishDone
  /\ hook # "off" => forwarder \in {"handshake", "crypto", "check"}
  /\ forwarder = "check" => hook # "armed"
  /\ hook = "running" => EstablishDone
  /\ adapter.open => adapter.family \in Family

(* A session that ended without an error ended because of its context.     *)
ErrorUnlessCanceled ==
  /\ forwarder \in {"closeDevice", "closeAdapter", "returned"} => outcome # "none"
  /\ outcome \in {"nil", "canceled"} => SessionDone
  /\ runner = "select" => ~cancelled
  /\ runner \in {"drainStop", "lastDispose"} => stopping

(* What the commands issued so far have left on the machine, and nothing   *)
(* of the session before.                                                  *)
BeforeSplit == {"start", "attach", "link", "addresses", "hostRoute", "hostRoute6", "split4"} \cup Establishing
BeforeMss == {"split6", "mtu", "mss"} \cup BeforeSplit
Routed == {"hostRoute6", "split4", "split6", "mtu", "mss", "open", "wrap", "tunnel"}

ConfiguredInOrder ==
  /\ OneBackend(machine.clamp) /\ Orderly(machine.clamp, "tun")
  /\ forwarder \in BeforeMss => Unclamped(machine.clamp, "tun")
  /\ forwarder \in BeforeSplit => machine.split = {}
  /\ forwarder \in ConfigSteps \cup {"tunnel"} => routeEndpoint = adapter.family
  /\ forwarder \in Routed => routeEndpoint \in machine.hosts

(* A session follows the other, each has the connection it dialled until it *)
(* closes it, and a client that ends has cleaned up.                        *)
ClientInv ==
  /\ ClientTypes
  /\ EndsOnlyStoppedAndClean
  /\ OneSession
  /\ ClosedByItsOwner
  /\ ErrorUnlessCanceled
  /\ ConfiguredInOrder

(* The packets of the connection never enter the tunnel that they carry:   *)
(* nothing is dialled while the default routes lead into a tunnel, and     *)
(* they do not before the server's own route is there.                     *)
NeverTunnelsItself ==
  /\ forwarder \in {"dial", "handshake"} => machine.split = {}
  /\ adapter.open /\ adapter.family \in machine.split => adapter.family \in machine.hosts

(* "Run reconnects until the client is stopped": however a session is lost *)
(* it is replaced, and a client that is stopped ends and stays so.         *)
ReconnectsUntilStopped ==
  <>[](IF stopping THEN runner = "stopped" ELSE forwarder = "tunnel")
=============================================================================
