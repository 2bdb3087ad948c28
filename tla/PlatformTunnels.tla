-------------------------- MODULE PlatformTunnels --------------------------
(***************************************************************************)
(* The TUN device and the routes of a client on Windows and on macOS:      *)
(* sessions that dispose of what is there, dial the server over an address *)
(* the resolver gave, create the device command by command and roll back   *)
(* when one fails.  The machine keeps the routes to the server when the    *)
(* process dies; the device, its routes and its DNS go with the process.   *)
(*                                                                         *)
(* While a device is created the address of the server is known (the       *)
(* connection has it), so CreateDevice asks the resolver nothing;          *)
(* DisposeDevices of a new process does.                                   *)
(***************************************************************************)
EXTENDS Integers, Sequences

CONSTANTS
  MaxUpsets,      \* bound of the model: commands that fail, changes of the
                  \* uplink, and deaths of the process
  NoAddress       \* stands for no address

Stack == {"v4", "v6"}
ServerAddress == Stack \X {1, 2}

ASSUME PlatformAssumption == NoAddress \notin ServerAddress

Uplink == {"wifi", "cable"}

VARIABLES
  setup,          \* system, stacks of the tunnel, how the server is named, and
                  \* whether another profile names the same server
  upsets,         \* how many things went wrong so far
  where,          \* where the session is
  todo,           \* the commands CreateDevice has still to run
  pinned,         \* routeEndpoint
  known,          \* resolvedRouteIP4/6 and resolvedRouteIf4/6
  device,         \* split default routes, addresses and DNS of the device
  hostRoutes,     \* the routes to single addresses
  inherited,      \* those of a process that died
  uplinkNow       \* the interface that leads to the network

platformVars == <<setup, upsets, where, todo, pinned, known, device, hostRoutes, inherited, uplinkNow>>

NothingKnown == [f \in Stack |-> [to |-> NoAddress, via |-> "wifi"]]
NoDevice == [split |-> [f \in Stack |-> "none"], addresses |-> {}, dns |-> {}]

PlatformInit ==
  /\ setup \in [system : {"windows", "darwin"}, stacks : {{"v4"}, {"v6"}, Stack},
                domain : BOOLEAN, others : BOOLEAN]
  /\ upsets = 0
  /\ where = "dispose"
  /\ todo = << >>
  /\ pinned = NoAddress
  /\ known = NothingKnown
  /\ device = NoDevice
  /\ hostRoutes = {}
  /\ inherited = {}
  /\ uplinkNow = "wifi"

Upset == upsets < MaxUpsets /\ upsets' = upsets + 1

-----------------------------------------------------------------------------
(* CreateDevice: the commands in their order, for one family or for both.  *)

DualWindowsSplitFirst ==  \* mutant: the default routes before the server's
  <<<<"split", "v4">>, <<"split", "v6">>, <<"route", "v4">>, <<"route", "v6">>,
    <<"address", "v4">>, <<"address", "v6">>, <<"mtu", "">>, <<"dns", "">>>>
DualWindows ==
  <<<<"route", "v4">>, <<"route", "v6">>, <<"address", "v4">>, <<"address", "v6">>,
    <<"split", "v4">>, <<"split", "v6">>, <<"mtu", "">>, <<"dns", "">>>>
SingleWindows(f) ==
  <<<<"route", f>>, <<"address", f>>, <<"split", f>>, <<"mtu", "">>, <<"dns", "">>>>
DualDarwin ==
  <<<<"name", "">>, <<"route", "v4">>, <<"route", "v6">>, <<"address", "v4">>,
    <<"address", "v6">>, <<"split", "v4">>, <<"split", "v6">>>>
SingleDarwin(f) == <<<<"name", "">>, <<"route", f>>, <<"address", f>>, <<"split", f>>>>

Single == setup.stacks # Stack
OnlyStack == CHOOSE f \in setup.stacks : TRUE

Commands ==
  IF setup.system = "windows"
    THEN IF Single THEN SingleWindows(OnlyStack) ELSE DualWindows
    ELSE IF Single THEN SingleDarwin(OnlyStack) ELSE DualDarwin

RoutesTo(to) == {r \in hostRoutes : r.to = to}
HostRoute(to, via) == [to |-> to, via |-> via]

(* BestRoute, "route get": the longest prefix first, so a route to the     *)
(* very address wins, then one of the halves of a split default route.     *)
BestRoutes(to) ==
  IF RoutesTo(to) # {} THEN {r.via : r \in RoutesTo(to)}
  ELSE IF device.split[to[1]] = "both" THEN {"tunnel"} ELSE {uplinkNow}

(* addStaticRouteToServer4 and 6: nothing for the family the connection    *)
(* does not use; else what leads there already is deleted, and added again *)
(* as a route to this address.                                             *)
PinRoute(f) ==
  IF pinned[1] # f THEN UNCHANGED <<known, hostRoutes, inherited>>
  ELSE \E via \in BestRoutes(pinned) :
         /\ known' = [known EXCEPT ![f] = HostRoute(pinned, via)]
         /\ hostRoutes' = (hostRoutes \ RoutesTo(pinned)) \cup {HostRoute(pinned, via)}
         /\ inherited' = inherited \ RoutesTo(pinned)

WithAddress(f) == [device EXCEPT !.addresses = @ \cup {f}]
WithHalves(f) == [device EXCEPT !.split[f] = "both"]
WithResolvers == [device EXCEPT !.dns = setup.stacks]

OnDevice(command) ==
  CASE command[1] = "address" -> WithAddress(command[2])
    [] command[1] = "split" -> WithHalves(command[2])
    [] command[1] = "dns" -> WithResolvers
    [] OTHER -> device

(* The managers of one family on macOS hand out a device without address   *)
(* and routes when the server is reached over the other family.            *)
Bare(command) ==
  /\ setup.system = "darwin" /\ Single
  /\ command[1] = "route" /\ pinned[1] # command[2]

RunCommand ==
  /\ where = "create"
  /\ LET command == Head(todo)
     IN  /\ todo' = IF Bare(command) THEN << >> ELSE Tail(todo)
         /\ IF command[1] = "route" THEN PinRoute(command[2])
            ELSE UNCHANGED <<known, hostRoutes, inherited>>
         /\ device' = OnDevice(command)
  /\ where' = IF todo' = << >> THEN "tunnel" ELSE "create"
  /\ UNCHANGED <<setup, upsets, pinned, uplinkNow>>

-----------------------------------------------------------------------------
(* DisposeDevices. *)

(* What the resolver says of a family: an address of it, or an error.      *)
Resolvable(f) ==
  IF setup.domain THEN {<<f, 1>>, <<f, 2>>, NoAddress} ELSE {<<f, 1>>}
Replies == {[f \in Stack |-> IF f = "v4" THEN a ELSE b] : a \in Resolvable("v4"), b \in Resolvable("v6")}

(* resolveRouteIPv4 and 6: the connection's address, if there is one.      *)
RouteIP(f, reply) ==
  IF pinned = NoAddress THEN reply[f]
  ELSE IF pinned[1] = f THEN pinned ELSE NoAddress

(* The route of the last session, on its interface (on macOS on any), or   *)
(* every route to the address the server seems to have.                    *)
Removed(f, k, reply) ==
  IF k[f].to = NoAddress THEN RoutesTo(RouteIP(f, reply))
  ELSE IF setup.system = "windows" THEN {r \in RoutesTo(k[f].to) : r.via = k[f].via}
  ELSE RoutesTo(k[f].to)

DisposedRoutes(k, reply) == hostRoutes \ UNION {Removed(f, k, reply) : f \in setup.stacks}

(* disposeStale: the device of another profile, with what it resolves.     *)
StaleRoutes(reply) ==
  IF setup.others THEN UNION {RoutesTo(reply[f]) : f \in setup.stacks} ELSE {}

DisposeDevices ==
  /\ where \in {"dispose", "failed"}
  /\ \E reply, again \in Replies : hostRoutes' = DisposedRoutes(known, reply) \ StaleRoutes(again)
  /\ inherited' = inherited \cap hostRoutes'
  /\ device' = NoDevice
  /\ where' = "dial"
  /\ UNCHANGED <<setup, upsets, todo, pinned, known, uplinkNow>>

(* A command fails, after a part of its work or before it, and CreateDevice*)
(* rolls back.  The address of the route is remembered before it is added. *)
CreateFails ==
  /\ where = "create"
  /\ Upset
  /\ \E k \in {known, IF Head(todo)[1] = "route" /\ pinned[1] = Head(todo)[2]
                       THEN [known EXCEPT ![pinned[1]] = HostRoute(pinned, uplinkNow)] ELSE known},
        reply \in Replies, deleted \in {{}, RoutesTo(pinned)} :
       /\ known' = k
       /\ deleted # {} => Head(todo)[1] = "route" /\ pinned[1] = Head(todo)[2]
       /\ hostRoutes' = DisposedRoutes(k, reply) \ deleted
  /\ inherited' = inherited \cap hostRoutes'
  /\ device' = NoDevice
  /\ todo' = << >>
  /\ where' = "failed"
  /\ UNCHANGED <<setup, pinned, uplinkNow>>

-----------------------------------------------------------------------------
(* The session around it. *)

Dialled(f) == IF setup.domain THEN {<<f, 1>>, <<f, 2>>} ELSE {<<f, 1>>}

Connect ==
  /\ where = "dial"
  /\ \E f \in Stack : \E a \in Dialled(f) : pinned' = a
  /\ todo' = Commands
  /\ where' = "create"
  /\ UNCHANGED <<setup, upsets, known, device, hostRoutes, inherited, uplinkNow>>

ConnectFails ==
  /\ where = "dial"
  /\ pinned' = NoAddress
  /\ where' = "dispose"
  /\ UNCHANGED <<setup, upsets, todo, known, device, hostRoutes, inherited, uplinkNow>>

SessionEnds ==
  /\ where = "tunnel"
  /\ where' = "dispose"
  /\ UNCHANGED <<setup, upsets, todo, pinned, known, device, hostRoutes, inherited, uplinkNow>>

UplinkMoves ==
  /\ Upset
  /\ uplinkNow' \in Uplink \ {uplinkNow}
  /\ UNCHANGED <<setup, where, todo, pinned, known, device, hostRoutes, inherited>>

ProcessExits ==
  /\ Upset
  /\ where' = "dispose"
  /\ todo' = << >>
  /\ pinned' = NoAddress
  /\ known' = NothingKnown
  /\ device' = NoDevice
  /\ inherited' = hostRoutes
  /\ UNCHANGED <<setup, hostRoutes, uplinkNow>>

PlatformNext ==
  \/ DisposeDevices \/ Connect \/ ConnectFails
  \/ RunCommand \/ CreateFails
  \/ SessionEnds
  \/ UplinkMoves \/ ProcessExits

PlatformSpec == PlatformInit /\ [][PlatformNext]_platformVars

-----------------------------------------------------------------------------
Splits == {f \in Stack : device.split[f] # "none"}

NeverThroughItself ==
  /\ where = "dial" => Splits = {}
  /\ where \in {"create", "tunnel"} /\ pinned[1] \in Splits
       => \E r \in RoutesTo(pinned) : r.via # "tunnel"

LeavesNothing ==
  where \in {"dial", "failed"} => Splits = {} /\ device.dns = {} /\ hostRoutes \subseteq inherited

Configured ==
  \/ Splits = setup.stacks /\ device.addresses = setup.stacks
  \/ setup.system = "darwin" /\ Single /\ device = NoDevice /\ pinned[1] \notin setup.stacks

(* The connection never runs through the tunnel it carries, whatever was   *)
(* on the machine before; a CreateDevice that failed and the disposal that *)
(* comes before every session leave no default route, no DNS server and no *)
(* route of this process, whichever addresses and uplinks it has seen; and *)
(* a tunnel that is up has addresses and routes of all its families.       *)
PlatformTunnelsSound ==
  /\ NeverThroughItself
  /\ LeavesNothing
  /\ where = "tunnel" => Configured
=============================================================================
