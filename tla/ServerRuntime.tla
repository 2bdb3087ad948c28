---------------------------- MODULE ServerRuntime ----------------------------
(***************************************************************************)
(* The server of a Linux machine from Run to its end: the cleanup before   *)
(* and after, the TUN device and the firewall rules of every protocol, the *)
(* group of tunnels, and what a crash of the process leaves to the next.   *)
(*                                                                         *)
(* A rule of iptables is appended as often as it is enabled, and one       *)
(* deletion deletes one copy: the model counts the copies.  Links and      *)
(* rules outlive the process; devices and sockets do not.  While a tunnel  *)
(* is created every command may fail; a deletion fails only when there is  *)
(* nothing to delete.                                                      *)
(***************************************************************************)
EXTENDS MssClamp, Sequences

CONSTANTS
  ProfileOrder,   \* the profiles of the configuration, in their order
  Backends,       \* what the MSS manager may find: "iptables" or "nft"
  Ip6Tables,      \* whether it may find that ip6tables works
  MaxMishaps      \* bound of the model: how many things go wrong by themselves

Profile == {ProfileOrder[i] : i \in DOMAIN ProfileOrder}

ASSUME ServerRuntimeAssumption ==
  /\ ProfileOrder \in Seq(Profile)
  /\ Backends \subseteq {"iptables", "nft"} /\ Ip6Tables \subseteq BOOLEAN
  /\ MaxMishaps \in Nat

VARIABLES
  mishaps,        \* how many things went wrong so far
  enabled,        \* the profiles the configuration enables, and whether the
                  \* subnets include one of IPv6
  uplink,         \* the machine has a default route
  kernel,         \* links, firewall rules and MSS rules
  phase,          \* where run is
  toDispose,      \* profiles a cleanup has not disposed of yet
  toCreate,       \* profiles that are still to be started
  step,           \* the command createTunnel is about to issue
  tunnels,        \* state of every tunnel
  open,           \* profiles whose TUN device is open
  listening,      \* profiles whose socket is open
  groupDone,      \* groupCtx is cancelled
  serverStop,     \* the context of Run is cancelled
  missed          \* teardowns that left rules: no uplink, or a crash

process == <<phase, toDispose, toCreate, step, tunnels, open, listening, groupDone, serverStop>>
serverVars == <<mishaps, enabled, uplink, kernel, process, missed>>

FirewallRule == {"nat4", "nat6", "fwd4", "back4", "hair4", "fwd6", "back6", "hair6"}
NatRule == {"nat4", "nat6"}
Rule6 == {"nat6", "fwd6", "back6", "hair6"}
HairRule == {"hair4", "hair6"}

Needed(rule) == rule \in Rule6 => enabled.ipv6

CreateSteps ==
  IF enabled.ipv6
    THEN <<"sysctl", "tun", "name", "uplink", "nat4", "nat6", "fwd4", "back4", "hair4",
           "fwd6", "back6", "hair6", "mss", "wrap", "listen">>
    ELSE <<"sysctl", "tun", "name", "uplink", "nat4", "fwd4", "back4", "hair4", "mss", "wrap", "listen">>

IndexOfStep(s) == CHOOSE i \in DOMAIN CreateSteps : CreateSteps[i] = s
StepAfter(s) == CreateSteps[IndexOfStep(s) + 1]
StepDone(s) == IndexOfStep(s) < IndexOfStep(step)

(* The profiles are started in the order of the configuration. *)
NextProfile ==
  ProfileOrder[CHOOSE i \in DOMAIN ProfileOrder :
                 /\ ProfileOrder[i] \in toCreate
                 /\ \A j \in 1 .. (i - 1) : ProfileOrder[j] \notin toCreate]

Configurations == [profiles : SUBSET Profile, ipv6 : BOOLEAN]

ProcessStarts ==
  /\ phase' = "preflight"
  /\ toDispose' = Profile
  /\ toCreate' = {}
  /\ step' = "sysctl"
  /\ tunnels' = [p \in Profile |-> "none"]
  /\ open' = {} /\ listening' = {}
  /\ groupDone' = FALSE
  /\ serverStop' = FALSE

ServerInit ==
  /\ mishaps = 0
  /\ enabled \in Configurations
  /\ uplink = TRUE
  /\ \E backend \in Backends, ip6 \in Ip6Tables :
       kernel = [links |-> {},
                 rules |-> [p \in Profile |-> [r \in FirewallRule |-> 0]],
                 clamp |-> NewClamp(Profile, backend, ip6)]
  /\ phase = "preflight"
  /\ toDispose = Profile
  /\ toCreate = {}
  /\ step = "sysctl"
  /\ tunnels = [p \in Profile |-> "none"]
  /\ open = {} /\ listening = {}
  /\ groupDone = FALSE
  /\ serverStop = FALSE
  /\ missed = [p \in Profile |-> [rules |-> 0, clamp |-> 0]]

Mishap(forced) ==
  IF forced THEN mishaps' = mishaps
  ELSE mishaps < MaxMishaps /\ mishaps' = mishaps + 1

-----------------------------------------------------------------------------
(* Firewall. *)

Decremented(rules, p, gone) ==
  [rules EXCEPT ![p] = [r \in FirewallRule |->
     IF r \in gone /\ @[r] > 0 THEN @[r] - 1 ELSE @[r]]]

(* The rules teardown deletes, in its order. *)
TeardownOrder ==
  IF uplink THEN <<"fwd4", "back4", "fwd6", "back6", "nat4", "nat6", "hair4", "hair6">>
  ELSE <<"hair4", "hair6">>

TeardownRules(n) == {TeardownOrder[i] : i \in 1 .. n}

TornDown(k, p) ==
  [links |-> k.links \ {p},
   rules |-> Decremented(k.rules, p, TeardownRules(Len(TeardownOrder))),
   clamp |-> RemoveClamp(k.clamp, p)]

(* A teardown without an external interface leaves the rules that name it. *)
MissedBy(p) ==
  IF uplink THEN missed ELSE [missed EXCEPT ![p].rules = @ + 1]

(* What configure takes back when its command fails: only the groups of    *)
(* rules that are complete.                                                *)
RolledBack(p) ==
  LET done == {r \in NatRule : Needed(r) /\ StepDone(r)}
      forwarding == IF step = "mss" THEN {r \in FirewallRule \ NatRule : Needed(r)} ELSE {}
  IN  [kernel EXCEPT !.rules = Decremented(@, p, done \cup forwarding)]

-----------------------------------------------------------------------------
(* Cleanup: DisposeDevices of all profiles, whether enabled or not.        *)

CleanupScopeEnabled == enabled.profiles  \* mutant: a disabled profile is not cleaned up
CleanupScope == Profile

Dispose(p) ==
  /\ phase \in {"preflight", "postflight"}
  /\ p \in toDispose
  /\ toDispose' = toDispose \ {p}
  /\ IF p \in CleanupScope
       THEN kernel' = TornDown(kernel, p) /\ missed' = MissedBy(p)
       ELSE UNCHANGED <<kernel, missed>>
  /\ UNCHANGED <<mishaps, enabled, uplink, phase, toCreate, step, tunnels, open, listening, groupDone, serverStop>>

CleanupEnds ==
  /\ phase \in {"preflight", "postflight"}
  /\ toDispose = {}
  /\ phase' = IF phase = "preflight" THEN "create" ELSE "watcher"
  /\ toCreate' = IF phase = "preflight" THEN enabled.profiles ELSE {}
  /\ step' = "sysctl"
  /\ UNCHANGED <<mishaps, enabled, uplink, kernel, toDispose, tunnels, open, listening, groupDone, serverStop, missed>>

-----------------------------------------------------------------------------
(* createTunnel, one command after another. *)

Creating(s) == phase = "create" /\ toCreate # {} /\ step = s

Added(p) == [kernel EXCEPT !.rules[p][step] = @ + 1]

AfterCommand(p) ==
  CASE step = "tun" -> [kernel EXCEPT !.links = @ \cup {p}]
    [] step \in FirewallRule -> Added(p)
    [] step = "mss" -> [kernel EXCEPT !.clamp = InstallSucceeds(@, p)]
    [] OTHER -> kernel

Command(s) ==
  LET p == NextProfile IN
  /\ Creating(s)
  /\ s = "uplink" => uplink
  /\ kernel' = AfterCommand(p)
  /\ open' = IF s = "tun" THEN open \cup {p} ELSE open
  /\ IF s = "listen"
       THEN /\ listening' = listening \cup {p}
            /\ tunnels' = [tunnels EXCEPT ![p] = "running"]
            /\ toCreate' = toCreate \ {p}
            /\ step' = "sysctl"
       ELSE /\ step' = StepAfter(s)
            /\ UNCHANGED <<listening, tunnels, toCreate>>
  /\ UNCHANGED <<mishaps, enabled, uplink, phase, toDispose, groupDone, serverStop, missed>>

(* What CreateDevice leaves when its command fails. *)
AfterCommandFailed(p) ==
  CASE step \in {"sysctl", "listen"} -> {kernel}
    [] step = "tun" -> {[kernel EXCEPT !.links = @ \ {p}]}
    [] step \in {"name", "uplink", "wrap"} -> {TornDown(kernel, p)}
    [] step = "mss" -> {TornDown([RolledBack(p) EXCEPT !.clamp = c], p) : c \in InstallFails(kernel.clamp, p)}
    [] step \in FirewallRule -> {TornDown(RolledBack(p), p)}

CommandFails(s) ==
  LET p == NextProfile
      disposes == s \notin {"sysctl", "tun", "listen"}
  IN
  /\ Creating(s)
  /\ Mishap(s = "uplink" /\ ~uplink)
  /\ kernel' \in AfterCommandFailed(p)
  /\ missed' = IF disposes THEN MissedBy(p) ELSE missed
  /\ open' = open \ {p}
  /\ toCreate' = {}
  /\ groupDone' = TRUE
  /\ phase' = "wait"
  /\ UNCHANGED <<enabled, uplink, toDispose, step, tunnels, listening, serverStop>>

AllStarted ==
  /\ phase = "create"
  /\ toCreate = {}
  /\ phase' = "wait"
  /\ UNCHANGED <<mishaps, enabled, uplink, kernel, toDispose, toCreate, step, tunnels, open, listening,
                 groupDone, serverStop, missed>>

-----------------------------------------------------------------------------
(* The group of tunnels. *)

(* A direction of the tunnel fails, or the group's context is done.  The   *)
(* first error cancels the group.                                          *)
TunnelResult == groupDone \/ serverStop

CancelsGroupNot == groupDone  \* mutant: the error of a tunnel is only logged
CancelsGroup == TRUE

TunnelReturns(p) ==
  /\ tunnels[p] = "running"
  /\ Mishap(TunnelResult)
  /\ tunnels' = [tunnels EXCEPT ![p] = "returned"]
  /\ open' = open \ {p}
  /\ groupDone' = CancelsGroup
  /\ UNCHANGED <<enabled, uplink, kernel, phase, toDispose, toCreate, step, listening, serverStop, missed>>

(* A goroutine of each tunnel closes its socket when the context is done;  *)
(* nothing waits for it.                                                   *)
CloseSocket(p) ==
  /\ p \in listening
  /\ groupDone \/ serverStop
  /\ listening' = listening \ {p}
  /\ UNCHANGED <<mishaps, enabled, uplink, kernel, phase, toDispose, toCreate, step, tunnels, open,
                 groupDone, serverStop, missed>>

GroupEnded == \A p \in Profile : tunnels[p] # "running"

GroupWaited ==
  /\ phase = "wait"
  /\ GroupEnded
  /\ groupDone' = TRUE
  /\ phase' = "postflight"
  /\ toDispose' = Profile
  /\ UNCHANGED <<mishaps, enabled, uplink, kernel, toCreate, step, tunnels, open, listening, serverStop, missed>>

(* Run cancels the configuration's watcher and waits for it.               *)
WatcherDone ==
  /\ phase = "watcher"
  /\ phase' = "done"
  /\ UNCHANGED <<mishaps, enabled, uplink, kernel, toDispose, toCreate, step, tunnels, open, listening,
                 groupDone, serverStop, missed>>

-----------------------------------------------------------------------------
(* The environment. *)

StopServer ==
  /\ ~serverStop
  /\ phase # "crashed"
  /\ serverStop' = TRUE
  /\ UNCHANGED <<mishaps, enabled, uplink, kernel, phase, toDispose, toCreate, step, tunnels, open, listening,
                 groupDone, missed>>

UplinkChanges ==
  /\ Mishap(~uplink)
  /\ uplink' = ~uplink
  /\ UNCHANGED <<enabled, kernel, process, missed>>

(* What a crash between two commands of a teardown leaves.                 *)
HalfTornDown(p) ==
  LET all == Len(TeardownOrder)
      ruled(n) == [kernel EXCEPT !.rules = Decremented(@, p, TeardownRules(n))]
  IN  {ruled(n) : n \in 0 .. all - 1}
        \cup {[ruled(all) EXCEPT !.clamp = c] : c \in CutShort(kernel.clamp, p)}
        \cup {[ruled(all) EXCEPT !.clamp = RemoveClamp(@, p)]}

ProcessDies ==
  /\ phase' = "crashed"
  /\ toDispose' = {} /\ toCreate' = {} /\ step' = "sysctl"
  /\ tunnels' = [p \in Profile |-> "none"]
  /\ open' = {} /\ listening' = {}
  /\ groupDone' = FALSE /\ serverStop' = FALSE

Crash ==
  /\ phase \notin {"done", "crashed"}
  /\ Mishap(FALSE)
  /\ ProcessDies
  /\ UNCHANGED <<enabled, uplink, kernel, missed>>

CrashInTeardown(p) ==
  /\ phase \in {"preflight", "postflight"}
  /\ p \in toDispose
  /\ Mishap(FALSE)
  /\ kernel' \in HalfTornDown(p)
  /\ missed' = [missed EXCEPT ![p].clamp = @ + (IF Unclamped(kernel'.clamp, p) THEN 0 ELSE 1)]
  /\ ProcessDies
  /\ UNCHANGED <<enabled, uplink>>

(* The machine's service manager or the user starts the server again; the  *)
(* configuration may have been edited.                                     *)
Restart ==
  /\ phase = "crashed"
  /\ \E profiles \in SUBSET Profile : enabled' = [enabled EXCEPT !.profiles = profiles]
  /\ ProcessStarts
  /\ UNCHANGED <<mishaps, uplink, kernel, missed>>

-----------------------------------------------------------------------------
ServerSteps ==
  \/ \E p \in Profile : Dispose(p) \/ CloseSocket(p)
  \/ CleanupEnds \/ AllStarted \/ GroupWaited \/ WatcherDone
  \/ \E s \in {CreateSteps[i] : i \in DOMAIN CreateSteps} : Command(s) \/ CommandFails(s)

ServerNext ==
  \/ ServerSteps
  \/ \E p \in Profile : TunnelReturns(p) \/ CrashInTeardown(p)
  \/ StopServer \/ UplinkChanges \/ Crash \/ Restart

ServerSpec == ServerInit /\ [][ServerNext]_serverVars

ServerFairness ==
  /\ WF_serverVars(ServerSteps)
  /\ WF_serverVars(TunnelResult /\ \E p \in Profile : TunnelReturns(p))

ServerFairSpec == ServerSpec /\ ServerFairness

-----------------------------------------------------------------------------
(* "Install applies MSS clamping for the given TUN interface": while the   *)
(* tunnel of that interface runs.                                          *)
ServingIsClamped ==
  \A p \in Profile : tunnels[p] = "running" => Clamped(kernel.clamp, p)

(* A tunnel that runs has its link and its rules: neither the creation nor *)
(* the failure of another one takes them away.                             *)
TunnelsAreConfigured ==
  \A p \in Profile : tunnels[p] = "running" =>
    /\ p \in kernel.links
    /\ \A r \in FirewallRule : Needed(r) => kernel.rules[p][r] > 0

Kernel ==
  [links : SUBSET Profile, rules : [Profile -> [FirewallRule -> Nat]], clamp : ClampOf(Profile)]

ServerTypes ==
  /\ mishaps \in 0 .. MaxMishaps
  /\ enabled \in Configurations
  /\ uplink \in BOOLEAN
  /\ kernel \in Kernel
  /\ phase \in {"preflight", "create", "wait", "postflight", "watcher", "done", "crashed"}
  /\ toDispose \subseteq Profile /\ toCreate \subseteq Profile
  /\ step \in {CreateSteps[i] : i \in DOMAIN CreateSteps}
  /\ tunnels \in [Profile -> {"none", "running", "returned"}]
  /\ open \subseteq Profile /\ listening \subseteq Profile
  /\ groupDone \in BOOLEAN /\ serverStop \in BOOLEAN
  /\ missed \in [Profile -> [rules : Nat, clamp : Nat]]

(* run gives back nothing that it does not own any more: once the group    *)
(* was waited for no tunnel runs and no device is open, and a device is    *)
(* open only while its tunnel is created or runs.                          *)
DevicesOfTunnels ==
  /\ phase # "create" => toCreate = {}
  /\ \A p \in toCreate : tunnels[p] = "none"
  /\ phase = "preflight" => tunnels = [p \in Profile |-> "none"]
  /\ phase \notin {"create", "wait"} => open = {} /\ \A p \in Profile : tunnels[p] # "running"
  /\ \A p \in open : tunnels[p] = "running" \/ (toCreate # {} /\ p = NextProfile)

(* Nothing of a profile is left but what teardowns missed.                 *)
Clean(p) ==
  /\ p \notin kernel.links
  /\ \A r \in FirewallRule : kernel.rules[p][r] <= missed[p].rules
  /\ missed[p].clamp = 0 => Unclamped(kernel.clamp, p)

(* A cleanup leaves every profile clean, and a profile that was not        *)
(* started since then still is.                                            *)
CleanUntilStarted ==
  /\ phase \in {"preflight", "postflight"} => \A p \in Profile \ toDispose : Clean(p)
  /\ phase = "create" =>
       \A p \in Profile : tunnels[p] = "none" /\ ~(toCreate # {} /\ p = NextProfile) => Clean(p)
  /\ phase \in {"watcher", "done"} => \A p \in Profile : Clean(p)

(* What is there of the profile that is being started is what its commands *)
(* have added.                                                             *)
Issued(r) == Needed(r) /\ StepDone(r)

CreatedInOrder ==
  phase = "create" /\ toCreate # {} =>
    LET p == NextProfile IN
    /\ p \in kernel.links <=> StepDone("tun")
    /\ \A r \in FirewallRule :
         /\ Issued(r) => kernel.rules[p][r] > 0
         /\ ~Issued(r) => kernel.rules[p][r] <= missed[p].rules
    /\ IF StepDone("mss") THEN Clamped(kernel.clamp, p)
       ELSE missed[p].clamp = 0 => Unclamped(kernel.clamp, p)

(* Whatever happened, one life of the server adds one copy of a rule.      *)
OneCopyMore ==
  /\ OneBackend(kernel.clamp)
  /\ \A p \in Profile :
       /\ \A r \in FirewallRule : kernel.rules[p][r] <= missed[p].rules + 1
       /\ missed[p].clamp = 0 => Orderly(kernel.clamp, p)

(* A tunnel that runs is configured and its connections are clamped, and   *)
(* what the kernel has of the others is what this life of the server added *)
(* and what the teardowns of earlier lives missed.                         *)
ServerRuntimeInv ==
  /\ ServerTypes
  /\ DevicesOfTunnels
  /\ TunnelsAreConfigured
  /\ ServingIsClamped
  /\ CleanUntilStarted
  /\ CreatedInOrder
  /\ OneCopyMore

(* However often the server crashes and is started again, with whatever    *)
(* configuration: when its cleanup is done no link is left, and no more    *)
(* rules than teardowns were prevented from deleting.                      *)
NothingPilesUp ==
  LET swept == (phase = "create" /\ tunnels = [p \in Profile |-> "none"] /\ step = "sysctl")
               \/ phase \in {"watcher", "done"}
  IN  swept => \A p \in Profile : Clean(p)

(* A server that is stopped or loses one of its tunnels ends all of them,  *)
(* cleans up and returns, and its sockets are closed.                      *)
ServerEnds ==
  serverStop \/ groupDone \/ (\E p \in Profile : tunnels[p] = "returned")
    ~> phase \in {"done", "crashed"} /\ listening = {}
=============================================================================
