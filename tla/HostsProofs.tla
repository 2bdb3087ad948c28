----------------------------- MODULE HostsProofs -----------------------------
(***************************************************************************)
(* The client and the server of a Linux machine, proved for every          *)
(* configuration and however often commands fail, the uplink is lost or    *)
(* the process dies: what each holds while it runs, and what it leaves.    *)
(* And the client's tunnels on Windows and macOS, whatever the resolver    *)
(* and the routes of the machine say (PlatformTunnelsSound): the           *)
(* connection is not routed into its own tunnel, and what a session made   *)
(* is removed.                                                             *)
(***************************************************************************)
EXTENDS ClientRuntime, ServerRuntime, PlatformTunnels, WellFoundedInduction, SequenceTheorems, TLAPS

-----------------------------------------------------------------------------
(* The MSS rules. *)

(* An operation on the rules of one device: those of the others stay.      *)
ClampStep(tuns, c, d, t) ==
  /\ d \in ClampOf(tuns) /\ OneBackend(d)
  /\ d.backend = c.backend /\ d.ip6 = c.ip6
  /\ \A u \in tuns \ {t} : d.chains[u] = c.chains[u]
  /\ \A r \in d.table : r[1] = t \/ r \in c.table

(* Nothing is known of a device before its first rule.                     *)
LEMMA NewClampIsClean ==
  ASSUME NEW tuns, NEW backend \in {"iptables", "nft"}, NEW ip6 \in BOOLEAN
  PROVE  LET c == NewClamp(tuns, backend, ip6)
         IN  /\ c \in ClampOf(tuns) /\ OneBackend(c)
             /\ \A t \in tuns : Unclamped(c, t) /\ Orderly(c, t)
<1> DEFINE c == NewClamp(tuns, backend, ip6)
<1>1. c \in ClampOf(tuns) /\ OneBackend(c)
  BY DEF NewClamp, ClampOf, OneBackend
<1>2. ASSUME NEW t \in tuns PROVE Unclamped(c, t)
  BY DEF NewClamp, Unclamped
<1>3. ASSUME NEW t \in tuns PROVE Orderly(c, t)
  <2>1. 0 \in 0 .. LastRule(c)
    BY DEF LastRule
  <2>2. c.chains[t] = [i \in ClampRule |-> IF i <= 0 THEN 1 ELSE 0]
    BY DEF NewClamp, ClampRule
  <2> QED
    BY <2>1, <2>2 DEF Orderly
<1> QED
  BY <1>1, <1>2, <1>3

(* What becomes of the device the operation is not about.                  *)
LEMMA OtherDeviceKept ==
  ASSUME NEW tuns, NEW c, NEW d, NEW t, NEW u \in tuns, u # t, ClampStep(tuns, c, d, t)
  PROVE  /\ Unclamped(c, u) => Unclamped(d, u)
         /\ Orderly(c, u) => Orderly(d, u)
         /\ Clamped(c, u) /\ c.backend = "iptables" => Clamped(d, u)
  BY DEF ClampStep, Unclamped, Orderly, Clamped, LastRule

(* A device without rules is one whose first zero rules are there.         *)
LEMMA UnclampedIsOrderly ==
  ASSUME NEW tuns, NEW c \in ClampOf(tuns), NEW t \in tuns, Unclamped(c, t)
  PROVE  Orderly(c, t)
<1>1. 0 \in 0 .. LastRule(c)
  BY DEF LastRule
<1>2. c.chains[t] = [i \in ClampRule |-> IF i <= 0 THEN 1 ELSE 0]
  BY DEF Unclamped, ClampRule, ClampOf
<1> QED
  BY <1>1, <1>2 DEF Orderly

(* iptables: rules are appended one by one.                                *)
LEMMA AppendedRules ==
  ASSUME NEW tuns, NEW c \in ClampOf(tuns), OneBackend(c), c.backend = "iptables",
         NEW t \in tuns, NEW n \in 0 .. LastRule(c)
  PROVE  /\ ClampStep(tuns, c, Appended(c, t, n), t)
         /\ \A i \in ClampRule : Appended(c, t, n).chains[t][i] =
              IF i <= n THEN c.chains[t][i] + 1 ELSE c.chains[t][i]
         /\ Unclamped(c, t) => Orderly(Appended(c, t, n), t)
<1> DEFINE d == Appended(c, t, n)
           row == [i \in ClampRule |-> IF i <= n THEN c.chains[t][i] + 1 ELSE c.chains[t][i]]
<1>1. row \in [ClampRule -> Nat]
  BY DEF ClampOf, ClampRule
<1>2. d = [c EXCEPT !.chains = [c.chains EXCEPT ![t] = row]]
  BY DEF Appended, ClampOf
<1> HIDE DEF d, row
<1>3. c.chains \in [tuns -> [ClampRule -> Nat]]
  BY DEF ClampOf
<1> DEFINE chains == [c.chains EXCEPT ![t] = row]
<1>4. /\ chains \in [tuns -> [ClampRule -> Nat]]
      /\ chains[t] = row /\ \A u \in tuns \ {t} : chains[u] = c.chains[u]
  BY <1>1, <1>3
<1> HIDE DEF chains
<1>5. /\ d.backend = c.backend /\ d.ip6 = c.ip6 /\ d.table = c.table
      /\ d.chains[t] = row /\ \A u \in tuns \ {t} : d.chains[u] = c.chains[u]
      /\ d \in ClampOf(tuns)
  BY <1>2, <1>4 DEF ClampOf, chains
<1>6. ClampStep(tuns, c, d, t)
  BY <1>5 DEF ClampStep, OneBackend
<1>7. ASSUME Unclamped(c, t) PROVE Orderly(d, t)
  <2>1. row = [i \in ClampRule |-> IF i <= n THEN 1 ELSE 0]
    BY <1>7 DEF Unclamped, row
  <2>2. LastRule(d) = LastRule(c)
    BY <1>5 DEF LastRule
  <2> QED
    BY <1>5, <2>1, <2>2 DEF Orderly
<1> QED
  BY <1>5, <1>6, <1>7 DEF d, row

(* nftables: the table is built anew, for one device.                      *)
LEMMA RebuiltTable ==
  ASSUME NEW tuns, NEW c \in ClampOf(tuns), OneBackend(c), c.backend # "iptables",
         NEW t \in tuns, NEW n \in 0 .. 3
  PROVE  /\ ClampStep(tuns, c, Rebuilt(c, t, n), t)
         /\ Rebuilt(c, t, n).table = {t} \X (1 .. n)
         /\ Orderly(c, t) => Orderly(Rebuilt(c, t, n), t)
  BY DEF ClampStep, Rebuilt, ClampOf, OneBackend, Orderly, LastRule

(* A complete installation clamps, an incomplete one leaves the rules in   *)
(* order.                                                                  *)
LEMMA Installs ==
  ASSUME NEW tuns, NEW c \in ClampOf(tuns), OneBackend(c), NEW t \in tuns
  PROVE  /\ ClampStep(tuns, c, InstallSucceeds(c, t), t)
         /\ Clamped(InstallSucceeds(c, t), t)
         /\ Unclamped(c, t) => Orderly(InstallSucceeds(c, t), t)
<1> DEFINE d == InstallSucceeds(c, t)
<1>1. CASE c.backend = "iptables"
  <2>1. d = Appended(c, t, LastRule(c)) /\ LastRule(c) \in 0 .. LastRule(c)
    BY <1>1 DEF InstallSucceeds, LastRule
  <2>2. c.chains[t] \in [ClampRule -> Nat] /\ 1 .. LastRule(c) \subseteq ClampRule
    BY DEF ClampOf, ClampRule, LastRule
  <2>3. d.backend = "iptables" /\ LastRule(d) = LastRule(c)
    BY <1>1, <2>1, AppendedRules DEF ClampStep, LastRule
  <2>4. \A i \in 1 .. LastRule(c) : d.chains[t][i] = c.chains[t][i] + 1
    BY <1>1, <2>1, <2>2, AppendedRules
  <2>5. Clamped(d, t)
    BY <2>2, <2>3, <2>4 DEF Clamped
  <2> QED
    BY <1>1, <2>1, <2>5, AppendedRules
<1>2. CASE c.backend # "iptables"
  <2>1. d = Rebuilt(c, t, 3)
    BY <1>2 DEF InstallSucceeds
  <2>2. ClampStep(tuns, c, d, t) /\ d.table = {t} \X (1 .. 3) /\ (Orderly(c, t) => Orderly(d, t))
    BY <1>2, <2>1, RebuiltTable
  <2>3. Clamped(d, t)
    BY <1>2, <2>2 DEF Clamped, ClampStep
  <2> QED
    BY <2>2, <2>3, UnclampedIsOrderly
<1> QED
  BY <1>1, <1>2

LEMMA InstallsInPart ==
  ASSUME NEW tuns, NEW c \in ClampOf(tuns), OneBackend(c), NEW t \in tuns, NEW d \in InstallFails(c, t)
  PROVE  /\ ClampStep(tuns, c, d, t)
         /\ Unclamped(c, t) => Orderly(d, t)
<1>1. CASE c.backend = "iptables"
  <2>1. PICK n \in 0 .. LastRule(c) - 1 : d = Appended(c, t, n)
    BY <1>1 DEF InstallFails
  <2>2. n \in 0 .. LastRule(c)
    BY DEF LastRule
  <2> QED
    BY <1>1, <2>1, <2>2, AppendedRules
<1>2. CASE c.backend # "iptables"
  <2>1. CASE d = c
    BY <2>1, UnclampedIsOrderly DEF ClampStep
  <2>2. CASE \E n \in 0 .. 2 : d = Rebuilt(c, t, n)
    <3>1. PICK n \in 0 .. 3 : d = Rebuilt(c, t, n)
      BY <2>2
    <3> QED
      BY <1>2, <3>1, RebuiltTable, UnclampedIsOrderly
  <2> QED
    BY <1>2, <2>1, <2>2 DEF InstallFails
<1> QED
  BY <1>1, <1>2

(* The first rule that is missing.                                         *)
LEMMA FirstMissing ==
  ASSUME NEW S \in SUBSET (1 .. 7), S # {}
  PROVE  Min(S) \in S /\ \A i \in S : Min(S) <= i
<1>1. \E x \in S : \A y \in S : x <= y
  <2>1. CASE 1 \in S
    BY <2>1
  <2>2. CASE 2 \in S /\ 1 \notin S
    BY <2>2
  <2>3. CASE 3 \in S /\ S \cap (1 .. 2) = {}
    BY <2>3
  <2>4. CASE 4 \in S /\ S \cap (1 .. 3) = {}
    BY <2>4
  <2>5. CASE 5 \in S /\ S \cap (1 .. 4) = {}
    BY <2>5
  <2>6. CASE 6 \in S /\ S \cap (1 .. 5) = {}
    BY <2>6
  <2>7. CASE S \cap (1 .. 6) = {}
    <3>1. \A i \in S : i = 7
      BY <2>7
    <3>2. PICK x \in S : TRUE
      OBVIOUS
    <3> QED
      BY <3>1, <3>2
  <2> QED
    BY <2>1, <2>2, <2>3, <2>4, <2>5, <2>6, <2>7
<1> QED
  BY <1>1 DEF Min

(* A removal deletes one copy of every rule up to the first missing one:   *)
(* of rules that are in order, all.                                        *)
LEMMA DeletedRules ==
  ASSUME NEW tuns, NEW c \in ClampOf(tuns), OneBackend(c), c.backend = "iptables", NEW t \in tuns
  PROVE  /\ ClampStep(tuns, c, Deleted(c, t), t)
         /\ Orderly(c, t) => Unclamped(Deleted(c, t), t)
<1> DEFINE missing == {i \in 1 .. LastRule(c) : c.chains[t][i] = 0}
           stop == Min(missing \cup {7})
           row == [i \in ClampRule |-> IF i < stop /\ i <= LastRule(c) THEN c.chains[t][i] - 1
                                       ELSE c.chains[t][i]]
           d == Deleted(c, t)
<1>1. /\ LastRule(c) \in {3, 6} /\ c.chains \in [tuns -> [ClampRule -> Nat]]
      /\ missing \subseteq 1 .. 6
  BY DEF LastRule, ClampOf
<1>2. stop \in missing \cup {7} /\ \A i \in missing \cup {7} : stop <= i
  <2> HIDE DEF missing
  <2>1. missing \cup {7} \in SUBSET (1 .. 7) /\ missing \cup {7} # {}
    BY <1>1
  <2> QED
    BY <2>1, FirstMissing
<1> HIDE DEF stop
<1>3. row \in [ClampRule -> Nat]
  <2> SUFFICES ASSUME NEW i \in ClampRule, i < stop, i <= LastRule(c) PROVE c.chains[t][i] - 1 \in Nat
    BY <1>1
  <2>1. i \in 1 .. LastRule(c) /\ i \in Nat /\ stop \in Nat
    BY <1>1, <1>2 DEF ClampRule
  <2>2. i \notin missing
    BY <1>2, <2>1
  <2>3. c.chains[t][i] \in Nat /\ c.chains[t][i] # 0
    BY <1>1, <2>1, <2>2
  <2> QED
    BY <2>3
<1>4. d = [c EXCEPT !.chains = [c.chains EXCEPT ![t] = row]]
  BY DEF Deleted, ClampOf, stop
<1> HIDE DEF row, d
<1> DEFINE chains == [c.chains EXCEPT ![t] = row]
<1>5. /\ chains \in [tuns -> [ClampRule -> Nat]]
      /\ chains[t] = row /\ \A u \in tuns \ {t} : chains[u] = c.chains[u]
  BY <1>1, <1>3
<1> HIDE DEF chains
<1>6. /\ d.backend = c.backend /\ d.ip6 = c.ip6 /\ d.table = c.table
      /\ d.chains[t] = row /\ \A u \in tuns \ {t} : d.chains[u] = c.chains[u]
      /\ d \in ClampOf(tuns)
  BY <1>4, <1>5 DEF ClampOf, chains
<1>7. ClampStep(tuns, c, d, t)
  BY <1>6 DEF ClampStep, OneBackend
<1>8. ASSUME Orderly(c, t) PROVE Unclamped(d, t)
  <2>1. PICK n \in 0 .. LastRule(c) : c.chains[t] = [i \in ClampRule |-> IF i <= n THEN 1 ELSE 0]
    BY <1>8 DEF Orderly
  <2>2. \A i \in ClampRule : i <= n => i < stop
    BY <1>1, <1>2, <2>1 DEF ClampRule
  <2>3. \A i \in ClampRule : i > n /\ i <= LastRule(c) => ~(i < stop)
    <3>1. \A i \in ClampRule : i > n /\ i <= LastRule(c) => i \in missing
      BY <1>1, <2>1 DEF ClampRule
    <3> QED
      BY <1>1, <1>2, <3>1 DEF ClampRule
  <2>4. \A i \in ClampRule : row[i] = 0
    BY <1>1, <2>1, <2>2, <2>3 DEF row, ClampRule
  <2> QED
    BY <1>6, <2>4 DEF Unclamped, OneBackend
<1> QED
  BY <1>7, <1>8 DEF d

(* Removal.                                                                *)
LEMMA Removes ==
  ASSUME NEW tuns, NEW c \in ClampOf(tuns), OneBackend(c), NEW t \in tuns
  PROVE  /\ ClampStep(tuns, c, RemoveClamp(c, t), t)
         /\ Orderly(c, t) => Unclamped(RemoveClamp(c, t), t)
<1>1. CASE c.backend = "iptables"
  BY <1>1, DeletedRules DEF RemoveClamp
<1>2. CASE c.backend # "iptables"
  BY <1>2 DEF RemoveClamp, ClampStep, OneBackend, Unclamped, ClampOf
<1> QED
  BY <1>1, <1>2

(* A removal that is cut short deletes no more than a whole one.           *)
LEMMA RemovesInPart ==
  ASSUME NEW tuns, NEW c \in ClampOf(tuns), OneBackend(c), NEW t \in tuns, NEW d \in CutShort(c, t)
  PROVE  ClampStep(tuns, c, d, t)
<1>1. CASE c.backend = "iptables"
  <2> DEFINE row(n) == [i \in ClampRule |-> IF i <= n THEN Deleted(c, t).chains[t][i] ELSE c.chains[t][i]]
  <2>1. PICK n \in 0 .. LastRule(c) - 1 : d = [c EXCEPT !.chains = [c.chains EXCEPT ![t] = row(n)]]
    BY <1>1 DEF CutShort, ClampOf
  <2>2. Deleted(c, t).chains[t] \in [ClampRule -> Nat] /\ c.chains \in [tuns -> [ClampRule -> Nat]]
    BY <1>1, DeletedRules DEF ClampStep, ClampOf
  <2>3. row(n) \in [ClampRule -> Nat]
    BY <2>2
  <2> HIDE DEF row
  <2> DEFINE chains == [c.chains EXCEPT ![t] = row(n)]
  <2>4. /\ chains \in [tuns -> [ClampRule -> Nat]]
        /\ \A u \in tuns \ {t} : chains[u] = c.chains[u]
    BY <2>2, <2>3
  <2> HIDE DEF chains
  <2>5. /\ d.backend = c.backend /\ d.ip6 = c.ip6 /\ d.table = c.table
        /\ \A u \in tuns \ {t} : d.chains[u] = c.chains[u]
        /\ d \in ClampOf(tuns)
    BY <2>1, <2>4 DEF ClampOf, chains
  <2> QED
    BY <1>1, <2>5 DEF ClampStep, OneBackend
<1>2. CASE c.backend # "iptables"
  BY <1>2 DEF CutShort, ClampStep, OneBackend
<1> QED
  BY <1>1, <1>2

-----------------------------------------------------------------------------
(* The client. *)

ClientSound == ClientInv /\ NeverTunnelsItself

(* The commands of the setup follow each other in the order of the code.   *)
LEMMA ConfigPlaces ==
  /\ Len(ConfigOrder) = 10
  /\ \A i, j \in DOMAIN ConfigOrder : ConfigOrder[i] = ConfigOrder[j] => i = j
<1>1. /\ ConfigOrder[1] = "link" /\ ConfigOrder[2] = "addresses" /\ ConfigOrder[3] = "hostRoute"
      /\ ConfigOrder[4] = "hostRoute6" /\ ConfigOrder[5] = "split4" /\ ConfigOrder[6] = "split6"
      /\ ConfigOrder[7] = "mtu" /\ ConfigOrder[8] = "mss" /\ ConfigOrder[9] = "open"
      /\ ConfigOrder[10] = "wrap" /\ Len(ConfigOrder) = 10 /\ DOMAIN ConfigOrder = 1 .. 10
  BY DEF ConfigOrder
<1>2. ASSUME NEW i \in 1 .. 10, NEW j \in 1 .. 10, ConfigOrder[i] = ConfigOrder[j] PROVE i = j
  BY <1>1, <1>2
<1> QED
  BY <1>1, <1>2

LEMMA NextConfigStep ==
  ASSUME NEW i \in DOMAIN ConfigOrder
  PROVE  NextStep(ConfigOrder[i]) = IF i = 10 THEN "tunnel" ELSE ConfigOrder[i + 1]
<1> DEFINE j == CHOOSE k \in DOMAIN ConfigOrder : ConfigOrder[k] = ConfigOrder[i]
<1>1. j \in DOMAIN ConfigOrder /\ ConfigOrder[j] = ConfigOrder[i]
  OBVIOUS
<1>2. j = i
  BY <1>1, ConfigPlaces
<1> QED
  BY <1>2, ConfigPlaces DEF NextStep

LEMMA StepTable ==
  /\ NextStep("link") = "addresses" /\ NextStep("addresses") = "hostRoute"
  /\ NextStep("hostRoute") = "hostRoute6" /\ NextStep("hostRoute6") = "split4"
  /\ NextStep("split4") = "split6" /\ NextStep("split6") = "mtu"
  /\ NextStep("mtu") = "mss" /\ NextStep("mss") = "open"
  /\ NextStep("open") = "wrap" /\ NextStep("wrap") = "tunnel"
<1>1. /\ ConfigOrder[1] = "link" /\ ConfigOrder[2] = "addresses" /\ ConfigOrder[3] = "hostRoute"
      /\ ConfigOrder[4] = "hostRoute6" /\ ConfigOrder[5] = "split4" /\ ConfigOrder[6] = "split6"
      /\ ConfigOrder[7] = "mtu" /\ ConfigOrder[8] = "mss" /\ ConfigOrder[9] = "open"
      /\ ConfigOrder[10] = "wrap" /\ DOMAIN ConfigOrder = 1 .. 10
  BY DEF ConfigOrder
<1>2. \A i \in 1 .. 10 : NextStep(ConfigOrder[i]) = IF i = 10 THEN "tunnel" ELSE ConfigOrder[i + 1]
  BY <1>1, NextConfigStep
<1>3. /\ NextStep(ConfigOrder[1]) = ConfigOrder[2] /\ NextStep(ConfigOrder[2]) = ConfigOrder[3]
      /\ NextStep(ConfigOrder[3]) = ConfigOrder[4] /\ NextStep(ConfigOrder[4]) = ConfigOrder[5]
      /\ NextStep(ConfigOrder[5]) = ConfigOrder[6] /\ NextStep(ConfigOrder[6]) = ConfigOrder[7]
      /\ NextStep(ConfigOrder[7]) = ConfigOrder[8] /\ NextStep(ConfigOrder[8]) = ConfigOrder[9]
      /\ NextStep(ConfigOrder[9]) = ConfigOrder[10] /\ NextStep(ConfigOrder[10]) = "tunnel"
  BY <1>2
<1> QED
  BY <1>1, <1>3

LEMMA InitClient == ClientInit => ClientSound
<1> SUFFICES ASSUME ClientInit PROVE ClientSound
  OBVIOUS
<1>1. PICK backend \in {"iptables", "nft"} : machine = NoMachine(NewClamp({"tun"}, backend, FALSE))
  BY DEF ClientInit
<1>2. /\ machine.clamp \in ClampOf({"tun"}) /\ OneBackend(machine.clamp)
      /\ Unclamped(machine.clamp, "tun") /\ Orderly(machine.clamp, "tun")
  BY <1>1, NewClampIsClean DEF NoMachine
<1>3. machine \in Machine /\ machine.split = {}
  BY <1>1, <1>2 DEF NoMachine, Machine
<1>4. ClientTypes
  <2>1. troubles \in 0 .. MaxTroubles
    BY ClientAssumption DEF ClientInit
  <2>2. settings \in Settings /\ runner \in Runner /\ forwarder \in Forwarder
    BY DEF ClientInit, Runner, Forwarder
  <2>3. adapter \in [open : BOOLEAN, family : Family \cup {NoFamily}]
    BY DEF ClientInit, NoAdapter
  <2> QED
    BY <1>3, <2>1, <2>2, <2>3 DEF ClientInit, ClientTypes
<1>5. EndsOnlyStoppedAndClean /\ OneSession /\ ClosedByItsOwner /\ ErrorUnlessCanceled
  BY DEF ClientInit, EndsOnlyStoppedAndClean, OneSession, ClosedByItsOwner, ErrorUnlessCanceled, NoAdapter,
         ConfigSteps, Closing
<1>6. ConfiguredInOrder
  BY <1>2, <1>3 DEF ClientInit, ConfiguredInOrder, ConfigSteps, BeforeSplit, BeforeMss, Routed, Establishing
<1>7. NeverTunnelsItself
  BY <1>3 DEF ClientInit, NeverTunnelsItself, NoAdapter
<1> QED
  BY <1>4, <1>5, <1>6, <1>7 DEF ClientSound, ClientInv

(* What a command of the setup, done or failed, makes of the machine.      *)
LEMMA ConfiguredMachine ==
  ASSUME machine \in Machine, OneBackend(machine.clamp), routeEndpoint \in Family \cup {NoFamily},
         NEW step1 \in ConfigSteps, NEW m \in AfterStep(step1) \cup AfterFailure(step1)
  PROVE  /\ m \in Machine /\ OneBackend(m.clamp)
         /\ machine.hosts \subseteq m.hosts
         /\ step1 # "mss" => m.clamp = machine.clamp
         /\ step1 = "mss" /\ Unclamped(machine.clamp, "tun") => Orderly(m.clamp, "tun")
         /\ step1 \notin {"split4", "split6"} => m.split = machine.split
         /\ step1 = "hostRoute" /\ m \in AfterStep(step1) /\ routeEndpoint # NoFamily => routeEndpoint \in m.hosts
<1>0. /\ machine.link \in BOOLEAN /\ machine.hosts \in SUBSET Family /\ machine.split \in SUBSET Family
      /\ machine.clamp \in ClampOf({"tun"})
      /\ machine = [link |-> machine.link, hosts |-> machine.hosts, split |-> machine.split, clamp |-> machine.clamp]
  BY DEF Machine
<1>1. CASE m = machine
  <2>1. Unclamped(machine.clamp, "tun") => Orderly(machine.clamp, "tun")
    BY <1>0, UnclampedIsOrderly
  <2>2. ASSUME step1 = "hostRoute", m \in AfterStep(step1) PROVE FALSE
    <3>1. PICK f \in RouteTargets \ machine.hosts : m = [machine EXCEPT !.hosts = machine.hosts \cup {f}]
      BY <2>2 DEF AfterStep, WithRoute
    <3>2. m.hosts = machine.hosts \cup {f}
      BY <1>0, <3>1
    <3> QED
      BY <1>1, <3>1, <3>2
  <2> QED
    BY <1>1, <2>1, <2>2
<1>2. CASE step1 = "link" /\ m = [machine EXCEPT !.link = TRUE]
  BY <1>2 DEF Machine
<1>3. CASE \E f \in Family : m = WithRoute(f) /\ step1 \in {"hostRoute", "hostRoute6"}
                             /\ (step1 = "hostRoute" /\ routeEndpoint # NoFamily => f = routeEndpoint)
  BY <1>3 DEF Machine, WithRoute
<1>4. CASE \E f \in Family : m = WithSplit(f) /\ step1 \in {"split4", "split6"}
  BY <1>4 DEF Machine, WithSplit
<1>5. CASE step1 = "mss" /\ \E c \in {InstallSucceeds(machine.clamp, "tun")} \cup InstallFails(machine.clamp, "tun") :
                              m = [machine EXCEPT !.clamp = c]
  <2>1. PICK c \in {InstallSucceeds(machine.clamp, "tun")} \cup InstallFails(machine.clamp, "tun") :
          m = [machine EXCEPT !.clamp = c]
    BY <1>5
  <2>2. ClampStep({"tun"}, machine.clamp, c, "tun") /\ (Unclamped(machine.clamp, "tun") => Orderly(c, "tun"))
    BY <1>0, Installs, InstallsInPart
  <2>3. m.clamp = c /\ m.hosts = machine.hosts /\ m.split = machine.split /\ m \in Machine
    BY <2>1, <2>2 DEF Machine, ClampStep
  <2> QED
    BY <1>5, <2>2, <2>3 DEF ClampStep
<1>6. RouteTargets \subseteq Family /\ (routeEndpoint # NoFamily => RouteTargets = {routeEndpoint})
  BY DEF RouteTargets, ResolveIP, FirstOf, Family
<1>7. CASE m \in AfterStep(step1)
  <2>1. CASE step1 = "link"
    BY <1>1, <1>2, <1>7, <2>1 DEF AfterStep
  <2>2. CASE step1 = "hostRoute"
    <3>1. PICK f \in RouteTargets : m = WithRoute(f)
      BY <1>7, <2>2 DEF AfterStep
    <3> QED
      BY <1>3, <1>6, <2>2, <3>1
  <2>3. CASE step1 = "hostRoute6"
    BY <1>1, <1>3, <1>7, <2>3 DEF AfterStep, Family
  <2>4. CASE step1 \in {"split4", "split6"}
    BY <1>1, <1>4, <1>7, <2>4 DEF AfterStep, Family
  <2>5. CASE step1 = "mss"
    BY <1>5, <1>7, <2>5 DEF AfterStep
  <2>6. CASE step1 \notin {"link", "hostRoute", "hostRoute6", "split4", "split6", "mss"}
    BY <1>1, <1>7, <2>6 DEF AfterStep
  <2> QED
    BY <2>1, <2>2, <2>3, <2>4, <2>5, <2>6
<1>8. CASE m \in AfterFailure(step1)
  <2>1. CASE step1 = "hostRoute6"
    BY <1>8, <2>1 DEF AfterFailure
  <2>2. CASE step1 \in {"split4", "split6"}
    BY <1>1, <1>4, <1>8, <2>2 DEF AfterFailure, Family
  <2>3. CASE step1 = "mss"
    BY <1>5, <1>8, <2>3 DEF AfterFailure
  <2>4. CASE step1 \notin {"hostRoute6", "split4", "split6", "mss"}
    BY <1>1, <1>8, <2>4 DEF AfterFailure
  <2> QED
    BY <2>1, <2>2, <2>3, <2>4
<1> QED
  BY <1>7, <1>8

(* A disposal takes the link, the default routes and the MSS rules.        *)
LEMMA DisposedMachine ==
  ASSUME machine \in Machine, OneBackend(machine.clamp), Orderly(machine.clamp, "tun"), NEW m \in Disposed
  PROVE  /\ m \in Machine /\ OneBackend(m.clamp)
         /\ ~m.link /\ m.split = {} /\ Unclamped(m.clamp, "tun") /\ Orderly(m.clamp, "tun")
<1>1. PICK gone : m = [link |-> FALSE, split |-> {}, clamp |-> RemoveClamp(machine.clamp, "tun"),
                       hosts |-> machine.hosts \ gone]
  BY DEF Disposed
<1>2. machine.clamp \in ClampOf({"tun"}) /\ machine.hosts \subseteq Family
  BY DEF Machine
<1>3. ClampStep({"tun"}, machine.clamp, RemoveClamp(machine.clamp, "tun"), "tun")
      /\ Unclamped(RemoveClamp(machine.clamp, "tun"), "tun")
  BY <1>2, Removes
<1>4. RemoveClamp(machine.clamp, "tun") \in ClampOf({"tun"}) /\ OneBackend(RemoveClamp(machine.clamp, "tun"))
      /\ Orderly(RemoveClamp(machine.clamp, "tun"), "tun")
  BY <1>3, UnclampedIsOrderly DEF ClampStep
<1> QED
  BY <1>1, <1>2, <1>3, <1>4 DEF Machine

-----------------------------------------------------------------------------
(* The steps that leave the machine alone.                                 *)
QuietSteps ==
  \/ Stop \/ DeadlinePasses \/ HookStarts \/ HookCloses \/ StartForward \/ Dial \/ DialFails
  \/ HandshakeSucceeds \/ HandshakeFails \/ StopDeadlineHook \/ CheckDeadline \/ AttachRouteEndpoint \/ TunnelEnds \/ CloseDevice
  \/ CloseAdapter \/ SelectDone \/ SelectResume \/ SelectForward \/ Drained \/ Backoff

LEMMA TroublesBounded ==
  ASSUME troubles \in 0 .. MaxTroubles, NEW forced, Trouble(forced)
  PROVE  troubles' \in 0 .. MaxTroubles
  BY ClientAssumption DEF Trouble

(* What is dialled is an address of a family.                              *)
LEMMA DialledFamily ==
  ASSUME NEW dns, NEW reachable, NEW f \in DialResults(settings, dns, reachable)
  PROVE  f \in Family
  BY DEF DialResults

LEMMA TypesQuiet ==
  ASSUME ClientTypes, QuietSteps
  PROVE  ClientTypes'
<1> USE DEF QuietSteps, Stop, DeadlinePasses, HookStarts, HookCloses, StartForward, Dial, DialFails, HandshakeSucceeds,
     HandshakeFails, StopDeadlineHook, CheckDeadline, AttachRouteEndpoint, TunnelEnds, CloseDevice, CloseAdapter,
     SelectDone, SelectResume, SelectForward, Drained, Backoff, session
<1>1. troubles' \in 0 .. MaxTroubles
  <2>1. UNCHANGED troubles \/ \E forced : Trouble(forced)
    OBVIOUS
  <2>2. troubles \in 0 .. MaxTroubles
    BY DEF ClientTypes
  <2> QED
    BY <2>1, <2>2, TroublesBounded
<1>2. UNCHANGED <<settings, machine>>
  OBVIOUS
<1>3. runner' \in Runner
  BY DEF ClientTypes, Runner
<1>4. forwarder' \in Forwarder
  BY DEF ClientTypes, Forwarder, Establishing, Closing, ConfigSteps
<1>5. stopping' \in BOOLEAN /\ cancelled' \in BOOLEAN /\ tunOpen' \in BOOLEAN
  BY DEF ClientTypes
<1>6. budget' \in {"none", "live", "expired", "released"} /\ hook' \in {"off", "armed", "running"}
  BY DEF ClientTypes, ForwardEnds, StopHook
<1>7. adapter' \in [open : BOOLEAN, family : Family \cup {NoFamily}] /\ routeEndpoint' \in Family \cup {NoFamily}
  <2>1. \/ UNCHANGED adapter
        \/ adapter' = [adapter EXCEPT !.open = FALSE]
        \/ \E f \in Family : adapter' = [open |-> TRUE, family |-> f]
    BY DialledFamily
  <2>2. routeEndpoint' \in {routeEndpoint, NoFamily, adapter.family}
    OBVIOUS
  <2>3. adapter \in [open : BOOLEAN, family : Family \cup {NoFamily}] /\ routeEndpoint \in Family \cup {NoFamily}
    BY DEF ClientTypes
  <2>4. adapter.family \in Family \cup {NoFamily}
    BY ONLY <2>3
  <2>5. routeEndpoint' \in Family \cup {NoFamily}
    BY ONLY <2>2, <2>3, <2>4
  <2>6. adapter' \in [open : BOOLEAN, family : Family \cup {NoFamily}]
    <3>1. CASE UNCHANGED adapter
      BY ONLY <2>3, <3>1
    <3>2. CASE adapter' = [adapter EXCEPT !.open = FALSE]
      BY ONLY <2>3, <3>2
    <3>3. CASE \E f \in Family : adapter' = [open |-> TRUE, family |-> f]
      BY ONLY <3>3
    <3> QED
      BY ONLY <2>1, <3>1, <3>2, <3>3
  <2> QED
    BY ONLY <2>5, <2>6
<1>8. outcome' \in {"none", "nil", "canceled", "error"}
  BY DEF ClientTypes, ForwardEnds, Failure, HandlerResults
<1> QED
  BY ONLY ClientTypes, <1>1, <1>2, <1>3, <1>4, <1>5, <1>6, <1>7, <1>8 DEF ClientTypes

(* The goroutines keep each to its own: no step of one, nor of the         *)
(* callback, takes what the other holds.                                   *)
LEMMA ControlQuiet ==
  ASSUME ClientTypes, OneSession, ClosedByItsOwner, ErrorUnlessCanceled, QuietSteps
  PROVE  OneSession' /\ ClosedByItsOwner' /\ ErrorUnlessCanceled'
<1>1. CASE Stop
  BY <1>1 DEF Stop, OneSession, ClosedByItsOwner, ErrorUnlessCanceled, session, SessionDone, EstablishDone
<1>2. CASE DeadlinePasses
  BY <1>2 DEF DeadlinePasses, OneSession, ClosedByItsOwner, ErrorUnlessCanceled, SessionDone, EstablishDone
<1>3. CASE HookStarts
  BY <1>3 DEF HookStarts, OneSession, ClosedByItsOwner, ErrorUnlessCanceled, SessionDone, EstablishDone
<1>4. CASE HookCloses
  BY <1>4 DEF HookCloses, OneSession, ClosedByItsOwner, ErrorUnlessCanceled, Closing, ConfigSteps, SessionDone, EstablishDone
<1>5. CASE StartForward
  BY <1>5 DEF StartForward, OneSession, ClosedByItsOwner, ErrorUnlessCanceled, Closing, ConfigSteps, SessionDone
<1>6. CASE Dial
  BY <1>6, DialledFamily DEF Dial, OneSession, ClosedByItsOwner, ErrorUnlessCanceled, SessionDone
<1>7. CASE DialFails
  BY <1>7 DEF DialFails, OneSession, ClosedByItsOwner, ErrorUnlessCanceled, Closing, ConfigSteps, SessionDone, ForwardEnds, Failure
<1>8. CASE HandshakeSucceeds
  BY <1>8 DEF HandshakeSucceeds, OneSession, ClosedByItsOwner, ErrorUnlessCanceled, session, Closing, ConfigSteps, SessionDone, EstablishDone
<1>9. CASE HandshakeFails
  BY <1>9 DEF HandshakeFails, OneSession, ClosedByItsOwner, ErrorUnlessCanceled, Closing, ConfigSteps, SessionDone, ForwardEnds, Failure
<1>10. CASE StopDeadlineHook
  BY <1>10 DEF StopDeadlineHook, OneSession, ClosedByItsOwner, ErrorUnlessCanceled, Closing, ConfigSteps, SessionDone, EstablishDone, StopHook
<1>11. CASE CheckDeadline
  BY <1>11 DEF CheckDeadline, ClientTypes, OneSession, ClosedByItsOwner, ErrorUnlessCanceled, Closing, ConfigSteps, SessionDone, ForwardEnds, Failure
<1>12. CASE AttachRouteEndpoint
  BY <1>12 DEF AttachRouteEndpoint, OneSession, ClosedByItsOwner, ErrorUnlessCanceled, session, SessionDone
<1>13. CASE TunnelEnds
  BY <1>13 DEF TunnelEnds, OneSession, ClosedByItsOwner, ErrorUnlessCanceled, SessionDone, HandlerResults
<1>14. CASE CloseDevice
  BY <1>14 DEF CloseDevice, OneSession, ClosedByItsOwner, ErrorUnlessCanceled, session, Closing, SessionDone
<1>15. CASE CloseAdapter
  BY <1>15 DEF CloseAdapter, OneSession, ClosedByItsOwner, ErrorUnlessCanceled, Closing, ConfigSteps, SessionDone
<1>16. CASE SelectDone
  BY <1>16 DEF SelectDone, OneSession, ClosedByItsOwner, ErrorUnlessCanceled, SessionDone, EstablishDone
<1>17. CASE SelectResume
  BY <1>17 DEF SelectResume, OneSession, ClosedByItsOwner, ErrorUnlessCanceled, SessionDone, EstablishDone
<1>18. CASE SelectForward
  BY <1>18 DEF SelectForward, ClientTypes, OneSession, ClosedByItsOwner, ErrorUnlessCanceled, Closing, ConfigSteps, SessionDone
<1>19. CASE Drained
  BY <1>19 DEF Drained, OneSession, ClosedByItsOwner, ErrorUnlessCanceled, session, Closing, ConfigSteps, SessionDone
<1>20. CASE Backoff
  BY <1>20 DEF Backoff, OneSession, ClosedByItsOwner, ErrorUnlessCanceled, session, SessionDone
<1> QED
  BY <1>1, <1>2, <1>3, <1>4, <1>5, <1>6, <1>7, <1>8, <1>9, <1>10, <1>11, <1>12, <1>13, <1>14, <1>15, <1>16, <1>17, <1>18, <1>19, <1>20 DEF QuietSteps

(* What they leave alone stays as it was set up.                           *)
LEMMA MachineQuiet ==
  ASSUME ClientTypes, OneSession, ConfiguredInOrder, NeverTunnelsItself, EndsOnlyStoppedAndClean, ErrorUnlessCanceled, QuietSteps
  PROVE  ConfiguredInOrder' /\ NeverTunnelsItself' /\ EndsOnlyStoppedAndClean'
<1>1. CASE Stop
  BY <1>1 DEF Stop, ConfiguredInOrder, NeverTunnelsItself, EndsOnlyStoppedAndClean, session
<1>2. CASE DeadlinePasses
  BY <1>2 DEF DeadlinePasses, ConfiguredInOrder, NeverTunnelsItself, EndsOnlyStoppedAndClean
<1>3. CASE HookStarts
  BY <1>3 DEF HookStarts, ConfiguredInOrder, NeverTunnelsItself, EndsOnlyStoppedAndClean
<1>4. CASE HookCloses
  BY <1>4 DEF HookCloses, ConfiguredInOrder, NeverTunnelsItself, EndsOnlyStoppedAndClean
<1>5. CASE StartForward
  BY <1>5 DEF StartForward, ConfiguredInOrder, NeverTunnelsItself, EndsOnlyStoppedAndClean, ConfigSteps, BeforeSplit, BeforeMss, Routed
<1>6. CASE Dial
  BY <1>6, DialledFamily DEF Dial, ConfiguredInOrder, NeverTunnelsItself, EndsOnlyStoppedAndClean, Establishing, ConfigSteps, BeforeSplit, BeforeMss, Routed
<1>7. CASE DialFails
  BY <1>7 DEF DialFails, ConfiguredInOrder, NeverTunnelsItself, EndsOnlyStoppedAndClean, Establishing, ConfigSteps, BeforeSplit, BeforeMss, Routed
<1>8. CASE HandshakeSucceeds
  BY <1>8 DEF HandshakeSucceeds, ConfiguredInOrder, NeverTunnelsItself, EndsOnlyStoppedAndClean, Establishing, ConfigSteps, BeforeSplit, BeforeMss, Routed
<1>9. CASE HandshakeFails
  BY <1>9 DEF HandshakeFails, ConfiguredInOrder, NeverTunnelsItself, EndsOnlyStoppedAndClean, Establishing, ConfigSteps, BeforeSplit, BeforeMss, Routed
<1>10. CASE StopDeadlineHook
  BY <1>10 DEF StopDeadlineHook, ConfiguredInOrder, NeverTunnelsItself, EndsOnlyStoppedAndClean, Establishing, ConfigSteps, BeforeSplit, BeforeMss, Routed
<1>11. CASE CheckDeadline
  BY <1>11 DEF CheckDeadline, ConfiguredInOrder, NeverTunnelsItself, EndsOnlyStoppedAndClean, Establishing, ConfigSteps, BeforeSplit, BeforeMss, Routed
<1>12. CASE AttachRouteEndpoint
  BY <1>12 DEF AttachRouteEndpoint, ConfiguredInOrder, NeverTunnelsItself, EndsOnlyStoppedAndClean, session, BeforeSplit, BeforeMss, Routed
<1>13. CASE TunnelEnds
  BY <1>13 DEF TunnelEnds, ConfiguredInOrder, NeverTunnelsItself, EndsOnlyStoppedAndClean, Establishing, BeforeSplit, BeforeMss, Routed
<1>14. CASE CloseDevice
  BY <1>14 DEF CloseDevice, ConfiguredInOrder, NeverTunnelsItself, EndsOnlyStoppedAndClean, session, Establishing, ConfigSteps, BeforeSplit, BeforeMss, Routed
<1>15. CASE CloseAdapter
  BY <1>15 DEF CloseAdapter, ConfiguredInOrder, NeverTunnelsItself, EndsOnlyStoppedAndClean, Establishing, ConfigSteps, BeforeSplit, BeforeMss, Routed
<1>16. CASE SelectDone
  BY <1>16 DEF SelectDone, ConfiguredInOrder, NeverTunnelsItself, EndsOnlyStoppedAndClean
<1>17. CASE SelectResume
  BY <1>17 DEF SelectResume, ConfiguredInOrder, NeverTunnelsItself, EndsOnlyStoppedAndClean
<1>18. CASE SelectForward
  BY <1>18 DEF SelectForward, ConfiguredInOrder, NeverTunnelsItself, EndsOnlyStoppedAndClean, Establishing, ConfigSteps, BeforeSplit, BeforeMss, Routed
<1>19. CASE Drained
  BY <1>19 DEF Drained, ConfiguredInOrder, NeverTunnelsItself, EndsOnlyStoppedAndClean, session, Establishing, ConfigSteps, BeforeSplit, BeforeMss, Routed
<1>20. CASE Backoff
  BY <1>20 DEF Backoff, ConfiguredInOrder, NeverTunnelsItself, EndsOnlyStoppedAndClean, session
<1> QED
  BY <1>1, <1>2, <1>3, <1>4, <1>5, <1>6, <1>7, <1>8, <1>9, <1>10, <1>11, <1>12, <1>13, <1>14, <1>15, <1>16, <1>17, <1>18, <1>19, <1>20 DEF QuietSteps

(* A command of the setup succeeds. *)
LEMMA ConfigureStepKeeps ==
  ASSUME ClientSound, NEW step1 \in ConfigSteps, ConfigureStep(step1)
  PROVE  ClientSound'
<1>0. ClientTypes /\ OneSession /\ ClosedByItsOwner /\ ErrorUnlessCanceled /\ ConfiguredInOrder
      /\ EndsOnlyStoppedAndClean /\ NeverTunnelsItself
  BY DEF ClientSound, ClientInv
<1>1. /\ machine' \in AfterStep(step1) /\ forwarder = step1 /\ forwarder' = NextStep(step1)
      /\ tunOpen' = (NextStep(step1) = "tunnel")
      /\ UNCHANGED <<settings, troubles, stopping, runner, cancelled, budget, hook, adapter, outcome, routeEndpoint>>
  BY DEF ConfigureStep, session
<1>2. /\ machine \in Machine /\ OneBackend(machine.clamp) /\ routeEndpoint \in Family \cup {NoFamily}
      /\ routeEndpoint = adapter.family /\ routeEndpoint \in Family /\ routeEndpoint # NoFamily
  BY <1>0, <1>1, ClientAssumption DEF ClientTypes, ConfiguredInOrder, ClosedByItsOwner
<1>3. /\ machine' \in Machine /\ OneBackend(machine'.clamp)
      /\ machine.hosts \subseteq machine'.hosts
      /\ step1 # "mss" => machine'.clamp = machine.clamp
      /\ step1 = "mss" /\ Unclamped(machine.clamp, "tun") => Orderly(machine'.clamp, "tun")
      /\ step1 \notin {"split4", "split6"} => machine'.split = machine.split
      /\ step1 = "hostRoute" => routeEndpoint \in machine'.hosts
  BY <1>1, <1>2, ConfiguredMachine
<1>4. NextStep(step1) \in ConfigSteps \cup {"tunnel"} /\ runner \notin {"dispose", "backoff", "lastDispose", "stopped"}
  BY <1>0, <1>1, StepTable DEF ConfigSteps, OneSession
<1>5. ClientTypes'
  BY <1>0, <1>1, <1>3, <1>4 DEF ClientTypes, Forwarder
<1>6. OneSession'
  BY <1>0, <1>1, <1>4 DEF OneSession, ConfigSteps
<1>7. ClosedByItsOwner' /\ ErrorUnlessCanceled' /\ EndsOnlyStoppedAndClean'
  BY <1>0, <1>1, <1>4 DEF ClosedByItsOwner, ErrorUnlessCanceled, EndsOnlyStoppedAndClean, ConfigSteps, Closing,
    EstablishDone, SessionDone
<1>8. ConfiguredInOrder'
  <2>1. Orderly(machine'.clamp, "tun")
    BY <1>0, <1>1, <1>3 DEF ConfiguredInOrder, BeforeMss
  <2>2. NextStep(step1) \in BeforeMss => step1 \in BeforeMss /\ step1 # "mss"
    BY StepTable DEF ConfigSteps, BeforeMss, BeforeSplit, Establishing
  <2>3. NextStep(step1) \in BeforeSplit => step1 \in BeforeSplit /\ step1 \notin {"split4", "split6"}
    BY StepTable DEF ConfigSteps, BeforeSplit, Establishing
  <2>4. NextStep(step1) \in Routed => step1 \in Routed \/ step1 = "hostRoute"
    BY StepTable DEF ConfigSteps, Routed
  <2> QED
    BY <1>0, <1>1, <1>2, <1>3, <2>1, <2>2, <2>3, <2>4 DEF ConfiguredInOrder
<1>9. NeverTunnelsItself'
  <2>1. forwarder' \notin {"dial", "handshake"}
    BY <1>1, <1>4 DEF ConfigSteps
  <2>2. step1 \in {"split4", "split6"} => adapter.family \in machine'.hosts
    BY <1>0, <1>1, <1>2, <1>3 DEF ConfiguredInOrder, Routed
  <2> QED
    BY <1>0, <1>1, <1>3, <2>1, <2>2 DEF NeverTunnelsItself
<1> QED
  BY <1>5, <1>6, <1>7, <1>8, <1>9 DEF ClientSound, ClientInv

(* A command of the setup fails. *)
LEMMA ConfigureFailsKeeps ==
  ASSUME ClientSound, NEW step1 \in ConfigSteps, ConfigureFails(step1)
  PROVE  ClientSound'
<1>0. ClientTypes /\ OneSession /\ ClosedByItsOwner /\ ErrorUnlessCanceled /\ ConfiguredInOrder
      /\ EndsOnlyStoppedAndClean /\ NeverTunnelsItself
  BY DEF ClientSound, ClientInv
<1>1. /\ machine' \in AfterFailure(step1) /\ forwarder = step1 /\ forwarder' = "closeAdapter"
      /\ outcome' = "error"
      /\ UNCHANGED <<settings, stopping, runner, cancelled, budget, hook, adapter, routeEndpoint, tunOpen>>
  BY DEF ConfigureFails
<1>2. /\ machine \in Machine /\ OneBackend(machine.clamp) /\ routeEndpoint \in Family \cup {NoFamily}
      /\ routeEndpoint = adapter.family
  BY <1>0, <1>1 DEF ClientTypes, ConfiguredInOrder
<1>3. /\ machine' \in Machine /\ OneBackend(machine'.clamp)
      /\ machine.hosts \subseteq machine'.hosts
      /\ step1 # "mss" => machine'.clamp = machine.clamp
      /\ step1 = "mss" /\ Unclamped(machine.clamp, "tun") => Orderly(machine'.clamp, "tun")
      /\ step1 \notin {"split4", "split6"} => machine'.split = machine.split
  BY <1>1, <1>2, ConfiguredMachine
<1>4. troubles' \in 0 .. MaxTroubles
  BY <1>0, TroublesBounded DEF ConfigureFails, ClientTypes
<1>5. ClientTypes'
  BY <1>0, <1>1, <1>3, <1>4 DEF ClientTypes, Forwarder, Closing
<1>6. OneSession' /\ ClosedByItsOwner' /\ ErrorUnlessCanceled' /\ EndsOnlyStoppedAndClean'
  BY <1>0, <1>1 DEF OneSession, ClosedByItsOwner, ErrorUnlessCanceled, EndsOnlyStoppedAndClean, ConfigSteps, Closing,
    EstablishDone, SessionDone
<1>7. ConfiguredInOrder'
  <2>1. Orderly(machine'.clamp, "tun")
    BY <1>0, <1>1, <1>3 DEF ConfiguredInOrder, BeforeMss
  <2> QED
    BY <1>1, <1>3, <2>1 DEF ConfiguredInOrder, ConfigSteps, BeforeMss, BeforeSplit, Routed, Establishing
<1>8. NeverTunnelsItself'
  <2>1. step1 \in {"split4", "split6"} => adapter.family \in machine'.hosts
    BY <1>0, <1>1, <1>2, <1>3 DEF ConfiguredInOrder, Routed
  <2> QED
    BY <1>0, <1>1, <1>3, <2>1 DEF NeverTunnelsItself
<1> QED
  BY <1>5, <1>6, <1>7, <1>8 DEF ClientSound, ClientInv

(* The runner disposes of the device, before a session or at the end.      *)
LEMMA DisposalKeeps ==
  ASSUME ClientSound, RunSession \/ LastDispose
  PROVE  ClientSound'
<1>0. ClientTypes /\ OneSession /\ ClosedByItsOwner /\ ErrorUnlessCanceled /\ ConfiguredInOrder
      /\ EndsOnlyStoppedAndClean /\ NeverTunnelsItself
  BY DEF ClientSound, ClientInv
<1>1. /\ machine' \in Disposed
      /\ UNCHANGED <<settings, troubles, stopping, hook, adapter, routeEndpoint, tunOpen>>
  BY DEF RunSession, LastDispose, session
<1>2. /\ machine' \in Machine /\ OneBackend(machine'.clamp) /\ ~machine'.link /\ machine'.split = {}
      /\ Unclamped(machine'.clamp, "tun") /\ Orderly(machine'.clamp, "tun")
  BY <1>0, <1>1, DisposedMachine DEF ClientTypes, ConfiguredInOrder
<1>3. /\ forwarder = "idle" /\ ~adapter.open /\ ~tunOpen /\ hook = "off"
  BY <1>0 DEF RunSession, LastDispose, OneSession, ClosedByItsOwner, ClientTypes
<1>4. CASE RunSession
  <2>1. ClientTypes'
    BY <1>0, <1>1, <1>2, <1>4 DEF ClientTypes, RunSession, Runner, Forwarder
  <2>2. OneSession' /\ ClosedByItsOwner' /\ ErrorUnlessCanceled' /\ EndsOnlyStoppedAndClean'
    BY <1>1, <1>3, <1>4 DEF RunSession, OneSession, ClosedByItsOwner, ErrorUnlessCanceled,
      EndsOnlyStoppedAndClean, ConfigSteps, Closing
  <2>3. ConfiguredInOrder' /\ NeverTunnelsItself'
    BY <1>1, <1>2, <1>4 DEF RunSession, ConfiguredInOrder, NeverTunnelsItself, ConfigSteps, Routed
  <2> QED
    BY <2>1, <2>2, <2>3 DEF ClientSound, ClientInv
<1>5. CASE LastDispose
  <2>1. ClientTypes'
    BY <1>0, <1>1, <1>2, <1>5 DEF ClientTypes, LastDispose, Runner, session
  <2>2. OneSession' /\ ClosedByItsOwner' /\ ErrorUnlessCanceled'
    BY <1>0, <1>1, <1>3, <1>5 DEF LastDispose, OneSession, ClosedByItsOwner, ErrorUnlessCanceled,
      ConfigSteps, Closing, session, SessionDone
  <2>3. ConfiguredInOrder' /\ NeverTunnelsItself' /\ EndsOnlyStoppedAndClean'
    BY <1>0, <1>1, <1>2, <1>3, <1>5 DEF LastDispose, ConfiguredInOrder, NeverTunnelsItself, EndsOnlyStoppedAndClean,
      ErrorUnlessCanceled, ConfigSteps, Routed, session
  <2> QED
    BY <2>1, <2>2, <2>3 DEF ClientSound, ClientInv
<1> QED
  BY <1>4, <1>5

LEMMA ClientStep == ClientSound /\ [ClientNext]_clientVars => ClientSound'
<1> SUFFICES ASSUME ClientSound, [ClientNext]_clientVars PROVE ClientSound'
  OBVIOUS
<1>1. CASE QuietSteps
  BY <1>1, TypesQuiet, ControlQuiet, MachineQuiet DEF ClientSound, ClientInv
<1>2. CASE \E s \in ConfigSteps : ConfigureStep(s) \/ ConfigureFails(s)
  BY <1>2, ConfigureStepKeeps, ConfigureFailsKeeps
<1>3. CASE RunSession \/ LastDispose
  BY <1>3, DisposalKeeps
<1>4. CASE UNCHANGED clientVars
  BY <1>4 DEF clientVars, session, ClientSound, ClientInv, ClientTypes, EndsOnlyStoppedAndClean, OneSession,
    ClosedByItsOwner, ErrorUnlessCanceled, ConfiguredInOrder, NeverTunnelsItself, EstablishDone, SessionDone
<1> QED
  BY <1>1, <1>2, <1>3, <1>4 DEF ClientNext, ForwarderSteps, RunnerSteps, QuietSteps

LEMMA ClientSoundAlways == ClientSpec => []ClientSound
  BY InitClient, ClientStep, PTL DEF ClientSpec

(* ClientInv: there is one session at a time, its connection is closed by  *)
(* its owner only, an error alone makes the client try again, and Run of   *)
(* internal/client returns only when it was stopped and with nothing left  *)
(* of the device, whatever the resolver answers and whatever fails.        *)
THEOREM ClientIsSound == ClientSpec => []ClientInv
  BY ClientSoundAlways, PTL DEF ClientSound

(* NeverTunnelsItself: the connection of the client is not dialled through *)
(* a tunnel of its own, and its packets keep the route that configureTUN   *)
(* gave the server's address.                                              *)
THEOREM ClientNeverTunnelsItself == ClientSpec => []NeverTunnelsItself
  BY ClientSoundAlways, PTL DEF ClientSound

-----------------------------------------------------------------------------
(* The server. *)

(* What every state of the server satisfies: ServerRuntimeInv, with        *)
(* ServingIsClamped only when the rules of the tunnels are apart.          *)
ClampIsPerTunnel == kernel.clamp.backend = "iptables" \/ \A p, q \in Profile : p = q

ServerSound ==
  /\ ServerTypes
  /\ DevicesOfTunnels
  /\ TunnelsAreConfigured
  /\ ClampIsPerTunnel => ServingIsClamped
  /\ CleanUntilStarted
  /\ CreatedInOrder
  /\ OneCopyMore

(* The commands that start a tunnel, at their places.                      *)
LEMMA Places4 ==
  ASSUME ~enabled.ipv6
  PROVE  /\ DOMAIN CreateSteps = 1 .. 11
         /\ CreateSteps[1] = "sysctl" /\ CreateSteps[2] = "tun" /\ CreateSteps[3] = "name"
         /\ CreateSteps[4] = "uplink" /\ CreateSteps[5] = "nat4" /\ CreateSteps[6] = "fwd4"
         /\ CreateSteps[7] = "back4" /\ CreateSteps[8] = "hair4" /\ CreateSteps[9] = "mss"
         /\ CreateSteps[10] = "wrap" /\ CreateSteps[11] = "listen"
         /\ \A i, j \in 1 .. 11 : CreateSteps[i] = CreateSteps[j] => i = j
<1>1. /\ DOMAIN CreateSteps = 1 .. 11
      /\ CreateSteps[1] = "sysctl" /\ CreateSteps[2] = "tun" /\ CreateSteps[3] = "name"
      /\ CreateSteps[4] = "uplink" /\ CreateSteps[5] = "nat4" /\ CreateSteps[6] = "fwd4"
      /\ CreateSteps[7] = "back4" /\ CreateSteps[8] = "hair4" /\ CreateSteps[9] = "mss"
      /\ CreateSteps[10] = "wrap" /\ CreateSteps[11] = "listen"
  BY DEF CreateSteps
<1>2. ASSUME NEW i \in 1 .. 11, NEW j \in 1 .. 11, CreateSteps[i] = CreateSteps[j] PROVE i = j
  BY <1>1, <1>2
<1> QED
  BY <1>1, <1>2

LEMMA Places6 ==
  ASSUME enabled.ipv6
  PROVE  /\ DOMAIN CreateSteps = 1 .. 15
         /\ CreateSteps[1] = "sysctl" /\ CreateSteps[2] = "tun" /\ CreateSteps[3] = "name"
         /\ CreateSteps[4] = "uplink" /\ CreateSteps[5] = "nat4" /\ CreateSteps[6] = "nat6"
         /\ CreateSteps[7] = "fwd4" /\ CreateSteps[8] = "back4" /\ CreateSteps[9] = "hair4"
         /\ CreateSteps[10] = "fwd6" /\ CreateSteps[11] = "back6" /\ CreateSteps[12] = "hair6"
         /\ CreateSteps[13] = "mss" /\ CreateSteps[14] = "wrap" /\ CreateSteps[15] = "listen"
         /\ \A i, j \in 1 .. 15 : CreateSteps[i] = CreateSteps[j] => i = j
<1>1. /\ DOMAIN CreateSteps = 1 .. 15
      /\ CreateSteps[1] = "sysctl" /\ CreateSteps[2] = "tun" /\ CreateSteps[3] = "name"
      /\ CreateSteps[4] = "uplink" /\ CreateSteps[5] = "nat4" /\ CreateSteps[6] = "nat6"
      /\ CreateSteps[7] = "fwd4" /\ CreateSteps[8] = "back4" /\ CreateSteps[9] = "hair4"
      /\ CreateSteps[10] = "fwd6" /\ CreateSteps[11] = "back6" /\ CreateSteps[12] = "hair6"
      /\ CreateSteps[13] = "mss" /\ CreateSteps[14] = "wrap" /\ CreateSteps[15] = "listen"
  BY DEF CreateSteps
<1>2. ASSUME NEW i \in 1 .. 15, NEW j \in 1 .. 15, CreateSteps[i] = CreateSteps[j] PROVE i = j
  BY <1>1, <1>2
<1> QED
  BY <1>1, <1>2

Last == IF enabled.ipv6 THEN 15 ELSE 11

(* Every command has one place.                                            *)
LEMMA Places ==
  ASSUME enabled.ipv6 \in BOOLEAN
  PROVE  /\ DOMAIN CreateSteps = 1 .. Last /\ Last \in {11, 15}
         /\ \A i \in 1 .. Last : IndexOfStep(CreateSteps[i]) = i
         /\ \A i \in 1 .. Last - 1 : StepAfter(CreateSteps[i]) = CreateSteps[i + 1]
<1>1. DOMAIN CreateSteps = 1 .. Last /\ Last \in {11, 15}
  BY Places4, Places6 DEF Last
<1>2. \A i, j \in 1 .. Last : CreateSteps[i] = CreateSteps[j] => i = j
  BY Places4, Places6 DEF Last
<1>3. ASSUME NEW i \in 1 .. Last PROVE IndexOfStep(CreateSteps[i]) = i
  <2> DEFINE j == CHOOSE k \in DOMAIN CreateSteps : CreateSteps[k] = CreateSteps[i]
  <2>1. j \in DOMAIN CreateSteps /\ CreateSteps[j] = CreateSteps[i]
    BY <1>1
  <2>2. j = i
    BY <1>1, <1>2, <2>1
  <2> QED
    BY <2>2 DEF IndexOfStep
<1>4. ASSUME NEW i \in 1 .. Last - 1 PROVE StepAfter(CreateSteps[i]) = CreateSteps[i + 1]
  BY <1>1, <1>3 DEF StepAfter
<1> QED
  BY <1>1, <1>3, <1>4

(* The firewall rules come after the device and before the MSS rules.      *)
LEMMA PlaceTable ==
  ASSUME enabled.ipv6 \in BOOLEAN
  PROVE  /\ IndexOfStep("sysctl") = 1 /\ IndexOfStep("tun") = 2 /\ IndexOfStep("name") = 3
         /\ IndexOfStep("uplink") = 4
         /\ \A r \in FirewallRule : Needed(r) =>
              /\ r \in {CreateSteps[i] : i \in DOMAIN CreateSteps}
              /\ IndexOfStep(r) \in 5 .. Last - 3
              /\ CreateSteps[IndexOfStep(r)] = r
         /\ \A i \in 5 .. Last - 3 : CreateSteps[i] \in FirewallRule /\ Needed(CreateSteps[i])
         /\ IndexOfStep("mss") = Last - 2 /\ IndexOfStep("wrap") = Last - 1 /\ IndexOfStep("listen") = Last
<1>1. CASE enabled.ipv6
  <2>1. /\ IndexOfStep("sysctl") = 1 /\ IndexOfStep("tun") = 2 /\ IndexOfStep("name") = 3
        /\ IndexOfStep("uplink") = 4 /\ IndexOfStep("nat4") = 5 /\ IndexOfStep("nat6") = 6
        /\ IndexOfStep("fwd4") = 7 /\ IndexOfStep("back4") = 8 /\ IndexOfStep("hair4") = 9
        /\ IndexOfStep("fwd6") = 10 /\ IndexOfStep("back6") = 11 /\ IndexOfStep("hair6") = 12
        /\ IndexOfStep("mss") = 13 /\ IndexOfStep("wrap") = 14 /\ IndexOfStep("listen") = 15
    BY <1>1, Places, Places6 DEF Last
  <2>2. ASSUME NEW r \in FirewallRule
        PROVE  IndexOfStep(r) \in 5 .. 12 /\ CreateSteps[IndexOfStep(r)] = r
    BY <1>1, <2>1, Places6 DEF FirewallRule
  <2>3. ASSUME NEW i \in 5 .. 12 PROVE CreateSteps[i] \in FirewallRule
    BY <1>1, Places6 DEF FirewallRule
  <2> QED
    BY <1>1, <2>1, <2>2, <2>3, Places6 DEF Last, Needed
<1>2. CASE ~enabled.ipv6
  <2>1. /\ IndexOfStep("sysctl") = 1 /\ IndexOfStep("tun") = 2 /\ IndexOfStep("name") = 3
        /\ IndexOfStep("uplink") = 4 /\ IndexOfStep("nat4") = 5
        /\ IndexOfStep("fwd4") = 6 /\ IndexOfStep("back4") = 7 /\ IndexOfStep("hair4") = 8
        /\ IndexOfStep("mss") = 9 /\ IndexOfStep("wrap") = 10 /\ IndexOfStep("listen") = 11
    BY <1>2, Places, Places4 DEF Last
  <2>2. ASSUME NEW r \in FirewallRule, Needed(r)
        PROVE  IndexOfStep(r) \in 5 .. 8 /\ CreateSteps[IndexOfStep(r)] = r
    BY <1>2, <2>1, <2>2, Places4 DEF FirewallRule, Needed, Rule6
  <2>3. ASSUME NEW i \in 5 .. 8 PROVE CreateSteps[i] \in FirewallRule /\ CreateSteps[i] \notin Rule6
    BY <1>2, Places4 DEF FirewallRule, Rule6
  <2> QED
    BY <1>2, <2>1, <2>2, <2>3, Places4 DEF Last, Needed
<1> QED
  BY <1>1, <1>2

(* As long as a profile is to be started there is a next one.              *)
LEMMA FirstOfOrder ==
  ASSUME NEW S \in SUBSET Profile, S # {}
  PROVE  ProfileOrder[CHOOSE i \in DOMAIN ProfileOrder :
                        /\ ProfileOrder[i] \in S
                        /\ \A j \in 1 .. (i - 1) : ProfileOrder[j] \notin S] \in S
<1> DEFINE T == {i \in DOMAIN ProfileOrder : ProfileOrder[i] \in S}
           R == OpToRel(<, Nat)
<1>1. ProfileOrder \in Seq(Profile) /\ DOMAIN ProfileOrder = 1 .. Len(ProfileOrder) /\ Len(ProfileOrder) \in Nat
  BY ServerRuntimeAssumption
<1>2. T \subseteq Nat /\ T # {}
  BY <1>1 DEF Profile
<1>3. IsWellFoundedOn(R, Nat)
  BY NatLessThanWellFounded
<1>4. PICK i \in T : \A j \in T : ~(<<j, i>> \in R)
  <2> HIDE DEF T, R
  <2> QED
    BY <1>2, <1>3, WFMin
<1>5. \A j \in T : ~(j < i)
  BY <1>2, <1>4 DEF OpToRel
<1>6. ProfileOrder[i] \in S /\ \A j \in 1 .. (i - 1) : ProfileOrder[j] \notin S
  BY <1>1, <1>5
<1> QED
  BY <1>6

LEMMA NextIsToCreate ==
  /\ toCreate \subseteq Profile /\ toCreate # {} => NextProfile \in toCreate
  /\ toCreate' \subseteq Profile /\ toCreate' # {} => NextProfile' \in toCreate'
  BY FirstOfOrder DEF NextProfile

-----------------------------------------------------------------------------
(* Rules of the firewall: what a deletion takes is one copy.               *)

LEMMA DecrementedRules ==
  ASSUME NEW rules \in [Profile -> [FirewallRule -> Nat]], NEW p \in Profile, NEW gone
  PROVE  /\ Decremented(rules, p, gone) \in [Profile -> [FirewallRule -> Nat]]
         /\ \A r \in FirewallRule : Decremented(rules, p, gone)[p][r] <= rules[p][r]
         /\ \A r \in FirewallRule \cap gone : 
              Decremented(rules, p, gone)[p][r] = IF rules[p][r] > 0 THEN rules[p][r] - 1 ELSE 0
         /\ \A q \in Profile \ {p} : Decremented(rules, p, gone)[q] = rules[q]
<1> DEFINE row == [r \in FirewallRule |-> IF r \in gone /\ rules[p][r] > 0 THEN rules[p][r] - 1 ELSE rules[p][r]]
<1>1. row \in [FirewallRule -> Nat] /\ \A r \in FirewallRule : row[r] <= rules[p][r]
  OBVIOUS
<1>2. \A r \in FirewallRule \cap gone : row[r] = IF rules[p][r] > 0 THEN rules[p][r] - 1 ELSE 0
  OBVIOUS
<1>3. Decremented(rules, p, gone) = [rules EXCEPT ![p] = row]
  BY DEF Decremented
<1> HIDE DEF row
<1> QED
  BY <1>1, <1>2, <1>3

(* The rules a whole teardown deletes. *)
LEMMA TeardownDeletes ==
  uplink \in BOOLEAN => TeardownRules(Len(TeardownOrder)) = IF uplink THEN FirewallRule ELSE HairRule
<1>1. CASE uplink
  <2>1. TeardownOrder = <<"fwd4", "back4", "fwd6", "back6", "nat4", "nat6", "hair4", "hair6">>
    BY <1>1 DEF TeardownOrder
  <2>2. /\ TeardownOrder[1] = "fwd4" /\ TeardownOrder[2] = "back4" /\ TeardownOrder[3] = "fwd6"
        /\ TeardownOrder[4] = "back6" /\ TeardownOrder[5] = "nat4" /\ TeardownOrder[6] = "nat6"
        /\ TeardownOrder[7] = "hair4" /\ TeardownOrder[8] = "hair6" /\ Len(TeardownOrder) = 8
    BY <2>1
  <2>3. \A r \in TeardownRules(8) : r \in FirewallRule
    BY <2>2 DEF TeardownRules, FirewallRule
  <2>4. \A r \in FirewallRule : r \in TeardownRules(8)
    BY <2>2 DEF TeardownRules, FirewallRule
  <2>5. TeardownRules(8) = FirewallRule
    BY <2>3, <2>4
  <2> QED
    BY <1>1, <2>2, <2>5
<1>2. CASE ~uplink
  <2>1. TeardownOrder = <<"hair4", "hair6">>
    BY <1>2 DEF TeardownOrder
  <2>2. TeardownOrder[1] = "hair4" /\ TeardownOrder[2] = "hair6" /\ Len(TeardownOrder) = 2
    BY <2>1
  <2>3. \A r \in TeardownRules(2) : r \in HairRule
    BY <2>2 DEF TeardownRules, HairRule
  <2>4. \A r \in HairRule : r \in TeardownRules(2)
    BY <2>2 DEF TeardownRules, HairRule
  <2>5. TeardownRules(2) = HairRule
    BY <2>3, <2>4
  <2> QED
    BY <1>2, <2>2, <2>5
<1> QED
  BY <1>1, <1>2

(* An operation on what the kernel has of one profile: the others' stays,  *)
(* and there are no more rules of that profile.                            *)
KernelStep(k, l, p) ==
  /\ l \in Kernel
  /\ ClampStep(Profile, k.clamp, l.clamp, p)
  /\ l.links \ {p} = k.links \ {p}
  /\ \A q \in Profile \ {p} : l.rules[q] = k.rules[q]

Shrinks(k, l, p) == \A r \in FirewallRule : l.rules[p][r] <= k.rules[p][r]

LEMMA KernelParts ==
  ASSUME NEW k \in Kernel
  PROVE  /\ k.links \subseteq Profile /\ k.rules \in [Profile -> [FirewallRule -> Nat]]
         /\ k.clamp \in ClampOf(Profile)
         /\ k = [links |-> k.links, rules |-> k.rules, clamp |-> k.clamp]
  BY DEF Kernel

LEMMA TornDownKernel ==
  ASSUME NEW k \in Kernel, OneBackend(k.clamp), NEW p \in Profile, uplink \in BOOLEAN
  PROVE  /\ KernelStep(k, TornDown(k, p), p) /\ Shrinks(k, TornDown(k, p), p)
         /\ p \notin TornDown(k, p).links
         /\ Orderly(k.clamp, p) => Unclamped(TornDown(k, p).clamp, p)
         /\ uplink => \A r \in FirewallRule :
              TornDown(k, p).rules[p][r] = IF k.rules[p][r] > 0 THEN k.rules[p][r] - 1 ELSE 0
<1> DEFINE l == TornDown(k, p)
           gone == TeardownRules(Len(TeardownOrder))
           rules == Decremented(k.rules, p, gone)
<1>1. l.links = k.links \ {p} /\ l.rules = rules /\ l.clamp = RemoveClamp(k.clamp, p)
      /\ l = [links |-> k.links \ {p}, rules |-> rules, clamp |-> RemoveClamp(k.clamp, p)]
  BY DEF TornDown
<1>2. uplink => gone = FirewallRule
  BY TeardownDeletes
<1>3. /\ rules \in [Profile -> [FirewallRule -> Nat]]
      /\ \A r \in FirewallRule : rules[p][r] <= k.rules[p][r]
      /\ \A r \in FirewallRule \cap gone : rules[p][r] = IF k.rules[p][r] > 0 THEN k.rules[p][r] - 1 ELSE 0
      /\ \A q \in Profile \ {p} : rules[q] = k.rules[q]
  <2> HIDE DEF gone
  <2> QED
    BY KernelParts, DecrementedRules
<1>4. /\ ClampStep(Profile, k.clamp, RemoveClamp(k.clamp, p), p)
      /\ Orderly(k.clamp, p) => Unclamped(RemoveClamp(k.clamp, p), p)
      /\ RemoveClamp(k.clamp, p) \in ClampOf(Profile)
  BY KernelParts, Removes DEF ClampStep
<1> HIDE DEF rules, gone, l
<1>5. l \in Kernel
  BY <1>1, <1>3, <1>4, KernelParts DEF Kernel
<1>6. KernelStep(k, l, p) /\ Shrinks(k, l, p)
  BY <1>1, <1>3, <1>4, <1>5 DEF KernelStep, Shrinks
<1>7. uplink => \A r \in FirewallRule : l.rules[p][r] = IF k.rules[p][r] > 0 THEN k.rules[p][r] - 1 ELSE 0
  BY <1>1, <1>2, <1>3
<1> QED
  BY <1>1, <1>4, <1>6, <1>7 DEF l

(* Deleting some rules of a profile and nothing else. *)
LEMMA RulesDeleted ==
  ASSUME NEW k \in Kernel, OneBackend(k.clamp), NEW p \in Profile, NEW gone
  PROVE  LET l == [k EXCEPT !.rules = Decremented(@, p, gone)]
         IN  /\ KernelStep(k, l, p) /\ Shrinks(k, l, p)
             /\ l.clamp = k.clamp /\ l.links = k.links
<1> DEFINE rules == Decremented(k.rules, p, gone)
           l == [k EXCEPT !.rules = rules]
<1>1. /\ rules \in [Profile -> [FirewallRule -> Nat]]
      /\ \A r \in FirewallRule : rules[p][r] <= k.rules[p][r]
      /\ \A q \in Profile \ {p} : rules[q] = k.rules[q]
  BY KernelParts, DecrementedRules
<1> HIDE DEF rules
<1>2. l \in Kernel /\ l.clamp = k.clamp /\ l.links = k.links /\ l.rules = rules
  BY <1>1 DEF Kernel
<1>3. ClampStep(Profile, k.clamp, l.clamp, p)
  BY <1>2, KernelParts DEF ClampStep
<1>4. KernelStep(k, l, p) /\ Shrinks(k, l, p)
  BY <1>1, <1>2, <1>3 DEF KernelStep, Shrinks
<1> QED
  BY <1>2, <1>4 DEF rules

(* Exchanging the MSS rules and nothing else. *)
LEMMA ClampExchanged ==
  ASSUME NEW k \in Kernel, NEW p \in Profile, NEW c, ClampStep(Profile, k.clamp, c, p)
  PROVE  LET l == [k EXCEPT !.clamp = c]
         IN  KernelStep(k, l, p) /\ Shrinks(k, l, p) /\ l.clamp = c /\ l.rules = k.rules /\ l.links = k.links
<1> DEFINE l == [k EXCEPT !.clamp = c]
<1>1. l.clamp = c /\ l.rules = k.rules /\ l.links = k.links /\ l \in Kernel
  BY DEF Kernel, ClampStep
<1>2. \A r \in FirewallRule : k.rules[p][r] <= k.rules[p][r]
  BY KernelParts
<1> QED
  BY <1>1, <1>2 DEF KernelStep, Shrinks

(* One operation after another. *)
LEMMA KernelStepsCompose ==
  ASSUME NEW k \in Kernel, NEW l \in Kernel, NEW m \in Kernel, NEW p \in Profile,
         KernelStep(k, l, p), KernelStep(l, m, p), Shrinks(k, l, p), Shrinks(l, m, p)
  PROVE  KernelStep(k, m, p) /\ Shrinks(k, m, p)
<1>1. ClampStep(Profile, k.clamp, m.clamp, p)
  BY DEF KernelStep, ClampStep
<1>2. ASSUME NEW r \in FirewallRule PROVE m.rules[p][r] <= k.rules[p][r]
  <2>1. k.rules[p][r] \in Nat /\ l.rules[p][r] \in Nat /\ m.rules[p][r] \in Nat
    BY KernelParts
  <2>2. l.rules[p][r] <= k.rules[p][r] /\ m.rules[p][r] <= l.rules[p][r]
    BY DEF Shrinks
  <2> QED
    BY <2>1, <2>2
<1> QED
  BY <1>1, <1>2 DEF KernelStep, Shrinks

(* What such an operation leaves of a profile it is not about.             *)
LEMMA OtherProfileKept ==
  ASSUME NEW p \in Profile, NEW q \in Profile, q # p, KernelStep(kernel, kernel', p),
         missed'[q] = missed[q]
  PROVE  /\ Clean(q) => Clean(q)'
         /\ q \in kernel'.links <=> q \in kernel.links
         /\ kernel'.rules[q] = kernel.rules[q]
         /\ Orderly(kernel.clamp, q) => Orderly(kernel'.clamp, q)
         /\ kernel.clamp.backend = "iptables" /\ Clamped(kernel.clamp, q) => Clamped(kernel'.clamp, q)
<1>1. /\ Unclamped(kernel.clamp, q) => Unclamped(kernel'.clamp, q)
      /\ Orderly(kernel.clamp, q) => Orderly(kernel'.clamp, q)
      /\ Clamped(kernel.clamp, q) /\ kernel.clamp.backend = "iptables" => Clamped(kernel'.clamp, q)
  BY OtherDeviceKept DEF KernelStep
<1>2. (q \in kernel'.links <=> q \in kernel.links) /\ kernel'.rules[q] = kernel.rules[q]
  BY DEF KernelStep
<1> QED
  BY <1>1, <1>2 DEF Clean

-----------------------------------------------------------------------------
(* The steps of the server. *)

(* The order of the commands stays, since the subnets do.                  *)
LEMMA DoneAfter ==
  ASSUME enabled'.ipv6 = enabled.ipv6
  PROVE  /\ CreateSteps' = CreateSteps
         /\ \A r \in FirewallRule : Needed(r)' <=> Needed(r)
         /\ \A s : StepDone(s)' <=> IndexOfStep(s) < IndexOfStep(step')
         /\ \A r \in FirewallRule : Issued(r)' <=> Needed(r) /\ IndexOfStep(r) < IndexOfStep(step')
  BY DEF CreateSteps, Needed, StepDone, IndexOfStep, Issued

(* Before the first command nothing is done. *)
LEMMA NothingDone ==
  ASSUME enabled.ipv6 \in BOOLEAN
  PROVE  /\ ~(IndexOfStep("tun") < IndexOfStep("sysctl")) /\ ~(IndexOfStep("mss") < IndexOfStep("sysctl"))
         /\ \A r \in FirewallRule : Needed(r) => ~(IndexOfStep(r) < IndexOfStep("sysctl"))
         /\ "sysctl" \in {CreateSteps[i] : i \in DOMAIN CreateSteps}
<1>1. IndexOfStep("sysctl") = 1 /\ IndexOfStep("tun") = 2 /\ IndexOfStep("mss") = Last - 2 /\ Last \in {11, 15}
  BY PlaceTable, Places
<1>2. \A r \in FirewallRule : Needed(r) => IndexOfStep(r) \in 5 .. Last - 3
  BY PlaceTable
<1>3. 1 \in DOMAIN CreateSteps /\ CreateSteps[1] = "sysctl"
  BY Places, Places4, Places6
<1> QED
  BY <1>1, <1>2, <1>3

(* A profile whose creation begins is still clean. *)
LEMMA BeginsClean ==
  ASSUME enabled.ipv6 \in BOOLEAN, enabled'.ipv6 = enabled.ipv6, step' = "sysctl",
         phase' = "create" /\ toCreate' # {} => Clean(NextProfile)'
  PROVE  CreatedInOrder'
<1> SUFFICES ASSUME phase' = "create", toCreate' # {}
             PROVE  LET p == NextProfile' IN
                    /\ p \in kernel'.links <=> StepDone("tun")'
                    /\ \A r \in FirewallRule :
                         /\ Issued(r)' => kernel'.rules[p][r] > 0
                         /\ ~Issued(r)' => kernel'.rules[p][r] <= missed'[p].rules
                    /\ IF StepDone("mss")' THEN Clamped(kernel'.clamp, p)
                       ELSE missed'[p].clamp = 0 => Unclamped(kernel'.clamp, p)
  BY DEF CreatedInOrder
<1>1. ~StepDone("tun")' /\ ~StepDone("mss")' /\ \A r \in FirewallRule : ~Issued(r)'
  BY DoneAfter, NothingDone
<1>2. /\ NextProfile' \notin kernel'.links
      /\ \A r \in FirewallRule : kernel'.rules[NextProfile'][r] <= missed'[NextProfile'].rules
      /\ missed'[NextProfile'].clamp = 0 => Unclamped(kernel'.clamp, NextProfile')
  BY DEF Clean
<1> QED
  BY <1>1, <1>2

QuietServerSteps ==
  \/ \E p \in Profile : CloseSocket(p) \/ TunnelReturns(p)
  \/ CleanupEnds \/ AllStarted \/ GroupWaited \/ WatcherDone
  \/ StopServer \/ UplinkChanges \/ Crash \/ Restart

LEMMA MishapsBounded ==
  ASSUME mishaps \in 0 .. MaxMishaps, NEW forced, Mishap(forced)
  PROVE  mishaps' \in 0 .. MaxMishaps
  BY ServerRuntimeAssumption DEF Mishap

LEMMA ServerTypesQuiet ==
  ASSUME ServerTypes, QuietServerSteps
  PROVE  /\ ServerTypes'
         /\ enabled.ipv6 \in BOOLEAN /\ enabled'.ipv6 = enabled.ipv6 /\ UNCHANGED <<kernel, missed>>
<1>1. enabled.ipv6 \in BOOLEAN /\ enabled.profiles \subseteq Profile
      /\ enabled = [profiles |-> enabled.profiles, ipv6 |-> enabled.ipv6]
  BY DEF ServerTypes, Configurations
<1>2. enabled' \in Configurations /\ enabled'.ipv6 = enabled.ipv6
  <2>1. CASE UNCHANGED enabled
    BY <2>1 DEF ServerTypes
  <2>2. CASE Restart
    BY <1>1, <2>2 DEF Restart, Configurations
  <2> QED
    BY <2>1, <2>2 DEF QuietServerSteps, CloseSocket, TunnelReturns, CleanupEnds, AllStarted, GroupWaited,
      WatcherDone, StopServer, UplinkChanges, Crash
<1>3. mishaps' \in 0 .. MaxMishaps
  <2>1. CASE UNCHANGED mishaps
    BY <2>1 DEF ServerTypes
  <2>2. CASE \E forced : Mishap(forced)
    BY <2>2, MishapsBounded DEF ServerTypes
  <2> QED
    BY <2>1, <2>2 DEF QuietServerSteps, CloseSocket, TunnelReturns, CleanupEnds, AllStarted, GroupWaited,
      WatcherDone, StopServer, UplinkChanges, Crash, Restart
<1>4. UNCHANGED <<kernel, missed>>
  BY DEF QuietServerSteps, CloseSocket, TunnelReturns, CleanupEnds, AllStarted, GroupWaited,
    WatcherDone, StopServer, UplinkChanges, Crash, Restart
<1>5. step' \in {CreateSteps'[i] : i \in DOMAIN CreateSteps'}
  <2>1. CreateSteps' = CreateSteps
    BY <1>2, DoneAfter
  <2>2. step' = step \/ step' = "sysctl"
    BY DEF QuietServerSteps, CloseSocket, TunnelReturns, CleanupEnds, AllStarted, GroupWaited,
      WatcherDone, StopServer, UplinkChanges, Crash, Restart, ProcessDies, ProcessStarts, process
  <2> QED
    BY <1>1, <2>1, <2>2, NothingDone DEF ServerTypes
<1>6. /\ uplink' \in BOOLEAN /\ groupDone' \in BOOLEAN /\ serverStop' \in BOOLEAN
      /\ phase' \in {"preflight", "create", "wait", "postflight", "watcher", "done", "crashed"}
  BY DEF ServerTypes, QuietServerSteps, CloseSocket, TunnelReturns, CleanupEnds, AllStarted, GroupWaited,
    WatcherDone, StopServer, UplinkChanges, Crash, Restart, ProcessDies, ProcessStarts, process, CancelsGroup
<1>7. /\ toDispose' \subseteq Profile /\ toCreate' \subseteq Profile
      /\ open' \subseteq Profile /\ listening' \subseteq Profile
  BY <1>1 DEF ServerTypes, QuietServerSteps, CloseSocket, TunnelReturns, CleanupEnds, AllStarted, GroupWaited,
    WatcherDone, StopServer, UplinkChanges, Crash, Restart, ProcessDies, ProcessStarts, process
<1>8. tunnels' \in [Profile -> {"none", "running", "returned"}]
  BY DEF ServerTypes, QuietServerSteps, CloseSocket, TunnelReturns, CleanupEnds, AllStarted, GroupWaited,
    WatcherDone, StopServer, UplinkChanges, Crash, Restart, ProcessDies, ProcessStarts, process
<1> QED
  BY <1>1, <1>2, <1>3, <1>4, <1>5, <1>6, <1>7, <1>8 DEF ServerTypes

(* Steps that leave the kernel and the configuration alone.                *)
LEMMA ServerQuiet ==
  ASSUME ServerSound, QuietServerSteps
  PROVE  ServerSound'
<1>0. ServerTypes /\ DevicesOfTunnels /\ TunnelsAreConfigured /\ (ClampIsPerTunnel => ServingIsClamped)
      /\ CleanUntilStarted /\ CreatedInOrder /\ OneCopyMore
  BY DEF ServerSound
<1>1. /\ ServerTypes' /\ enabled.ipv6 \in BOOLEAN /\ enabled'.ipv6 = enabled.ipv6
      /\ UNCHANGED <<kernel, missed>>
  BY <1>0, ServerTypesQuiet
<1>2. OneCopyMore'
  BY <1>0, <1>1 DEF OneCopyMore
<1>3. \A p \in Profile : Clean(p)' <=> Clean(p)
  BY <1>1 DEF Clean
<1>4. \A r \in FirewallRule : Needed(r)' <=> Needed(r)
  BY <1>1, DoneAfter
<1>5. \A p \in Profile : tunnels'[p] = "running" => tunnels[p] = "running"
  BY <1>0 DEF ServerTypes, QuietServerSteps, CloseSocket, TunnelReturns, CleanupEnds, AllStarted, GroupWaited,
    WatcherDone, StopServer, UplinkChanges, Crash, Restart, ProcessDies, ProcessStarts, process
<1>6. TunnelsAreConfigured' /\ (ClampIsPerTunnel => ServingIsClamped)'
  BY <1>0, <1>1, <1>4, <1>5 DEF TunnelsAreConfigured, ClampIsPerTunnel, ServingIsClamped
<1>7. DevicesOfTunnels' /\ CleanUntilStarted' /\ CreatedInOrder'
  <2>1. CASE CleanupEnds
    <3>1. /\ step' = "sysctl" /\ toDispose = {} /\ UNCHANGED <<tunnels, open>>
          /\ phase = "preflight" => phase' = "create" /\ tunnels = [p \in Profile |-> "none"]
          /\ phase = "postflight" => phase' = "watcher" /\ toCreate' = {}
          /\ phase \in {"preflight", "postflight"} /\ open = {}
      BY <1>0, <2>1 DEF CleanupEnds, DevicesOfTunnels
    <3>2. \A p \in Profile : Clean(p)'
      BY <1>0, <1>3, <3>1 DEF CleanUntilStarted
    <3>3. toCreate' # {} => NextProfile' \in Profile
      <4>1. toCreate' \subseteq Profile
        BY <1>1 DEF ServerTypes
      <4> QED
        BY <4>1, NextIsToCreate
    <3>4. CreatedInOrder'
      BY <1>1, <3>1, <3>2, <3>3, BeginsClean
    <3>5. DevicesOfTunnels'
      BY <1>0, <1>1, <3>1 DEF DevicesOfTunnels, ServerTypes
    <3>6. CleanUntilStarted'
      BY <3>2 DEF CleanUntilStarted
    <3> QED
      BY <3>4, <3>5, <3>6
  <2>2. CASE Crash \/ Restart
    BY <1>0, <1>1, <2>2 DEF Crash, Restart, ProcessDies, ProcessStarts, DevicesOfTunnels, CleanUntilStarted,
      CreatedInOrder
  <2>3. CASE UNCHANGED <<phase, toCreate, toDispose, step, tunnels, open>>
    <3>1. NextProfile' = NextProfile
      BY <2>3 DEF NextProfile
    <3>2. DevicesOfTunnels'
      BY <1>0, <2>3, <3>1 DEF DevicesOfTunnels
    <3>3. CleanUntilStarted'
      BY <1>0, <1>3, <2>3, <3>1 DEF CleanUntilStarted
    <3>4. CreatedInOrder'
      <4>1. /\ StepDone("tun")' <=> StepDone("tun")
            /\ StepDone("mss")' <=> StepDone("mss")
            /\ \A r \in FirewallRule : Issued(r)' <=> Issued(r)
        BY <1>1, <2>3, DoneAfter DEF StepDone, Issued
      <4> QED
        BY <1>0, <1>1, <2>3, <3>1, <4>1 DEF CreatedInOrder
    <3> QED
      BY <3>2, <3>3, <3>4
  <2>4. CASE AllStarted \/ GroupWaited \/ WatcherDone
    <3>1. DevicesOfTunnels'
      <4>1. CASE AllStarted
        BY <1>0, <4>1 DEF AllStarted, DevicesOfTunnels
      <4>2. CASE GroupWaited
        <5>1. open = {} /\ toCreate = {} /\ \A p \in Profile : tunnels[p] # "running"
          BY <1>0, <4>2 DEF GroupWaited, GroupEnded, DevicesOfTunnels, ServerTypes
        <5> QED
          BY <4>2, <5>1 DEF GroupWaited, DevicesOfTunnels
      <4>3. CASE WatcherDone
        BY <1>0, <4>3 DEF WatcherDone, DevicesOfTunnels
      <4> QED
        BY <2>4, <4>1, <4>2, <4>3
    <3>2. CleanUntilStarted'
      BY <1>0, <1>3, <2>4 DEF AllStarted, GroupWaited, WatcherDone, CleanUntilStarted
    <3>3. CreatedInOrder'
      BY <2>4 DEF AllStarted, GroupWaited, WatcherDone, CreatedInOrder
    <3> QED
      BY <3>1, <3>2, <3>3
  <2>5. ASSUME NEW p \in Profile, TunnelReturns(p) PROVE DevicesOfTunnels' /\ CleanUntilStarted' /\ CreatedInOrder'
    <3>1. /\ UNCHANGED <<phase, toCreate, toDispose, step, enabled>> /\ open' = open \ {p}
          /\ tunnels[p] = "running" /\ tunnels' = [tunnels EXCEPT ![p] = "returned"]
          /\ tunnels'[p] = "returned" /\ \A q \in Profile \ {p} : tunnels'[q] = tunnels[q]
      BY <1>0, <2>5 DEF TunnelReturns, ServerTypes
    <3>2. NextProfile' = NextProfile
      BY <3>1 DEF NextProfile
    <3>3. DevicesOfTunnels'
      <4>1. phase \in {"create", "wait"}
        BY <1>0, <3>1 DEF DevicesOfTunnels
      <4>2. p \notin toCreate
        BY <1>0, <3>1 DEF DevicesOfTunnels
      <4>3. \A q \in toCreate' : tunnels'[q] = "none"
        BY <1>0, <3>1, <4>2 DEF DevicesOfTunnels, ServerTypes
      <4>4. \A q \in open' : tunnels'[q] = "running" \/ (toCreate' # {} /\ q = NextProfile')
        BY <1>0, <3>1, <3>2 DEF DevicesOfTunnels, ServerTypes
      <4> QED
        BY <1>0, <3>1, <4>1, <4>3, <4>4 DEF DevicesOfTunnels
    <3>4. CleanUntilStarted'
      BY <1>0, <1>3, <3>1, <3>2 DEF CleanUntilStarted
    <3>5. CreatedInOrder'
      <4>1. /\ StepDone("tun")' <=> StepDone("tun")
            /\ StepDone("mss")' <=> StepDone("mss")
            /\ \A r \in FirewallRule : Issued(r)' <=> Issued(r)
        BY <1>1, <3>1, DoneAfter DEF StepDone, Issued
      <4> QED
        BY <1>0, <1>1, <3>1, <3>2, <4>1 DEF CreatedInOrder
    <3> QED
      BY <3>3, <3>4, <3>5
  <2> QED
    BY <2>1, <2>2, <2>3, <2>4, <2>5 DEF QuietServerSteps, CloseSocket, StopServer, UplinkChanges, process
<1> QED
  BY <1>1, <1>2, <1>6, <1>7 DEF ServerSound

(* Tunnels that run are not about the profile that is worked on.           *)
LEMMA TunnelsOfOthersKept ==
  ASSUME ServerTypes, TunnelsAreConfigured, ClampIsPerTunnel => ServingIsClamped,
         NEW p \in Profile, KernelStep(kernel, kernel', p), enabled'.ipv6 = enabled.ipv6,
         \A q \in Profile : tunnels'[q] = "running" => tunnels[q] = "running" /\ q # p,
         \A q \in Profile \ {p} : missed'[q] = missed[q]
  PROVE  TunnelsAreConfigured' /\ (ClampIsPerTunnel => ServingIsClamped)'
<1>1. \A r \in FirewallRule : Needed(r)' <=> Needed(r)
  BY DoneAfter
<1>2. kernel'.clamp.backend = kernel.clamp.backend
  BY DEF KernelStep, ClampStep
<1>3. \A q \in Profile : tunnels'[q] = "running" =>
        /\ q # p /\ tunnels[q] = "running"
        /\ q \in kernel'.links <=> q \in kernel.links
        /\ kernel'.rules[q] = kernel.rules[q]
        /\ kernel.clamp.backend = "iptables" /\ Clamped(kernel.clamp, q) => Clamped(kernel'.clamp, q)
  BY OtherProfileKept
<1>4. TunnelsAreConfigured'
  BY <1>1, <1>3 DEF TunnelsAreConfigured
<1>5. (ClampIsPerTunnel => ServingIsClamped)'
  BY <1>2, <1>3 DEF ClampIsPerTunnel, ServingIsClamped
<1> QED
  BY <1>4, <1>5

(* The rules of all profiles stay in bounds when those of one do.          *)
LEMMA OneCopyMoreKept ==
  ASSUME ServerTypes, OneCopyMore, NEW p \in Profile, KernelStep(kernel, kernel', p),
         \A q \in Profile \ {p} : missed'[q] = missed[q],
         \A r \in FirewallRule : kernel'.rules[p][r] <= missed'[p].rules + 1,
         missed'[p].clamp = 0 => Orderly(kernel'.clamp, p)
  PROVE  OneCopyMore'
<1>1. OneBackend(kernel'.clamp)
  BY DEF KernelStep, ClampStep
<1>2. ASSUME NEW q \in Profile, q # p
      PROVE  /\ \A r \in FirewallRule : kernel'.rules[q][r] <= missed'[q].rules + 1
             /\ missed'[q].clamp = 0 => Orderly(kernel'.clamp, q)
  BY <1>2, OtherProfileKept DEF OneCopyMore
<1> QED
  BY <1>1, <1>2 DEF OneCopyMore

LEMMA MissedIs ==
  ASSUME missed \in [Profile -> [rules : Nat, clamp : Nat]], uplink \in BOOLEAN, NEW p \in Profile
  PROVE  /\ MissedBy(p) \in [Profile -> [rules : Nat, clamp : Nat]]
         /\ \A q \in Profile \ {p} : MissedBy(p)[q] = missed[q]
         /\ MissedBy(p)[p].clamp = missed[p].clamp
         /\ MissedBy(p)[p].rules = IF uplink THEN missed[p].rules ELSE missed[p].rules + 1
  BY DEF MissedBy

(* A cleanup disposes of a profile. *)
LEMMA DisposeKeeps ==
  ASSUME ServerSound, NEW p \in Profile, Dispose(p)
  PROVE  ServerSound'
<1>0. ServerTypes /\ DevicesOfTunnels /\ TunnelsAreConfigured /\ (ClampIsPerTunnel => ServingIsClamped)
      /\ CleanUntilStarted /\ CreatedInOrder /\ OneCopyMore
  BY DEF ServerSound
<1>1. /\ phase \in {"preflight", "postflight"} /\ toDispose' = toDispose \ {p}
      /\ kernel' = TornDown(kernel, p) /\ missed' = MissedBy(p)
      /\ UNCHANGED <<mishaps, enabled, uplink, phase, toCreate, step, tunnels, open, listening, groupDone, serverStop>>
  BY DEF Dispose, CleanupScope
<1>2. /\ kernel \in Kernel /\ OneBackend(kernel.clamp) /\ uplink \in BOOLEAN
      /\ missed \in [Profile -> [rules : Nat, clamp : Nat]]
  BY <1>0 DEF ServerTypes, OneCopyMore
<1>3. /\ KernelStep(kernel, kernel', p) /\ Shrinks(kernel, kernel', p) /\ p \notin kernel'.links
      /\ Orderly(kernel.clamp, p) => Unclamped(kernel'.clamp, p)
      /\ uplink => \A r \in FirewallRule :
           kernel'.rules[p][r] = IF kernel.rules[p][r] > 0 THEN kernel.rules[p][r] - 1 ELSE 0
  BY <1>1, <1>2, TornDownKernel
<1>4. /\ missed' \in [Profile -> [rules : Nat, clamp : Nat]]
      /\ \A q \in Profile \ {p} : missed'[q] = missed[q]
      /\ missed'[p].clamp = missed[p].clamp
      /\ missed'[p].rules = IF uplink THEN missed[p].rules ELSE missed[p].rules + 1
  BY <1>1, <1>2, MissedIs
<1>5. ASSUME NEW r \in FirewallRule PROVE kernel'.rules[p][r] <= missed'[p].rules
  <2>1. kernel.rules[p][r] \in Nat /\ kernel'.rules[p][r] \in Nat /\ missed[p].rules \in Nat
    BY <1>2, <1>3, KernelParts DEF KernelStep
  <2>2. kernel.rules[p][r] <= missed[p].rules + 1
    BY <1>0 DEF OneCopyMore
  <2>3. kernel'.rules[p][r] <= kernel.rules[p][r]
    BY <1>3 DEF Shrinks
  <2> QED
    BY <1>3, <1>4, <2>1, <2>2, <2>3
<1>6. Clean(p)' /\ (missed'[p].clamp = 0 => Orderly(kernel'.clamp, p))
  <2>1. kernel'.clamp \in ClampOf(Profile)
    BY <1>3, KernelParts DEF KernelStep
  <2>2. missed'[p].clamp = 0 => Unclamped(kernel'.clamp, p)
    BY <1>0, <1>3, <1>4 DEF OneCopyMore
  <2> QED
    BY <1>3, <1>5, <2>1, <2>2, UnclampedIsOrderly DEF Clean
<1>7. OneCopyMore'
  <2>1. \A r \in FirewallRule : kernel'.rules[p][r] <= missed'[p].rules + 1
    <3> TAKE r \in FirewallRule
    <3>1. kernel'.rules[p][r] \in Nat /\ missed'[p].rules \in Nat
      BY <1>3, <1>4, KernelParts DEF KernelStep
    <3> QED
      BY <1>5, <3>1
  <2> QED
    BY <1>0, <1>3, <1>4, <1>6, <2>1, OneCopyMoreKept
<1>8. ServerTypes'
  <2>1. CreateSteps' = CreateSteps
    BY <1>1, DoneAfter
  <2> QED
    BY <1>0, <1>1, <1>3, <1>4, <2>1 DEF ServerTypes, KernelStep
<1>9. \A q \in Profile : tunnels'[q] # "running"
  BY <1>0, <1>1 DEF DevicesOfTunnels
<1>10. TunnelsAreConfigured' /\ (ClampIsPerTunnel => ServingIsClamped)'
  BY <1>9 DEF TunnelsAreConfigured, ServingIsClamped
<1>11. DevicesOfTunnels' /\ CreatedInOrder'
  BY <1>0, <1>1 DEF DevicesOfTunnels, CreatedInOrder
<1>12. CleanUntilStarted'
  <2>1. ASSUME NEW q \in Profile \ toDispose' PROVE Clean(q)'
    <3>1. CASE q = p
      BY <1>6, <3>1
    <3>2. CASE q # p
      <4>1. Clean(q)
        BY <1>0, <1>1, <3>2 DEF CleanUntilStarted
      <4> QED
        BY <1>3, <1>4, <3>2, <4>1, OtherProfileKept
    <3> QED
      BY <3>1, <3>2
  <2> QED
    BY <1>1, <2>1 DEF CleanUntilStarted
<1> QED
  BY <1>7, <1>8, <1>10, <1>11, <1>12 DEF ServerSound

(* What a crash between two commands of a teardown leaves.                 *)
LEMMA HalfTornDownKernel ==
  ASSUME kernel \in Kernel, OneBackend(kernel.clamp), NEW p \in Profile, NEW l \in HalfTornDown(p)
  PROVE  KernelStep(kernel, l, p) /\ Shrinks(kernel, l, p)
<1> DEFINE ruled(n) == [kernel EXCEPT !.rules = Decremented(@, p, TeardownRules(n))]
<1>1. ASSUME NEW n
      PROVE  /\ KernelStep(kernel, ruled(n), p) /\ Shrinks(kernel, ruled(n), p)
             /\ ruled(n).clamp = kernel.clamp /\ ruled(n) \in Kernel
  BY RulesDeleted DEF KernelStep
<1>2. CASE \E n \in 0 .. Len(TeardownOrder) - 1 : l = ruled(n)
  BY <1>1, <1>2
<1>3. ASSUME NEW n, NEW c \in CutShort(kernel.clamp, p) \cup {RemoveClamp(kernel.clamp, p)},
             l = [ruled(n) EXCEPT !.clamp = c]
      PROVE  KernelStep(kernel, l, p) /\ Shrinks(kernel, l, p)
  <2> DEFINE k == ruled(n)
  <2>1. k \in Kernel /\ KernelStep(kernel, k, p) /\ Shrinks(kernel, k, p) /\ k.clamp = kernel.clamp
    BY <1>1
  <2>2. ClampStep(Profile, kernel.clamp, c, p)
    BY KernelParts, Removes, RemovesInPart
  <2> HIDE DEF k
  <2>3. l = [k EXCEPT !.clamp = c]
    BY <1>3 DEF k
  <2>4. KernelStep(k, l, p) /\ Shrinks(k, l, p) /\ l \in Kernel
    BY <2>1, <2>2, <2>3, ClampExchanged DEF KernelStep
  <2> QED
    BY <2>1, <2>4, KernelStepsCompose
<1>4. CASE \E c \in CutShort(kernel.clamp, p) : l = [ruled(Len(TeardownOrder)) EXCEPT !.clamp = c]
  BY <1>3, <1>4
<1>5. CASE l = [ruled(Len(TeardownOrder)) EXCEPT !.clamp = RemoveClamp(@, p)]
  <2>1. ruled(Len(TeardownOrder)).clamp = kernel.clamp
    BY <1>1
  <2>2. l = [ruled(Len(TeardownOrder)) EXCEPT !.clamp = RemoveClamp(kernel.clamp, p)]
    <3> HIDE DEF ruled
    <3> QED
      BY <1>5, <2>1
  <2> QED
    BY <1>3, <2>2
<1> QED
  BY <1>2, <1>4, <1>5 DEF HalfTornDown

LEMMA CrashInTeardownKeeps ==
  ASSUME ServerSound, NEW p \in Profile, CrashInTeardown(p)
  PROVE  ServerSound'
<1>0. ServerTypes /\ DevicesOfTunnels /\ TunnelsAreConfigured /\ (ClampIsPerTunnel => ServingIsClamped)
      /\ CleanUntilStarted /\ CreatedInOrder /\ OneCopyMore
  BY DEF ServerSound
<1> DEFINE more == IF Unclamped(kernel'.clamp, p) THEN 0 ELSE 1
<1>1. /\ kernel' \in HalfTornDown(p) /\ ProcessDies /\ UNCHANGED <<enabled, uplink>> /\ Mishap(FALSE)
      /\ missed' = [missed EXCEPT ![p].clamp = @ + more]
  BY DEF CrashInTeardown
<1>2. /\ kernel \in Kernel /\ OneBackend(kernel.clamp) /\ enabled.ipv6 \in BOOLEAN
      /\ missed \in [Profile -> [rules : Nat, clamp : Nat]]
  BY <1>0 DEF ServerTypes, OneCopyMore, Configurations
<1>3. KernelStep(kernel, kernel', p) /\ Shrinks(kernel, kernel', p)
  BY <1>1, <1>2, HalfTornDownKernel
<1>4. /\ missed' \in [Profile -> [rules : Nat, clamp : Nat]]
      /\ \A q \in Profile \ {p} : missed'[q] = missed[q]
      /\ missed'[p].clamp = missed[p].clamp + more /\ missed'[p].rules = missed[p].rules
  <2>1. more \in Nat
    OBVIOUS
  <2> HIDE DEF more
  <2> QED
    BY <1>1, <1>2, <2>1
<1>5. OneCopyMore'
  <2>1. ASSUME NEW r \in FirewallRule PROVE kernel'.rules[p][r] <= missed'[p].rules + 1
    <3>1. kernel.rules[p][r] \in Nat /\ kernel'.rules[p][r] \in Nat /\ missed[p].rules \in Nat
      BY <1>2, <1>3, KernelParts DEF KernelStep
    <3>2. kernel.rules[p][r] <= missed[p].rules + 1 /\ kernel'.rules[p][r] <= kernel.rules[p][r]
      BY <1>0, <1>3 DEF OneCopyMore, Shrinks
    <3> QED
      BY <1>4, <3>1, <3>2
  <2>2. missed'[p].clamp = 0 => Orderly(kernel'.clamp, p)
    <3>1. kernel'.clamp \in ClampOf(Profile) /\ missed[p].clamp \in Nat
      BY <1>2, <1>3, KernelParts DEF KernelStep
    <3>2. missed'[p].clamp = 0 => Unclamped(kernel'.clamp, p)
      BY <1>4, <3>1
    <3> QED
      BY <3>1, <3>2, UnclampedIsOrderly
  <2> QED
    BY <1>0, <1>3, <1>4, <2>1, <2>2, OneCopyMoreKept
<1>6. ServerTypes'
  <2>1. CreateSteps' = CreateSteps /\ step' = "sysctl" /\ "sysctl" \in {CreateSteps[i] : i \in DOMAIN CreateSteps}
    BY <1>1, <1>2, DoneAfter, NothingDone DEF ProcessDies
  <2>2. mishaps' \in 0 .. MaxMishaps
    BY <1>0, <1>1, MishapsBounded DEF ServerTypes
  <2>3. kernel' \in Kernel
    BY <1>3 DEF KernelStep
  <2>4. /\ phase' = "crashed" /\ toDispose' = {} /\ toCreate' = {} /\ open' = {} /\ listening' = {}
        /\ groupDone' = FALSE /\ serverStop' = FALSE
        /\ tunnels' \in [Profile -> {"none", "running", "returned"}]
    BY <1>1 DEF ProcessDies
  <2> HIDE DEF more
  <2> QED
    BY <1>0, <1>1, <1>4, <2>1, <2>2, <2>3, <2>4 DEF ServerTypes
<1>7. TunnelsAreConfigured' /\ (ClampIsPerTunnel => ServingIsClamped)' /\ DevicesOfTunnels' /\ CreatedInOrder'
      /\ CleanUntilStarted'
  BY <1>1 DEF ProcessDies, TunnelsAreConfigured, ServingIsClamped, DevicesOfTunnels, CreatedInOrder, CleanUntilStarted
<1> QED
  BY <1>5, <1>6, <1>7 DEF ServerSound

(* The profile that is being started, and the place of its next command.   *)
LEMMA BeingStarted ==
  ASSUME ServerTypes, DevicesOfTunnels, CreatedInOrder, OneCopyMore, NEW s, Creating(s)
  PROVE  LET p == NextProfile
             i == IndexOfStep(s)
         IN  /\ p \in toCreate /\ p \in Profile /\ tunnels[p] = "none" /\ step = s /\ phase = "create"
             /\ i \in 1 .. Last /\ CreateSteps[i] = s /\ Last \in {11, 15}
             /\ i < Last => StepAfter(s) = CreateSteps[i + 1] /\ IndexOfStep(CreateSteps[i + 1]) = i + 1
             /\ enabled.ipv6 \in BOOLEAN
             /\ p \in kernel.links <=> i > 2
             /\ \A r \in FirewallRule :
                  /\ Issued(r) <=> Needed(r) /\ IndexOfStep(r) < i
                  /\ Issued(r) => kernel.rules[p][r] > 0
                  /\ ~Issued(r) => kernel.rules[p][r] <= missed[p].rules
             /\ IF i > Last - 2 THEN Clamped(kernel.clamp, p)
                ELSE missed[p].clamp = 0 => Unclamped(kernel.clamp, p)
<1> DEFINE p == NextProfile
           i == IndexOfStep(s)
<1>1. phase = "create" /\ toCreate # {} /\ step = s
  BY DEF Creating
<1>2. p \in toCreate /\ p \in Profile /\ tunnels[p] = "none" /\ enabled.ipv6 \in BOOLEAN
  BY <1>1, NextIsToCreate DEF ServerTypes, DevicesOfTunnels, Configurations
<1>3. PICK j \in 1 .. Last : CreateSteps[j] = s
  BY <1>1, <1>2, Places DEF ServerTypes
<1>4. i = j
  BY <1>2, <1>3, Places
<1>5. Last \in {11, 15} /\ IndexOfStep("tun") = 2 /\ IndexOfStep("mss") = Last - 2
  BY <1>2, Places, PlaceTable
<1>6. i < Last => StepAfter(s) = CreateSteps[i + 1] /\ IndexOfStep(CreateSteps[i + 1]) = i + 1
  BY <1>2, <1>3, <1>4, <1>5, Places
<1>7. /\ StepDone("tun") <=> i > 2
      /\ StepDone("mss") <=> i > Last - 2
      /\ \A r \in FirewallRule : Issued(r) <=> Needed(r) /\ IndexOfStep(r) < i
  BY <1>1, <1>3, <1>4, <1>5 DEF StepDone, Issued
<1> HIDE DEF i
<1> QED
  BY <1>1, <1>2, <1>3, <1>4, <1>5, <1>6, <1>7 DEF CreatedInOrder, i

(* What a command adds to the kernel.                                      *)
LEMMA CommandAdds ==
  ASSUME kernel \in Kernel, OneBackend(kernel.clamp), NEW p \in Profile
  PROVE  LET l == AfterCommand(p)
         IN  /\ KernelStep(kernel, l, p)
             /\ p \in l.links <=> p \in kernel.links \/ step = "tun"
             /\ \A r \in FirewallRule : l.rules[p][r] = IF r = step THEN kernel.rules[p][r] + 1 ELSE kernel.rules[p][r]
             /\ step # "mss" => l.clamp = kernel.clamp
             /\ step = "mss" => Clamped(l.clamp, p) /\ (Unclamped(kernel.clamp, p) => Orderly(l.clamp, p))
<1>0. /\ kernel.rules \in [Profile -> [FirewallRule -> Nat]] /\ kernel.links \subseteq Profile
      /\ kernel.clamp \in ClampOf(Profile)
  BY KernelParts
<1>1. ClampStep(Profile, kernel.clamp, kernel.clamp, p)
  BY <1>0 DEF ClampStep
<1>2. CASE step = "tun"
  <2>1. AfterCommand(p) = [kernel EXCEPT !.links = kernel.links \cup {p}]
    BY <1>2 DEF AfterCommand, FirewallRule
  <2>2. /\ AfterCommand(p).links = kernel.links \cup {p} /\ AfterCommand(p).rules = kernel.rules
        /\ AfterCommand(p).clamp = kernel.clamp /\ AfterCommand(p) \in Kernel
    BY <2>1, <1>0 DEF Kernel
  <2> QED
    BY <1>1, <1>2, <2>2 DEF KernelStep, FirewallRule
<1>3. CASE step \in FirewallRule
  <2> DEFINE row == [kernel.rules[p] EXCEPT ![step] = kernel.rules[p][step] + 1]
             rules == [kernel.rules EXCEPT ![p] = row]
  <2>1. AfterCommand(p) = [kernel EXCEPT !.rules = rules]
    BY <1>3 DEF AfterCommand, Added, FirewallRule
  <2>2. row \in [FirewallRule -> Nat]
        /\ \A r \in FirewallRule : row[r] = IF r = step THEN kernel.rules[p][r] + 1 ELSE kernel.rules[p][r]
    BY <1>0, <1>3
  <2> HIDE DEF row
  <2>3. /\ rules \in [Profile -> [FirewallRule -> Nat]] /\ rules[p] = row
        /\ \A q \in Profile \ {p} : rules[q] = kernel.rules[q]
    BY <1>0, <2>2
  <2> HIDE DEF rules
  <2>4. /\ AfterCommand(p).links = kernel.links /\ AfterCommand(p).rules = rules
        /\ AfterCommand(p).clamp = kernel.clamp /\ AfterCommand(p) \in Kernel
    BY <2>1, <2>3 DEF Kernel
  <2>5. step # "tun" /\ step # "mss"
    BY <1>3 DEF FirewallRule
  <2> QED
    BY <1>1, <2>2, <2>3, <2>4, <2>5 DEF KernelStep
<1>4. CASE step = "mss"
  <2> DEFINE c == InstallSucceeds(kernel.clamp, p)
  <2>1. /\ ClampStep(Profile, kernel.clamp, c, p) /\ Clamped(c, p)
        /\ Unclamped(kernel.clamp, p) => Orderly(c, p)
    BY <1>0, Installs
  <2>2. AfterCommand(p) = [kernel EXCEPT !.clamp = c]
    BY <1>4 DEF AfterCommand, FirewallRule
  <2> HIDE DEF c
  <2>3. /\ KernelStep(kernel, AfterCommand(p), p) /\ AfterCommand(p).clamp = c
        /\ AfterCommand(p).rules = kernel.rules /\ AfterCommand(p).links = kernel.links
    BY <2>1, <2>2, ClampExchanged
  <2> QED
    BY <1>4, <2>1, <2>3 DEF FirewallRule
<1>5. CASE step \notin {"tun", "mss"} \cup FirewallRule
  <2>1. AfterCommand(p) = kernel
    BY <1>5 DEF AfterCommand
  <2> QED
    BY <1>1, <1>5, <2>1 DEF KernelStep
<1> QED
  BY <1>2, <1>3, <1>4, <1>5

(* A command of createTunnel that is not the last one succeeds.            *)
LEMMA CommandKeeps ==
  ASSUME ServerSound, NEW s \in {CreateSteps[i] : i \in DOMAIN CreateSteps}, s # "listen", Command(s)
  PROVE  ServerSound'
<1> DEFINE p == NextProfile
           i == IndexOfStep(s)
<1>0. ServerTypes /\ DevicesOfTunnels /\ TunnelsAreConfigured /\ (ClampIsPerTunnel => ServingIsClamped)
      /\ CleanUntilStarted /\ CreatedInOrder /\ OneCopyMore
  BY DEF ServerSound
<1>1. /\ Creating(s) /\ kernel' = AfterCommand(p) /\ step' = StepAfter(s)
      /\ open' = IF s = "tun" THEN open \cup {p} ELSE open
      /\ UNCHANGED <<mishaps, enabled, uplink, phase, toDispose, groupDone, serverStop, missed, listening, tunnels, toCreate>>
  BY DEF Command
<1>2. /\ p \in toCreate /\ p \in Profile /\ tunnels[p] = "none" /\ step = s /\ phase = "create"
      /\ i \in 1 .. Last /\ CreateSteps[i] = s /\ Last \in {11, 15}
      /\ i < Last => StepAfter(s) = CreateSteps[i + 1] /\ IndexOfStep(CreateSteps[i + 1]) = i + 1
      /\ enabled.ipv6 \in BOOLEAN
      /\ p \in kernel.links <=> i > 2
      /\ \A r \in FirewallRule :
           /\ Issued(r) <=> Needed(r) /\ IndexOfStep(r) < i
           /\ Issued(r) => kernel.rules[p][r] > 0
           /\ ~Issued(r) => kernel.rules[p][r] <= missed[p].rules
      /\ IF i > Last - 2 THEN Clamped(kernel.clamp, p)
         ELSE missed[p].clamp = 0 => Unclamped(kernel.clamp, p)
  BY <1>0, <1>1, BeingStarted
<1>3. i < Last /\ step' = CreateSteps[i + 1] /\ IndexOfStep(step') = i + 1
  <2>1. i # Last
    BY <1>2, Places4, Places6 DEF Last
  <2> QED
    BY <1>1, <1>2, <2>1
<1>4. /\ kernel \in Kernel /\ OneBackend(kernel.clamp) /\ kernel.rules \in [Profile -> [FirewallRule -> Nat]]
      /\ missed \in [Profile -> [rules : Nat, clamp : Nat]]
  BY <1>0, KernelParts DEF ServerTypes, OneCopyMore
<1>5. /\ KernelStep(kernel, kernel', p)
      /\ p \in kernel'.links <=> p \in kernel.links \/ s = "tun"
      /\ \A r \in FirewallRule : kernel'.rules[p][r] = IF r = s THEN kernel.rules[p][r] + 1 ELSE kernel.rules[p][r]
      /\ s # "mss" => kernel'.clamp = kernel.clamp
      /\ s = "mss" => Clamped(kernel'.clamp, p) /\ (Unclamped(kernel.clamp, p) => Orderly(kernel'.clamp, p))
  BY <1>1, <1>2, <1>4, CommandAdds
<1>6. /\ IndexOfStep("tun") = 2 /\ IndexOfStep("mss") = Last - 2
      /\ s = "tun" <=> i = 2
      /\ s = "mss" <=> i = Last - 2
      /\ \A r \in FirewallRule : Needed(r) => IndexOfStep(r) \in 5 .. Last - 3 /\ CreateSteps[IndexOfStep(r)] = r
      /\ s \in FirewallRule => Needed(s)
  <2>1. /\ IndexOfStep("tun") = 2 /\ IndexOfStep("mss") = Last - 2
        /\ \A r \in FirewallRule : Needed(r) => IndexOfStep(r) \in 5 .. Last - 3 /\ CreateSteps[IndexOfStep(r)] = r
        /\ CreateSteps[2] = "tun" /\ CreateSteps[Last - 2] = "mss"
    BY <1>2, PlaceTable, Places, Places4, Places6 DEF Last
  <2>2. s \in FirewallRule => Needed(s)
    <3>1. CASE enabled.ipv6
      BY <3>1 DEF Needed
    <3>2. CASE ~enabled.ipv6
      <4>1. i \in 1 .. 11 /\ s = CreateSteps[i]
        BY <1>2, <3>2 DEF Last
      <4> HIDE DEF i
      <4>2. s \notin Rule6
        BY <3>2, <4>1, Places4 DEF Rule6
      <4> QED
        BY <4>2 DEF Needed
    <3> QED
      BY <3>1, <3>2
  <2> QED
    BY <1>2, <2>1, <2>2
<1> HIDE DEF i, p
<1>7. NextProfile' = p
  BY <1>1 DEF NextProfile, p
<1>8. /\ StepDone("tun")' <=> i >= 2
      /\ StepDone("mss")' <=> i >= Last - 2
      /\ \A r \in FirewallRule : Issued(r)' <=> Issued(r) \/ r = s
  <2>1. enabled' = enabled
    BY <1>1
  <2>2. ASSUME NEW r \in FirewallRule PROVE Issued(r)' <=> Issued(r) \/ r = s
    <3>1. Issued(r)' <=> Needed(r) /\ IndexOfStep(r) < i + 1
      BY <1>3, <2>1, DoneAfter
    <3>2. Needed(r) => (IndexOfStep(r) = i <=> r = s)
      BY <1>2, <1>6 DEF i
    <3> QED
      BY <1>2, <1>6, <3>1, <3>2
  <2> QED
    BY <1>2, <1>3, <1>6, <2>1, <2>2, DoneAfter
<1>9. CreatedInOrder'
  <2>1. p \in kernel'.links <=> i >= 2
    BY <1>2, <1>5, <1>6
  <2>2. ASSUME NEW r \in FirewallRule
        PROVE  /\ Issued(r)' => kernel'.rules[p][r] > 0
               /\ ~Issued(r)' => kernel'.rules[p][r] <= missed'[p].rules
    <3>1. kernel.rules[p][r] \in Nat /\ missed' = missed
      BY <1>1, <1>2, <1>4
    <3> QED
      BY <1>2, <1>5, <1>8, <3>1
  <2>3. IF i >= Last - 2 THEN Clamped(kernel'.clamp, p) ELSE missed'[p].clamp = 0 => Unclamped(kernel'.clamp, p)
    BY <1>1, <1>2, <1>5, <1>6
  <2> QED
    BY <1>7, <1>8, <2>1, <2>2, <2>3 DEF CreatedInOrder
<1>10. OneCopyMore'
  <2>1. ASSUME NEW r \in FirewallRule PROVE kernel'.rules[p][r] <= missed'[p].rules + 1
    <3>1. kernel.rules[p][r] \in Nat /\ missed' = missed /\ missed[p].rules \in Nat
      BY <1>1, <1>2, <1>4
    <3>2. CASE r = s
      <4>1. ~Issued(r)
        BY <1>2, <3>2 DEF i
      <4> QED
        BY <1>2, <1>5, <3>1, <3>2, <4>1
    <3>3. CASE r # s
      BY <1>0, <1>2, <1>5, <3>1, <3>3 DEF OneCopyMore
    <3> QED
      BY <3>2, <3>3
  <2>2. missed'[p].clamp = 0 => Orderly(kernel'.clamp, p)
    BY <1>0, <1>1, <1>2, <1>5, <1>6 DEF OneCopyMore
  <2> QED
    BY <1>0, <1>1, <1>2, <1>5, <2>1, <2>2, OneCopyMoreKept
<1>11. ServerTypes'
  <2>1. CreateSteps' = CreateSteps /\ i + 1 \in DOMAIN CreateSteps
    BY <1>1, <1>2, <1>3, DoneAfter, Places
  <2>2. open' \subseteq Profile /\ kernel' \in Kernel
    BY <1>0, <1>1, <1>2, <1>5 DEF ServerTypes, KernelStep
  <2> QED
    BY <1>0, <1>1, <1>3, <2>1, <2>2 DEF ServerTypes
<1>12. DevicesOfTunnels'
  <2>1. \A q \in open' : tunnels'[q] = "running" \/ (toCreate' # {} /\ q = NextProfile')
    BY <1>0, <1>1, <1>2, <1>7 DEF DevicesOfTunnels, p
  <2> QED
    BY <1>0, <1>1, <1>2, <2>1 DEF DevicesOfTunnels
<1>13. TunnelsAreConfigured' /\ (ClampIsPerTunnel => ServingIsClamped)'
  <2>1. \A q \in Profile : tunnels'[q] = "running" => tunnels[q] = "running" /\ q # p
    BY <1>1, <1>2
  <2> QED
    BY <1>0, <1>1, <1>2, <1>5, <2>1, TunnelsOfOthersKept
<1>14. CleanUntilStarted'
  <2>1. ASSUME NEW q \in Profile, q # p, tunnels'[q] = "none" PROVE Clean(q)'
    <3>1. Clean(q)
      BY <1>0, <1>1, <1>2, <2>1 DEF CleanUntilStarted, p
    <3> QED
      BY <1>1, <1>2, <1>5, <2>1, <3>1, OtherProfileKept
  <2>2. toCreate' # {} /\ phase' = "create"
    BY <1>1, <1>2
  <2> QED
    BY <1>7, <2>1, <2>2 DEF CleanUntilStarted
<1> QED
  BY <1>9, <1>10, <1>11, <1>12, <1>13, <1>14 DEF ServerSound

(* The last command of createTunnel: the tunnel runs.                      *)
LEMMA ListenKeeps ==
  ASSUME ServerSound, Command("listen")
  PROVE  ServerSound'
<1> DEFINE p == NextProfile
<1>0. ServerTypes /\ DevicesOfTunnels /\ TunnelsAreConfigured /\ (ClampIsPerTunnel => ServingIsClamped)
      /\ CleanUntilStarted /\ CreatedInOrder /\ OneCopyMore
  BY DEF ServerSound
<1>1. /\ Creating("listen") /\ kernel' = AfterCommand(p) /\ open' = open
      /\ listening' = listening \cup {p} /\ tunnels' = [tunnels EXCEPT ![p] = "running"]
      /\ toCreate' = toCreate \ {p} /\ step' = "sysctl"
      /\ UNCHANGED <<mishaps, enabled, uplink, phase, toDispose, groupDone, serverStop, missed>>
  BY DEF Command
<1>2. /\ p \in toCreate /\ p \in Profile /\ tunnels[p] = "none" /\ step = "listen" /\ phase = "create"
      /\ Last \in {11, 15} /\ enabled.ipv6 \in BOOLEAN
      /\ p \in kernel.links <=> IndexOfStep("listen") > 2
      /\ \A r \in FirewallRule :
           /\ Issued(r) <=> Needed(r) /\ IndexOfStep(r) < IndexOfStep("listen")
           /\ Issued(r) => kernel.rules[p][r] > 0
      /\ IF IndexOfStep("listen") > Last - 2 THEN Clamped(kernel.clamp, p)
         ELSE missed[p].clamp = 0 => Unclamped(kernel.clamp, p)
  BY <1>0, <1>1, BeingStarted
<1>3. IndexOfStep("listen") = Last /\ \A r \in FirewallRule : Needed(r) => IndexOfStep(r) \in 5 .. Last - 3
  BY <1>2, PlaceTable
<1> HIDE DEF p
<1>4. /\ p \in kernel.links /\ Clamped(kernel.clamp, p)
      /\ \A r \in FirewallRule : Needed(r) => kernel.rules[p][r] > 0
  BY <1>2, <1>3
<1>5. kernel' = kernel
  BY <1>1, <1>2 DEF AfterCommand, FirewallRule
<1>6. /\ tunnels \in [Profile -> {"none", "running", "returned"}] /\ tunnels'[p] = "running"
      /\ \A q \in Profile \ {p} : tunnels'[q] = tunnels[q]
      /\ tunnels' \in [Profile -> {"none", "running", "returned"}]
  BY <1>0, <1>1, <1>2 DEF ServerTypes
<1>7. toCreate' \subseteq Profile /\ p \notin toCreate' /\ (toCreate' # {} => NextProfile' \in toCreate')
  BY <1>0, <1>1, NextIsToCreate DEF ServerTypes
<1>8. ASSUME NEW q \in Profile, q # p, tunnels'[q] = "none" PROVE Clean(q)'
  <2>1. Clean(q)
    BY <1>0, <1>2, <1>6, <1>8 DEF CleanUntilStarted, p
  <2> QED
    BY <1>1, <1>5, <2>1 DEF Clean
<1>9. toCreate' # {} => NextProfile' # p /\ NextProfile' \in Profile /\ tunnels'[NextProfile'] = "none"
  BY <1>0, <1>1, <1>6, <1>7 DEF DevicesOfTunnels
<1>10. CleanUntilStarted'
  BY <1>1, <1>2, <1>6, <1>8 DEF CleanUntilStarted
<1>11. CreatedInOrder'
  <2>1. phase' = "create" /\ toCreate' # {} => Clean(NextProfile)'
    <3> SUFFICES ASSUME toCreate' # {} PROVE Clean(NextProfile)'
      OBVIOUS
    <3>1. PICK q \in Profile : q # p /\ tunnels'[q] = "none" /\ q = NextProfile'
      BY <1>9
    <3>2. Clean(q)'
      BY <1>8, <3>1
    <3> QED
      BY <3>1, <3>2 DEF Clean
  <2> QED
    BY <1>1, <1>2, <2>1, BeginsClean
<1>12. ServerTypes'
  <2>1. CreateSteps' = CreateSteps /\ "sysctl" \in {CreateSteps[i] : i \in DOMAIN CreateSteps}
    BY <1>1, <1>2, DoneAfter, NothingDone
  <2> QED
    BY <1>0, <1>1, <1>2, <1>5, <1>6, <1>7, <2>1 DEF ServerTypes
<1>13. DevicesOfTunnels'
  <2>1. \A q \in toCreate' : tunnels'[q] = "none"
    BY <1>0, <1>1, <1>6, <1>7 DEF DevicesOfTunnels
  <2>2. \A q \in open' : tunnels'[q] = "running"
    BY <1>0, <1>1, <1>6 DEF DevicesOfTunnels, ServerTypes, p
  <2> QED
    BY <1>1, <1>2, <2>1, <2>2 DEF DevicesOfTunnels
<1>14. TunnelsAreConfigured'
  <2>1. \A r \in FirewallRule : Needed(r)' <=> Needed(r)
    BY <1>1, DoneAfter
  <2> QED
    BY <1>0, <1>4, <1>5, <1>6, <2>1 DEF TunnelsAreConfigured
<1>15. (ClampIsPerTunnel => ServingIsClamped)'
  BY <1>0, <1>4, <1>5, <1>6 DEF ClampIsPerTunnel, ServingIsClamped
<1>16. OneCopyMore'
  BY <1>0, <1>1, <1>5 DEF OneCopyMore
<1> QED
  BY <1>10, <1>11, <1>12, <1>13, <1>14, <1>15, <1>16 DEF ServerSound

(* What a command that fails leaves: the rules and the MSS rules of its    *)
(* profile are at most what they were, or the MSS rules are part of what   *)
(* the manager was about to install.                                       *)
LEMMA CommandFailsKernel ==
  ASSUME kernel \in Kernel, OneBackend(kernel.clamp), uplink \in BOOLEAN, NEW p \in Profile,
         step \in {CreateSteps[i] : i \in DOMAIN CreateSteps}, enabled.ipv6 \in BOOLEAN,
         NEW l \in AfterCommandFailed(p)
  PROVE  /\ KernelStep(kernel, l, p) /\ Shrinks(kernel, l, p)
         /\ Orderly(kernel.clamp, p) => Orderly(l.clamp, p) \/ step = "mss"
         /\ step = "mss" /\ Unclamped(kernel.clamp, p) => Unclamped(l.clamp, p)
<1>0. /\ kernel.rules \in [Profile -> [FirewallRule -> Nat]] /\ kernel.clamp \in ClampOf(Profile)
      /\ \A r \in FirewallRule : kernel.rules[p][r] <= kernel.rules[p][r]
  BY KernelParts
<1>1. KernelStep(kernel, kernel, p) /\ Shrinks(kernel, kernel, p)
  BY <1>0 DEF KernelStep, Shrinks, ClampStep
<1>2. ASSUME NEW k \in Kernel, KernelStep(kernel, k, p), Shrinks(kernel, k, p), l = TornDown(k, p)
      PROVE  /\ KernelStep(kernel, l, p) /\ Shrinks(kernel, l, p)
             /\ Orderly(k.clamp, p) => Unclamped(l.clamp, p) /\ Orderly(l.clamp, p)
  <2>1. OneBackend(k.clamp)
    BY <1>2 DEF KernelStep, ClampStep
  <2>2. /\ KernelStep(k, l, p) /\ Shrinks(k, l, p)
        /\ Orderly(k.clamp, p) => Unclamped(l.clamp, p)
    BY <1>2, <2>1, TornDownKernel
  <2>3. l \in Kernel /\ l.clamp \in ClampOf(Profile)
    BY <2>2, KernelParts DEF KernelStep
  <2>4. KernelStep(kernel, l, p) /\ Shrinks(kernel, l, p)
    BY <1>2, <2>2, <2>3, KernelStepsCompose
  <2> QED
    BY <2>2, <2>3, <2>4, UnclampedIsOrderly
<1>3. /\ KernelStep(kernel, RolledBack(p), p) /\ Shrinks(kernel, RolledBack(p), p)
      /\ RolledBack(p).clamp = kernel.clamp /\ RolledBack(p) \in Kernel
  <2> DEFINE done == {r \in NatRule : Needed(r) /\ StepDone(r)}
             forwarding == IF step = "mss" THEN {r \in FirewallRule \ NatRule : Needed(r)} ELSE {}
             gone == done \cup forwarding
  <2>1. RolledBack(p) = [kernel EXCEPT !.rules = Decremented(@, p, gone)]
    BY DEF RolledBack
  <2> HIDE DEF gone
  <2> DEFINE m == [kernel EXCEPT !.rules = Decremented(kernel.rules, p, gone)]
  <2>2. KernelStep(kernel, m, p) /\ Shrinks(kernel, m, p) /\ m.clamp = kernel.clamp
    BY RulesDeleted
  <2>3. RolledBack(p) = m
    BY <2>1
  <2> HIDE DEF m
  <2> QED
    BY <2>2, <2>3 DEF KernelStep
<1>4. CASE step \in {"sysctl", "listen"}
  <2>1. l = kernel
    BY <1>4 DEF AfterCommandFailed, FirewallRule
  <2> QED
    BY <1>1, <1>4, <2>1
<1>5. CASE step = "tun"
  <2>1. l = [kernel EXCEPT !.links = kernel.links \ {p}]
    BY <1>5 DEF AfterCommandFailed, FirewallRule
  <2>2. l.links = kernel.links \ {p} /\ l.rules = kernel.rules /\ l.clamp = kernel.clamp /\ l \in Kernel
    BY <2>1 DEF Kernel
  <2> QED
    BY <1>0, <1>1, <1>5, <2>2 DEF KernelStep, Shrinks
<1>6. CASE step \in {"name", "uplink", "wrap"}
  <2>1. l = TornDown(kernel, p)
    BY <1>6 DEF AfterCommandFailed, FirewallRule
  <2> QED
    BY <1>1, <1>2, <1>6, <2>1
<1>7. CASE step \in FirewallRule
  <2>1. l = TornDown(RolledBack(p), p) /\ step # "mss"
    BY <1>7 DEF AfterCommandFailed, FirewallRule
  <2> QED
    BY <1>2, <1>3, <2>1
<1>8. CASE step = "mss"
  <2>1. PICK c \in InstallFails(kernel.clamp, p) : l = TornDown([RolledBack(p) EXCEPT !.clamp = c], p)
    BY <1>8 DEF AfterCommandFailed, FirewallRule
  <2>2. /\ ClampStep(Profile, kernel.clamp, c, p)
        /\ Unclamped(kernel.clamp, p) => Orderly(c, p)
    BY <1>0, InstallsInPart
  <2> DEFINE k == [RolledBack(p) EXCEPT !.clamp = c]
  <2>3. KernelStep(RolledBack(p), k, p) /\ Shrinks(RolledBack(p), k, p) /\ k.clamp = c
    BY <1>3, <2>2, ClampExchanged
  <2> HIDE DEF k
  <2>4. KernelStep(kernel, k, p) /\ Shrinks(kernel, k, p) /\ k \in Kernel
    <3>1. k \in Kernel
      BY <2>3 DEF KernelStep
    <3> QED
      BY <1>3, <2>3, <3>1, KernelStepsCompose
  <2>5. l = TornDown(k, p)
    BY <2>1 DEF k
  <2> QED
    BY <1>2, <1>8, <2>2, <2>3, <2>4, <2>5
<1>9. step \in {"sysctl", "listen", "tun", "name", "uplink", "wrap", "mss"} \cup FirewallRule
  <2>1. PICK i \in DOMAIN CreateSteps : step = CreateSteps[i]
    OBVIOUS
  <2>2. CASE enabled.ipv6
    BY <2>1, <2>2, Places6 DEF FirewallRule
  <2>3. CASE ~enabled.ipv6
    BY <2>1, <2>3, Places4 DEF FirewallRule
  <2> QED
    BY <2>2, <2>3
<1> QED
  BY <1>4, <1>5, <1>6, <1>7, <1>8, <1>9

(* A command of createTunnel fails. *)
LEMMA CommandFailsKeeps ==
  ASSUME ServerSound, NEW s \in {CreateSteps[i] : i \in DOMAIN CreateSteps}, CommandFails(s)
  PROVE  ServerSound'
<1> DEFINE p == NextProfile
           disposes == s \notin {"sysctl", "tun", "listen"}
<1>0. ServerTypes /\ DevicesOfTunnels /\ TunnelsAreConfigured /\ (ClampIsPerTunnel => ServingIsClamped)
      /\ CleanUntilStarted /\ CreatedInOrder /\ OneCopyMore
  BY DEF ServerSound
<1>1. /\ Creating(s) /\ Mishap(s = "uplink" /\ ~uplink) /\ kernel' \in AfterCommandFailed(p)
      /\ missed' = IF disposes THEN MissedBy(p) ELSE missed
      /\ open' = open \ {p} /\ toCreate' = {} /\ groupDone' = TRUE /\ phase' = "wait"
      /\ UNCHANGED <<enabled, uplink, toDispose, step, tunnels, listening, serverStop>>
  BY DEF CommandFails
<1>2. /\ p \in Profile /\ tunnels[p] = "none" /\ step = s /\ phase = "create"
      /\ enabled.ipv6 \in BOOLEAN /\ Last \in {11, 15}
      /\ IF IndexOfStep(s) > Last - 2 THEN Clamped(kernel.clamp, p)
         ELSE missed[p].clamp = 0 => Unclamped(kernel.clamp, p)
  BY <1>0, <1>1, BeingStarted
<1>3. /\ kernel \in Kernel /\ OneBackend(kernel.clamp) /\ uplink \in BOOLEAN
      /\ missed \in [Profile -> [rules : Nat, clamp : Nat]]
  BY <1>0 DEF ServerTypes, OneCopyMore
<1>4. /\ KernelStep(kernel, kernel', p) /\ Shrinks(kernel, kernel', p)
      /\ Orderly(kernel.clamp, p) => Orderly(kernel'.clamp, p) \/ s = "mss"
      /\ s = "mss" /\ Unclamped(kernel.clamp, p) => Unclamped(kernel'.clamp, p)
  BY <1>1, <1>2, <1>3, CommandFailsKernel
<1>5. /\ missed' \in [Profile -> [rules : Nat, clamp : Nat]]
      /\ \A q \in Profile \ {p} : missed'[q] = missed[q]
      /\ missed'[p].clamp = missed[p].clamp
      /\ missed'[p].rules \in {missed[p].rules, missed[p].rules + 1}
  BY <1>1, <1>2, <1>3, MissedIs
<1> HIDE DEF p, disposes
<1>6. ASSUME NEW r \in FirewallRule PROVE kernel'.rules[p][r] <= missed'[p].rules + 1
  <2>1. kernel.rules[p][r] \in Nat /\ kernel'.rules[p][r] \in Nat /\ missed[p].rules \in Nat
    BY <1>2, <1>3, <1>4, KernelParts DEF KernelStep
  <2>2. kernel.rules[p][r] <= missed[p].rules + 1 /\ kernel'.rules[p][r] <= kernel.rules[p][r]
    BY <1>0, <1>2, <1>4 DEF OneCopyMore, Shrinks
  <2> QED
    BY <1>5, <2>1, <2>2
<1>7. missed'[p].clamp = 0 => Orderly(kernel'.clamp, p)
  <2>1. s = "mss" => IndexOfStep(s) = Last - 2
    BY <1>2, PlaceTable
  <2>2. s = "mss" => (missed[p].clamp = 0 => Unclamped(kernel.clamp, p))
    BY <1>2, <2>1
  <2>3. missed[p].clamp = 0 => Orderly(kernel.clamp, p)
    BY <1>0, <1>2 DEF OneCopyMore
  <2>4. kernel'.clamp \in ClampOf(Profile)
    BY <1>4, KernelParts DEF KernelStep
  <2> QED
    BY <1>2, <1>4, <1>5, <2>2, <2>3, <2>4, UnclampedIsOrderly
<1>8. OneCopyMore'
  BY <1>0, <1>2, <1>4, <1>5, <1>6, <1>7, OneCopyMoreKept
<1>9. ServerTypes'
  <2>1. CreateSteps' = CreateSteps
    BY <1>1, DoneAfter
  <2>2. mishaps' \in 0 .. MaxMishaps
    BY <1>0, <1>1, MishapsBounded DEF ServerTypes
  <2> QED
    BY <1>0, <1>1, <1>4, <1>5, <2>1, <2>2 DEF ServerTypes, KernelStep
<1>10. DevicesOfTunnels'
  BY <1>0, <1>1, <1>2 DEF DevicesOfTunnels, p
<1>11. TunnelsAreConfigured' /\ (ClampIsPerTunnel => ServingIsClamped)'
  <2>1. \A q \in Profile : tunnels'[q] = "running" => tunnels[q] = "running" /\ q # p
    BY <1>1, <1>2
  <2> QED
    BY <1>0, <1>1, <1>2, <1>4, <1>5, <2>1, TunnelsOfOthersKept
<1>12. CleanUntilStarted' /\ CreatedInOrder'
  BY <1>1 DEF CleanUntilStarted, CreatedInOrder
<1> QED
  BY <1>8, <1>9, <1>10, <1>11, <1>12 DEF ServerSound

LEMMA InitServer == ServerInit => ServerSound
<1> SUFFICES ASSUME ServerInit PROVE ServerSound
  OBVIOUS
<1>1. PICK backend \in Backends, ip6 \in Ip6Tables :
        kernel = [links |-> {},
                  rules |-> [p \in Profile |-> [r \in FirewallRule |-> 0]],
                  clamp |-> NewClamp(Profile, backend, ip6)]
  BY DEF ServerInit
<1> DEFINE c == NewClamp(Profile, backend, ip6)
<1>2. backend \in {"iptables", "nft"} /\ ip6 \in BOOLEAN
  BY ServerRuntimeAssumption
<1>3. c \in ClampOf(Profile) /\ OneBackend(c) /\ \A p \in Profile : Unclamped(c, p) /\ Orderly(c, p)
  BY <1>2, NewClampIsClean, UnclampedIsOrderly
<1> HIDE DEF c
<1>4. kernel.links = {} /\ kernel.clamp = c /\ \A p \in Profile, r \in FirewallRule : kernel.rules[p][r] = 0
  BY <1>1 DEF c
<1>5. kernel \in Kernel
  BY <1>1, <1>3 DEF Kernel, c
<1>6. /\ enabled \in Configurations /\ enabled.ipv6 \in BOOLEAN
      /\ mishaps = 0 /\ uplink = TRUE /\ phase = "preflight" /\ toDispose = Profile /\ toCreate = {}
      /\ step = "sysctl" /\ tunnels = [p \in Profile |-> "none"] /\ open = {} /\ listening = {}
      /\ groupDone = FALSE /\ serverStop = FALSE /\ missed = [p \in Profile |-> [rules |-> 0, clamp |-> 0]]
  BY DEF ServerInit, Configurations
<1>7. "sysctl" \in {CreateSteps[i] : i \in DOMAIN CreateSteps}
  BY <1>6, NothingDone
<1>8. mishaps \in 0 .. MaxMishaps
  BY <1>6, ServerRuntimeAssumption
<1>9. missed \in [Profile -> [rules : Nat, clamp : Nat]] /\ \A p \in Profile : missed[p].rules = 0
  BY <1>6
<1>10. tunnels \in [Profile -> {"none", "running", "returned"}] /\ \A p \in Profile : tunnels[p] = "none"
  BY <1>6
<1>11. ServerTypes
  BY <1>5, <1>6, <1>7, <1>8, <1>9, <1>10 DEF ServerTypes
<1>12. DevicesOfTunnels /\ CleanUntilStarted /\ CreatedInOrder
  BY <1>6, <1>10 DEF DevicesOfTunnels, CleanUntilStarted, CreatedInOrder
<1>13. TunnelsAreConfigured /\ ServingIsClamped
  BY <1>10 DEF TunnelsAreConfigured, ServingIsClamped
<1>14. OneCopyMore
  BY <1>3, <1>4, <1>9 DEF OneCopyMore
<1> QED
  BY <1>11, <1>12, <1>13, <1>14 DEF ServerSound

LEMMA ServerStep == ServerSound /\ [ServerNext]_serverVars => ServerSound'
<1> SUFFICES ASSUME ServerSound, [ServerNext]_serverVars PROVE ServerSound'
  OBVIOUS
<1>1. CASE UNCHANGED serverVars
  <2>1. /\ UNCHANGED <<mishaps, enabled, uplink, kernel, phase, toDispose, toCreate, step, tunnels, open,
                      listening, groupDone, serverStop, missed>>
    BY <1>1 DEF serverVars, process
  <2>2. /\ NextProfile' = NextProfile /\ CreateSteps' = CreateSteps
        /\ \A r \in FirewallRule : Needed(r)' <=> Needed(r)
        /\ StepDone("tun")' <=> StepDone("tun")
        /\ StepDone("mss")' <=> StepDone("mss")
        /\ \A r \in FirewallRule : Issued(r)' <=> Issued(r)
    BY <2>1 DEF NextProfile, CreateSteps, Needed, StepDone, Issued, IndexOfStep
  <2>3. \A p \in Profile : Clean(p)' <=> Clean(p)
    BY <2>1 DEF Clean
  <2>4. ServerTypes' /\ OneCopyMore'
    BY <2>1, <2>2 DEF ServerSound, ServerTypes, OneCopyMore
  <2>5. TunnelsAreConfigured' /\ (ClampIsPerTunnel => ServingIsClamped)'
    BY <2>1, <2>2 DEF ServerSound, TunnelsAreConfigured, ServingIsClamped, ClampIsPerTunnel
  <2>6. DevicesOfTunnels' /\ CleanUntilStarted'
    BY <2>1, <2>2, <2>3 DEF ServerSound, DevicesOfTunnels, CleanUntilStarted
  <2>7. CreatedInOrder'
    BY <2>1, <2>2 DEF ServerSound, CreatedInOrder
  <2> QED
    BY <2>4, <2>5, <2>6, <2>7 DEF ServerSound
<1>2. ASSUME NEW p \in Profile, Dispose(p) PROVE ServerSound'
  BY <1>2, DisposeKeeps
<1>3. ASSUME NEW p \in Profile, CrashInTeardown(p) PROVE ServerSound'
  BY <1>3, CrashInTeardownKeeps
<1>4. CASE QuietServerSteps
  BY <1>4, ServerQuiet
<1>5. ASSUME NEW s \in {CreateSteps[i] : i \in DOMAIN CreateSteps}, Command(s) PROVE ServerSound'
  BY <1>5, CommandKeeps, ListenKeeps
<1>6. ASSUME NEW s \in {CreateSteps[i] : i \in DOMAIN CreateSteps}, CommandFails(s) PROVE ServerSound'
  BY <1>6, CommandFailsKeeps
<1> QED
  BY <1>1, <1>2, <1>3, <1>4, <1>5, <1>6 DEF ServerNext, ServerSteps, QuietServerSteps

(* The server's state, whatever the firewall's backend: everything that    *)
(* ServerRuntimeInv says, and of the MSS rules of tunnels that run as far  *)
(* as the backend keeps the rules of one device apart from another's.      *)
THEOREM ServerSoundAlways == ServerSpec => []ServerSound
  BY InitServer, ServerStep, PTL DEF ServerSpec

(* The backend that was found first is kept, whatever is done with it.     *)
LEMMA BackendStays ==
  ServerSound /\ [ServerNext]_serverVars => kernel'.clamp.backend = kernel.clamp.backend
<1> SUFFICES ASSUME ServerSound, [ServerNext]_serverVars PROVE kernel'.clamp.backend = kernel.clamp.backend
  OBVIOUS
<1>0. ServerTypes /\ DevicesOfTunnels /\ CreatedInOrder /\ OneCopyMore
  BY DEF ServerSound
<1>1. kernel \in Kernel /\ OneBackend(kernel.clamp) /\ uplink \in BOOLEAN /\ enabled.ipv6 \in BOOLEAN
      /\ step \in {CreateSteps[i] : i \in DOMAIN CreateSteps}
  BY <1>0 DEF ServerTypes, OneCopyMore, Configurations
<1>2. CASE UNCHANGED kernel
  BY <1>2
<1>3. CASE \E p \in Profile : KernelStep(kernel, kernel', p)
  BY <1>3 DEF KernelStep, ClampStep
<1>4. ASSUME NEW p \in Profile, Dispose(p) PROVE KernelStep(kernel, kernel', p)
  <2>1. kernel' = TornDown(kernel, p)
    BY <1>4 DEF Dispose, CleanupScope
  <2> QED
    BY <1>1, <2>1, TornDownKernel
<1>5. ASSUME NEW p \in Profile, CrashInTeardown(p) PROVE KernelStep(kernel, kernel', p)
  <2>1. kernel' \in HalfTornDown(p)
    BY <1>5 DEF CrashInTeardown
  <2> QED
    BY <1>1, <2>1, HalfTornDownKernel
<1>6. ASSUME NEW s \in {CreateSteps[i] : i \in DOMAIN CreateSteps}, Creating(s)
      PROVE  NextProfile \in Profile
  BY <1>0, <1>6, BeingStarted
<1>7. ASSUME NEW s \in {CreateSteps[i] : i \in DOMAIN CreateSteps}, Command(s)
      PROVE  \E p \in Profile : KernelStep(kernel, kernel', p)
  <2>1. kernel' = AfterCommand(NextProfile) /\ NextProfile \in Profile
    BY <1>6, <1>7 DEF Command
  <2> QED
    BY <1>1, <2>1, CommandAdds
<1>8. ASSUME NEW s \in {CreateSteps[i] : i \in DOMAIN CreateSteps}, CommandFails(s)
      PROVE  \E p \in Profile : KernelStep(kernel, kernel', p)
  <2>1. kernel' \in AfterCommandFailed(NextProfile) /\ NextProfile \in Profile
    BY <1>6, <1>8 DEF CommandFails
  <2> QED
    BY <1>1, <2>1, CommandFailsKernel
<1>9. CASE QuietServerSteps
  BY <1>2, <1>9, <1>0, ServerTypesQuiet
<1>10. CASE UNCHANGED serverVars
  BY <1>2, <1>10 DEF serverVars
<1> QED
  BY <1>3, <1>4, <1>5, <1>7, <1>8, <1>9, <1>10 DEF ServerNext, ServerSteps, QuietServerSteps

(* ServerRuntimeInv, for every order of profiles, on a machine where the   *)
(* MSS manager of mssclamp finds iptables, or when there is one profile:   *)
(* a tunnel that runs has its link, its firewall rules and its MSS rules,  *)
(* what the kernel has of a profile is what createTunnel has added to it,  *)
(* and one life of the server adds one copy of a rule.  With nftables and  *)
(* two tunnels the MSS rules of the first are gone: see ServingIsClamped.  *)
THEOREM ServerIsSound ==
  ASSUME Backends \subseteq {"iptables"} \/ \A p, q \in Profile : p = q
  PROVE  ServerSpec => []ServerRuntimeInv
<1>1. ServerInit => ClampIsPerTunnel
  <2> SUFFICES ASSUME ServerInit PROVE ClampIsPerTunnel
    OBVIOUS
  <2>1. kernel.clamp.backend \in Backends
    BY DEF ServerInit, NewClamp
  <2> QED
    BY <2>1 DEF ClampIsPerTunnel
<1>2. ClampIsPerTunnel /\ ServerSound /\ [ServerNext]_serverVars => ClampIsPerTunnel'
  BY BackendStays DEF ClampIsPerTunnel
<1>3. ServerSound /\ ClampIsPerTunnel => ServerRuntimeInv
  BY DEF ServerSound, ServerRuntimeInv
<1> QED
  BY <1>1, <1>2, <1>3, ServerSoundAlways, PTL DEF ServerSpec

(* NothingPilesUp: after the cleanup before or after no link is left and   *)
(* of the rules only what a teardown without an uplink, or one that a      *)
(* crash cut short, could not delete, for every configuration, order of    *)
(* profiles, backend, and number of crashes, restarts and failed commands. *)
THEOREM ServerNothingPilesUp == ServerSpec => []NothingPilesUp
<1>1. ASSUME ServerSound PROVE NothingPilesUp
  <2>0. ServerTypes /\ DevicesOfTunnels /\ CleanUntilStarted /\ CreatedInOrder /\ enabled.ipv6 \in BOOLEAN
    BY <1>1 DEF ServerSound, ServerTypes, Configurations
  <2>1. CASE phase \in {"watcher", "done"}
    BY <2>0, <2>1 DEF NothingPilesUp, CleanUntilStarted
  <2>2. ASSUME phase = "create", tunnels = [p \in Profile |-> "none"], step = "sysctl", NEW p \in Profile
        PROVE  Clean(p)
    <3>1. CASE ~(toCreate # {} /\ p = NextProfile)
      <4>1. tunnels[p] = "none"
        BY <2>2
      <4> QED
        BY <2>0, <2>2, <3>1, <4>1 DEF CleanUntilStarted
    <3>2. CASE toCreate # {} /\ p = NextProfile
      <4>1. ~StepDone("tun") /\ ~StepDone("mss") /\ \A r \in FirewallRule : ~Issued(r)
        BY <2>0, <2>2, NothingDone DEF StepDone, Issued
      <4> QED
        BY <2>0, <2>2, <3>2, <4>1 DEF CreatedInOrder, Clean
    <3> QED
      BY <3>1, <3>2
  <2> QED
    BY <2>1, <2>2 DEF NothingPilesUp
<1> QED
  BY <1>1, ServerSoundAlways, PTL
-----------------------------------------------------------------------------
(* The tunnels of Windows and macOS. *)

Setups ==
  [system : {"windows", "darwin"}, stacks : {{"v4"}, {"v6"}, Stack}, domain : BOOLEAN, others : BOOLEAN]
Route == [to : ServerAddress, via : Uplink]
TunnelCommand == {"name", "route", "address", "split", "mtu", "dns"} \X (Stack \cup {""})
AnyDevice == [split : [Stack -> {"none", "both"}], addresses : SUBSET Stack, dns : SUBSET Stack]

PlatformTypes ==
  /\ setup \in Setups
  /\ where \in {"dispose", "dial", "create", "tunnel", "failed"}
  /\ todo \in Seq(TunnelCommand)
  /\ pinned \in ServerAddress \cup {NoAddress}
  /\ known \in [Stack -> [to : ServerAddress \cup {NoAddress}, via : Uplink]]
  /\ device \in AnyDevice
  /\ hostRoutes \subseteq Route /\ inherited \subseteq hostRoutes
  /\ uplinkNow \in Uplink

(* What is still to be done: c is among it. *)
Ahead(c) == \E i \in DOMAIN todo : todo[i] = c
RouteAhead == \E i \in DOMAIN todo : todo[i][1] = "route"
Configures(c) == c[1] \in {"address", "split", "dns"}

(* The routes to the server come first, one for a family, and no family    *)
(* gets anything that the tunnel does not have.                            *)
InOrder(commands) ==
  /\ \A i, j \in DOMAIN commands : Configures(commands[i]) /\ commands[j][1] = "route" => j < i
  /\ \A i, j \in DOMAIN commands :
       commands[i][1] = "route" /\ commands[j][1] = "route" /\ commands[i][2] = commands[j][2] => i = j
  /\ \A i \in DOMAIN commands :
       commands[i][1] \in {"route", "address", "split"} => commands[i][2] \in setup.stacks

(* Routes of this process are the ones it knows. *)
OwnIsKnown == hostRoutes \ inherited \subseteq {known[f] : f \in setup.stacks}

CreatesInOrder ==
  where = "create" =>
    /\ todo # << >> /\ InOrder(todo)
    /\ RouteAhead => device = NoDevice
    /\ Ahead(<<"route", pinned[1]>>) => hostRoutes \subseteq inherited
    /\ Splits \subseteq setup.stacks /\ device.addresses \subseteq setup.stacks
    /\ \A f \in setup.stacks : /\ f \in Splits \/ Ahead(<<"split", f>>)
                               /\ f \in device.addresses \/ Ahead(<<"address", f>>)

ServerIsPinned ==
  where \in {"create", "tunnel"} =>
    /\ pinned \in ServerAddress
    /\ pinned[1] \in setup.stacks => Ahead(<<"route", pinned[1]>>) \/ RoutesTo(pinned) # {}

PlatformInv ==
  /\ PlatformTypes
  /\ OwnIsKnown
  /\ CreatesInOrder
  /\ ServerIsPinned
  /\ where \in {"dial", "failed"} => device = NoDevice /\ hostRoutes \subseteq inherited
  /\ where = "tunnel" => todo = << >> /\ Configured

LEMMA CommandsAre ==
  ASSUME setup \in Setups
  PROVE  /\ Commands \in Seq(TunnelCommand) /\ Commands # << >>
         /\ InOrder(Commands)
         /\ \A f \in setup.stacks : \A w \in {"split", "address", "route"} :
              \E i \in DOMAIN Commands : Commands[i] = <<w, f>>
<1>1. CASE Single /\ setup.system = "windows"
  <2>1. PICK f \in Stack : setup.stacks = {f}
    BY <1>1 DEF Setups, Single, Stack
  <2> DEFINE a == <<"route", f>>
             b == <<"address", f>>
             c == <<"split", f>>
             d == <<"mtu", "">>
             e == <<"dns", "">>
  <2>2. Commands = <<a, b, c, d, e>>
    BY <1>1, <2>1 DEF Commands, OnlyStack, Single, SingleWindows
  <2>3. a \in TunnelCommand /\ b \in TunnelCommand /\ c \in TunnelCommand /\ d \in TunnelCommand /\ e \in TunnelCommand
    BY <2>1 DEF TunnelCommand
  <2>4. /\ a[1] = "route" /\ a[2] = f
        /\ b[1] = "address" /\ b[2] = f
        /\ c[1] = "split" /\ c[2] = f
        /\ d[1] = "mtu" /\ d[2] = ""
        /\ e[1] = "dns" /\ e[2] = ""
    OBVIOUS
  <2>5. /\ a = <<"route", f>>
        /\ b = <<"address", f>>
        /\ c = <<"split", f>>
    OBVIOUS
  <2> HIDE DEF a, b, c, d, e
  <2>6. DOMAIN Commands = 1 .. 5 /\ Commands \in Seq(TunnelCommand) /\ Commands # << >>
    BY <2>2, <2>3
  <2>7. Commands[1] = a /\ Commands[2] = b /\ Commands[3] = c /\ Commands[4] = d /\ Commands[5] = e
    BY <2>2
  <2>8. InOrder(Commands)
    <3>1. /\ ~Configures(a) /\ a[1] = "route" /\ a[2] \in setup.stacks
          /\ Configures(b) /\ b[1] # "route" /\ b[2] \in setup.stacks
          /\ Configures(c) /\ c[1] # "route" /\ c[2] \in setup.stacks
          /\ ~Configures(d) /\ d[1] # "route" /\ d[1] \notin {"route", "address", "split"}
          /\ Configures(e) /\ e[1] # "route" /\ e[1] \notin {"route", "address", "split"}
      BY <2>1, <2>4 DEF Configures
    <3>2. \A i \in 1 .. 5 : i = 1 \/ i = 2 \/ i = 3 \/ i = 4 \/ i = 5
      OBVIOUS
    <3>3. \A i \in 1 .. 5 :
            /\ Configures(Commands[i]) => i > 1
            /\ Commands[i][1] = "route" => i <= 1
            /\ Commands[i][1] \in {"route", "address", "split"} => Commands[i][2] \in setup.stacks
      BY <2>7, <3>1, <3>2
    <3>4. \A i \in 1 .. 5 : Commands[i][1] = "route" => (i = 1 /\ Commands[i][2] = f)
      BY <2>4, <2>7, <3>1, <3>2
    <3> QED
      BY <2>6, <3>3, <3>4 DEF InOrder
  <2>9. 1 \in DOMAIN Commands /\ 2 \in DOMAIN Commands /\ 3 \in DOMAIN Commands
    BY <2>6
  <2> QED
    BY <2>1, <2>5, <2>6, <2>7, <2>8, <2>9
<1>2. CASE Single /\ setup.system = "darwin"
  <2>1. PICK f \in Stack : setup.stacks = {f}
    BY <1>2 DEF Setups, Single, Stack
  <2> DEFINE a == <<"name", "">>
             b == <<"route", f>>
             c == <<"address", f>>
             d == <<"split", f>>
  <2>2. Commands = <<a, b, c, d>>
    BY <1>2, <2>1 DEF Commands, OnlyStack, Single, SingleDarwin
  <2>3. a \in TunnelCommand /\ b \in TunnelCommand /\ c \in TunnelCommand /\ d \in TunnelCommand
    BY <2>1 DEF TunnelCommand
  <2>4. /\ a[1] = "name" /\ a[2] = ""
        /\ b[1] = "route" /\ b[2] = f
        /\ c[1] = "address" /\ c[2] = f
        /\ d[1] = "split" /\ d[2] = f
    OBVIOUS
  <2>5. /\ b = <<"route", f>>
        /\ c = <<"address", f>>
        /\ d = <<"split", f>>
    OBVIOUS
  <2> HIDE DEF a, b, c, d
  <2>6. DOMAIN Commands = 1 .. 4 /\ Commands \in Seq(TunnelCommand) /\ Commands # << >>
    BY <2>2, <2>3
  <2>7. Commands[1] = a /\ Commands[2] = b /\ Commands[3] = c /\ Commands[4] = d
    BY <2>2
  <2>8. InOrder(Commands)
    <3>1. /\ ~Configures(a) /\ a[1] # "route" /\ a[1] \notin {"route", "address", "split"}
          /\ ~Configures(b) /\ b[1] = "route" /\ b[2] \in setup.stacks
          /\ Configures(c) /\ c[1] # "route" /\ c[2] \in setup.stacks
          /\ Configures(d) /\ d[1] # "route" /\ d[2] \in setup.stacks
      BY <2>1, <2>4 DEF Configures
    <3>2. \A i \in 1 .. 4 : i = 1 \/ i = 2 \/ i = 3 \/ i = 4
      OBVIOUS
    <3>3. \A i \in 1 .. 4 :
            /\ Configures(Commands[i]) => i > 2
            /\ Commands[i][1] = "route" => i <= 2
            /\ Commands[i][1] \in {"route", "address", "split"} => Commands[i][2] \in setup.stacks
      BY <2>7, <3>1, <3>2
    <3>4. \A i \in 1 .. 4 : Commands[i][1] = "route" => (i = 2 /\ Commands[i][2] = f)
      BY <2>4, <2>7, <3>1, <3>2
    <3> QED
      BY <2>6, <3>3, <3>4 DEF InOrder
  <2>9. 2 \in DOMAIN Commands /\ 3 \in DOMAIN Commands /\ 4 \in DOMAIN Commands
    BY <2>6
  <2> QED
    BY <2>1, <2>5, <2>6, <2>7, <2>8, <2>9
<1>3. CASE ~Single /\ setup.system = "windows"
  <2>1. setup.stacks = {"v4", "v6"} /\ Stack = {"v4", "v6"}
    BY <1>3 DEF Single, Stack
  <2> DEFINE a == <<"route", "v4">>
             b == <<"route", "v6">>
             c == <<"address", "v4">>
             d == <<"address", "v6">>
             e == <<"split", "v4">>
             f == <<"split", "v6">>
             g == <<"mtu", "">>
             h == <<"dns", "">>
  <2>2. Commands = <<a, b, c, d, e, f, g, h>>
    BY <1>3, <2>1 DEF Commands, OnlyStack, Single, DualWindows
  <2>3. a \in TunnelCommand /\ b \in TunnelCommand /\ c \in TunnelCommand /\ d \in TunnelCommand /\ e \in TunnelCommand /\ f \in TunnelCommand /\ g \in TunnelCommand /\ h \in TunnelCommand
    BY <2>1 DEF TunnelCommand
  <2>4. /\ a[1] = "route" /\ a[2] = "v4"
        /\ b[1] = "route" /\ b[2] = "v6"
        /\ c[1] = "address" /\ c[2] = "v4"
        /\ d[1] = "address" /\ d[2] = "v6"
        /\ e[1] = "split" /\ e[2] = "v4"
        /\ f[1] = "split" /\ f[2] = "v6"
        /\ g[1] = "mtu" /\ g[2] = ""
        /\ h[1] = "dns" /\ h[2] = ""
    OBVIOUS
  <2>5. /\ a = <<"route", "v4">>
        /\ b = <<"route", "v6">>
        /\ c = <<"address", "v4">>
        /\ d = <<"address", "v6">>
        /\ e = <<"split", "v4">>
        /\ f = <<"split", "v6">>
    OBVIOUS
  <2> HIDE DEF a, b, c, d, e, f, g, h
  <2>6. DOMAIN Commands = 1 .. 8 /\ Commands \in Seq(TunnelCommand) /\ Commands # << >>
    BY <2>2, <2>3
  <2>7. Commands[1] = a /\ Commands[2] = b /\ Commands[3] = c /\ Commands[4] = d /\ Commands[5] = e /\ Commands[6] = f /\ Commands[7] = g /\ Commands[8] = h
    BY <2>2
  <2>8. InOrder(Commands)
    <3>1. /\ ~Configures(a) /\ a[1] = "route" /\ a[2] \in setup.stacks
          /\ ~Configures(b) /\ b[1] = "route" /\ b[2] \in setup.stacks
          /\ Configures(c) /\ c[1] # "route" /\ c[2] \in setup.stacks
          /\ Configures(d) /\ d[1] # "route" /\ d[2] \in setup.stacks
          /\ Configures(e) /\ e[1] # "route" /\ e[2] \in setup.stacks
          /\ Configures(f) /\ f[1] # "route" /\ f[2] \in setup.stacks
          /\ ~Configures(g) /\ g[1] # "route" /\ g[1] \notin {"route", "address", "split"}
          /\ Configures(h) /\ h[1] # "route" /\ h[1] \notin {"route", "address", "split"}
      BY <2>1, <2>4 DEF Configures
    <3>2. \A i \in 1 .. 8 : i = 1 \/ i = 2 \/ i = 3 \/ i = 4 \/ i = 5 \/ i = 6 \/ i = 7 \/ i = 8
      OBVIOUS
    <3>3. \A i \in 1 .. 8 :
            /\ Configures(Commands[i]) => i > 2
            /\ Commands[i][1] = "route" => i <= 2
            /\ Commands[i][1] \in {"route", "address", "split"} => Commands[i][2] \in setup.stacks
      BY <2>7, <3>1, <3>2
    <3>4. \A i \in 1 .. 8 : Commands[i][1] = "route" => (i = 1 /\ Commands[i][2] = "v4") \/ (i = 2 /\ Commands[i][2] = "v6")
      BY <2>4, <2>7, <3>1, <3>2
    <3> QED
      BY <2>6, <3>3, <3>4 DEF InOrder
  <2>9. 1 \in DOMAIN Commands /\ 2 \in DOMAIN Commands /\ 3 \in DOMAIN Commands /\ 4 \in DOMAIN Commands /\ 5 \in DOMAIN Commands /\ 6 \in DOMAIN Commands
    BY <2>6
  <2> QED
    BY <2>1, <2>5, <2>6, <2>7, <2>8, <2>9
<1>4. CASE ~Single /\ setup.system = "darwin"
  <2>1. setup.stacks = {"v4", "v6"} /\ Stack = {"v4", "v6"}
    BY <1>4 DEF Single, Stack
  <2> DEFINE a == <<"name", "">>
             b == <<"route", "v4">>
             c == <<"route", "v6">>
             d == <<"address", "v4">>
             e == <<"address", "v6">>
             f == <<"split", "v4">>
             g == <<"split", "v6">>
  <2>2. Commands = <<a, b, c, d, e, f, g>>
    BY <1>4, <2>1 DEF Commands, OnlyStack, Single, DualDarwin
  <2>3. a \in TunnelCommand /\ b \in TunnelCommand /\ c \in TunnelCommand /\ d \in TunnelCommand /\ e \in TunnelCommand /\ f \in TunnelCommand /\ g \in TunnelCommand
    BY <2>1 DEF TunnelCommand
  <2>4. /\ a[1] = "name" /\ a[2] = ""
        /\ b[1] = "route" /\ b[2] = "v4"
        /\ c[1] = "route" /\ c[2] = "v6"
        /\ d[1] = "address" /\ d[2] = "v4"
        /\ e[1] = "address" /\ e[2] = "v6"
        /\ f[1] = "split" /\ f[2] = "v4"
        /\ g[1] = "split" /\ g[2] = "v6"
    OBVIOUS
  <2>5. /\ b = <<"route", "v4">>
        /\ c = <<"route", "v6">>
        /\ d = <<"address", "v4">>
        /\ e = <<"address", "v6">>
        /\ f = <<"split", "v4">>
        /\ g = <<"split", "v6">>
    OBVIOUS
  <2> HIDE DEF a, b, c, d, e, f, g
  <2>6. DOMAIN Commands = 1 .. 7 /\ Commands \in Seq(TunnelCommand) /\ Commands # << >>
    BY <2>2, <2>3
  <2>7. Commands[1] = a /\ Commands[2] = b /\ Commands[3] = c /\ Commands[4] = d /\ Commands[5] = e /\ Commands[6] = f /\ Commands[7] = g
    BY <2>2
  <2>8. InOrder(Commands)
    <3>1. /\ ~Configures(a) /\ a[1] # "route" /\ a[1] \notin {"route", "address", "split"}
          /\ ~Configures(b) /\ b[1] = "route" /\ b[2] \in setup.stacks
          /\ ~Configures(c) /\ c[1] = "route" /\ c[2] \in setup.stacks
          /\ Configures(d) /\ d[1] # "route" /\ d[2] \in setup.stacks
          /\ Configures(e) /\ e[1] # "route" /\ e[2] \in setup.stacks
          /\ Configures(f) /\ f[1] # "route" /\ f[2] \in setup.stacks
          /\ Configures(g) /\ g[1] # "route" /\ g[2] \in setup.stacks
      BY <2>1, <2>4 DEF Configures
    <3>2. \A i \in 1 .. 7 : i = 1 \/ i = 2 \/ i = 3 \/ i = 4 \/ i = 5 \/ i = 6 \/ i = 7
      OBVIOUS
    <3>3. \A i \in 1 .. 7 :
            /\ Configures(Commands[i]) => i > 3
            /\ Commands[i][1] = "route" => i <= 3
            /\ Commands[i][1] \in {"route", "address", "split"} => Commands[i][2] \in setup.stacks
      BY <2>7, <3>1, <3>2
    <3>4. \A i \in 1 .. 7 : Commands[i][1] = "route" => (i = 2 /\ Commands[i][2] = "v4") \/ (i = 3 /\ Commands[i][2] = "v6")
      BY <2>4, <2>7, <3>1, <3>2
    <3> QED
      BY <2>6, <3>3, <3>4 DEF InOrder
  <2>9. 2 \in DOMAIN Commands /\ 3 \in DOMAIN Commands /\ 4 \in DOMAIN Commands /\ 5 \in DOMAIN Commands /\ 6 \in DOMAIN Commands /\ 7 \in DOMAIN Commands
    BY <2>6
  <2> QED
    BY <2>1, <2>5, <2>6, <2>7, <2>8, <2>9
<1> QED
  BY <1>1, <1>2, <1>3, <1>4 DEF Setups

LEMMA CommandIsPair ==
  ASSUME NEW c \in TunnelCommand
  PROVE  \A w, f : c = <<w, f>> <=> c[1] = w /\ c[2] = f
<1>1. PICK x \in {"name", "route", "address", "split", "mtu", "dns"}, y \in Stack \cup {""} : c = <<x, y>>
  <2> DEFINE W == {"name", "route", "address", "split", "mtu", "dns"}
             F == Stack \cup {""}
  <2>1. c \in W \X F
    BY DEF TunnelCommand
  <2> HIDE DEF W, F
  <2>2. \E x \in W, y \in F : c = <<x, y>>
    BY <2>1
  <2> QED
    BY <2>2 DEF W, F
<1>2. c[1] = x /\ c[2] = y
  BY <1>1
<1>3. \A w, f : <<x, y>> = <<w, f>> <=> x = w /\ y = f
  OBVIOUS
<1> QED
  BY <1>1, <1>2, <1>3

(* A command is done: what is ahead of the rest.                           *)
LEMMA TailIsAhead ==
  ASSUME todo \in Seq(TunnelCommand), todo # << >>, InOrder(todo),
         NEW rest, rest = Tail(todo)
  PROVE  /\ Head(todo) \in TunnelCommand /\ Ahead(Head(todo)) /\ rest \in Seq(TunnelCommand)
         /\ \A c : Ahead(c) => c = Head(todo) \/ \E i \in DOMAIN rest : rest[i] = c
         /\ \A i \in DOMAIN rest : \E j \in DOMAIN todo : todo[j] = rest[i]
         /\ Configures(Head(todo)) => ~RouteAhead
         /\ Head(todo)[1] = "route" => \A i \in DOMAIN rest : rest[i] # Head(todo)
         /\ InOrder(rest)
         /\ Head(todo)[1] \in {"route", "address", "split"} => Head(todo)[2] \in setup.stacks
<1>1. /\ Head(todo) = todo[1] /\ 1 \in DOMAIN todo /\ Head(todo) \in TunnelCommand
      /\ rest \in Seq(TunnelCommand) /\ DOMAIN todo = 1 .. Len(todo) /\ Len(todo) \in Nat
      /\ DOMAIN rest = 1 .. (Len(todo) - 1)
      /\ \A i \in DOMAIN rest : rest[i] = todo[i + 1] /\ i + 1 \in DOMAIN todo
  BY HeadTailProperties
<1>2. \A c : Ahead(c) => c = Head(todo) \/ \E i \in DOMAIN rest : rest[i] = c
  <2> SUFFICES ASSUME NEW k \in DOMAIN todo, k # 1 PROVE \E i \in DOMAIN rest : rest[i] = todo[k]
    BY <1>1 DEF Ahead
  <2>1. k - 1 \in DOMAIN rest /\ (k - 1) + 1 = k
    BY <1>1
  <2> QED
    BY <1>1, <2>1
<1>3. InOrder(rest)
  <2>1. ASSUME NEW i \in DOMAIN rest, NEW j \in DOMAIN rest, Configures(rest[i]), rest[j][1] = "route"
        PROVE  j < i
    <3>1. j + 1 < i + 1
      BY <1>1, <2>1 DEF InOrder
    <3>2. i \in Int /\ j \in Int
      BY <1>1
    <3> QED
      BY <3>1, <3>2
  <2>2. ASSUME NEW i \in DOMAIN rest, NEW j \in DOMAIN rest,
               rest[i][1] = "route", rest[j][1] = "route", rest[i][2] = rest[j][2]
        PROVE  i = j
    <3>1. i + 1 = j + 1
      BY <1>1, <2>2 DEF InOrder
    <3>2. i \in Int /\ j \in Int
      BY <1>1
    <3> QED
      BY <3>1, <3>2
  <2> QED
    BY <1>1, <2>1, <2>2 DEF InOrder
<1>4. Configures(Head(todo)) => ~RouteAhead
  <2> SUFFICES ASSUME Configures(todo[1]), NEW j \in DOMAIN todo, todo[j][1] = "route" PROVE FALSE
    BY <1>1 DEF RouteAhead
  <2>1. j < 1
    BY <1>1 DEF InOrder
  <2> QED
    BY <1>1, <2>1
<1>5. Head(todo)[1] \in {"route", "address", "split"} => Head(todo)[2] \in setup.stacks
  BY <1>1 DEF InOrder
<1>6. Head(todo)[1] = "route" => \A i \in DOMAIN rest : rest[i] # Head(todo)
  <2> SUFFICES ASSUME todo[1][1] = "route", NEW i \in DOMAIN rest, rest[i] = todo[1] PROVE FALSE
    BY <1>1
  <2>1. i + 1 = 1
    BY <1>1 DEF InOrder
  <2> QED
    BY <1>1, <2>1
<1> QED
  BY <1>1, <1>2, <1>3, <1>4, <1>5, <1>6 DEF Ahead

(* The routes of this process are removed, on every system and however     *)
(* the resolver answers: it knows them.                                    *)
LEMMA DisposalRemovesOwn ==
  ASSUME PlatformTypes, NEW k \in [Stack -> [to : ServerAddress \cup {NoAddress}, via : Uplink]],
         NEW reply, hostRoutes \ inherited \subseteq {k[f] : f \in setup.stacks}
  PROVE  DisposedRoutes(k, reply) \subseteq inherited
<1> SUFFICES ASSUME NEW r \in hostRoutes, r \notin inherited PROVE r \notin DisposedRoutes(k, reply)
  BY DEF DisposedRoutes
<1>1. PICK f \in setup.stacks : r = k[f]
  OBVIOUS
<1>2. k[f].to # NoAddress /\ r \in RoutesTo(k[f].to)
  BY <1>1, PlatformAssumption DEF PlatformTypes, Route, RoutesTo
<1>3. r \in Removed(f, k, reply)
  BY <1>1, <1>2 DEF Removed
<1> QED
  BY <1>3 DEF DisposedRoutes

(* A route to the server, over what led there before.                      *)
LEMMA PinningRoutes ==
  ASSUME PlatformTypes, OwnIsKnown, NEW f \in setup.stacks, PinRoute(f), UNCHANGED <<setup, pinned>>,
         pinned \in ServerAddress,
         pinned[1] = f => device.split[f] = "none" /\ hostRoutes \subseteq inherited
  PROVE  /\ known' \in [Stack -> [to : ServerAddress \cup {NoAddress}, via : Uplink]]
         /\ hostRoutes' \subseteq Route /\ inherited' \subseteq hostRoutes'
         /\ OwnIsKnown'
         /\ pinned[1] = f => RoutesTo(pinned)' # {}
         /\ pinned[1] # f => UNCHANGED <<known, hostRoutes, inherited>>
<1>f. f \in Stack /\ uplinkNow \in Uplink
  BY DEF PlatformTypes, Setups, Stack
<1>1. CASE pinned[1] # f
  BY <1>1 DEF PinRoute, PlatformTypes, OwnIsKnown
<1>2. CASE pinned[1] = f
  <2>1. PICK via \in BestRoutes(pinned) :
          /\ known' = [known EXCEPT ![f] = HostRoute(pinned, via)]
          /\ hostRoutes' = (hostRoutes \ RoutesTo(pinned)) \cup {HostRoute(pinned, via)}
          /\ inherited' = inherited \ RoutesTo(pinned)
    BY <1>2 DEF PinRoute
  <2>2. via \in Uplink
    <3>1. CASE RoutesTo(pinned) # {}
      BY <2>1, <3>1 DEF BestRoutes, RoutesTo, PlatformTypes, Route
    <3>2. CASE RoutesTo(pinned) = {}
      BY <1>2, <1>f, <2>1, <3>2 DEF BestRoutes
    <3> QED
      BY <3>1, <3>2
  <2> DEFINE route == HostRoute(pinned, via)
  <2>3. route \in Route /\ route.to = pinned
    BY <2>2 DEF HostRoute, Route
  <2> HIDE DEF route
  <2>4. known' \in [Stack -> [to : ServerAddress \cup {NoAddress}, via : Uplink]] /\ known'[f] = route
    BY <1>f, <2>1, <2>3 DEF PlatformTypes, Route, route
  <2>5. hostRoutes' \subseteq Route /\ inherited' \subseteq hostRoutes'
    BY <2>1, <2>3 DEF PlatformTypes, route
  <2>6. hostRoutes' \ inherited' \subseteq {route}
    BY <1>2, <2>1 DEF route, RoutesTo
  <2>7. OwnIsKnown'
    BY <2>4, <2>6 DEF OwnIsKnown
  <2>8. route \in RoutesTo(pinned)'
    BY <2>1, <2>3 DEF RoutesTo, route
  <2> QED
    BY <1>2, <2>4, <2>5, <2>7, <2>8
<1> QED
  BY <1>1, <1>2

(* What a command does to the device.                                      *)
LEMMA CommandOnDevice ==
  ASSUME device \in AnyDevice, NEW c \in TunnelCommand,
         c[1] \in {"route", "address", "split"} => c[2] \in setup.stacks, setup \in Setups
  PROVE  /\ OnDevice(c) \in AnyDevice
         /\ \A f \in Stack : OnDevice(c).split[f] = IF c = <<"split", f>> THEN "both" ELSE device.split[f]
         /\ OnDevice(c).addresses = device.addresses \cup {f \in Stack : c = <<"address", f>>}
         /\ ~Configures(c) => OnDevice(c) = device
<1>1. setup.stacks \subseteq Stack
  BY DEF Setups, Stack
<1>2. \A w, f : c = <<w, f>> <=> c[1] = w /\ c[2] = f
  BY CommandIsPair
<1>3. CASE c[1] = "split"
  <2>1. OnDevice(c) = [device EXCEPT !.split = [device.split EXCEPT ![c[2]] = "both"]]
    BY <1>3 DEF OnDevice, WithHalves
  <2>2. c[2] \in Stack
    BY <1>1, <1>3
  <2> QED
    BY <1>2, <1>3, <2>1, <2>2 DEF AnyDevice, Configures
<1>4. CASE c[1] = "address"
  <2>1. OnDevice(c) = [device EXCEPT !.addresses = device.addresses \cup {c[2]}]
    BY <1>4 DEF OnDevice, WithAddress
  <2>2. c[2] \in Stack
    BY <1>1, <1>4
  <2> QED
    BY <1>2, <1>4, <2>1, <2>2 DEF AnyDevice, Configures
<1>5. CASE c[1] = "dns"
  <2>1. OnDevice(c) = [device EXCEPT !.dns = setup.stacks]
    BY <1>5 DEF OnDevice, WithResolvers
  <2> QED
    BY <1>1, <1>2, <1>5, <2>1 DEF AnyDevice, Configures
<1>6. CASE c[1] \notin {"split", "address", "dns"}
  <2>1. OnDevice(c) = device
    BY <1>6 DEF OnDevice
  <2> QED
    BY <1>2, <1>6, <2>1 DEF AnyDevice
<1> QED
  BY <1>3, <1>4, <1>5, <1>6

LEMMA InitPlatform == PlatformInit => PlatformInv
<1> SUFFICES ASSUME PlatformInit PROVE PlatformInv
  OBVIOUS
<1>1. NoDevice \in AnyDevice /\ NothingKnown \in [Stack -> [to : ServerAddress \cup {NoAddress}, via : Uplink]]
  BY DEF NoDevice, AnyDevice, NothingKnown, Uplink
<1>2. PlatformTypes
  BY <1>1 DEF PlatformInit, PlatformTypes, Setups, Uplink
<1> QED
  BY <1>2 DEF PlatformInit, PlatformInv, OwnIsKnown, CreatesInOrder, ServerIsPinned

LEMMA DevicesDisposed == PlatformInv /\ DisposeDevices => PlatformInv'
<1> SUFFICES ASSUME PlatformInv, DisposeDevices PROVE PlatformInv'
  OBVIOUS
<1>1. PICK reply, again \in Replies : hostRoutes' = DisposedRoutes(known, reply) \ StaleRoutes(again)
  BY DEF DisposeDevices
<1>2. /\ UNCHANGED <<setup, upsets, todo, pinned, known, uplinkNow>>
      /\ inherited' = inherited \cap hostRoutes' /\ device' = NoDevice /\ where' = "dial"
  BY DEF DisposeDevices
<1>3. hostRoutes' \subseteq inherited /\ hostRoutes' \subseteq hostRoutes
  BY <1>1, DisposalRemovesOwn DEF PlatformInv, OwnIsKnown, PlatformTypes, DisposedRoutes
<1>4. PlatformTypes'
  BY <1>2, <1>3 DEF PlatformInv, PlatformTypes, NoDevice, AnyDevice
<1> QED
  BY <1>2, <1>3, <1>4 DEF PlatformInv, OwnIsKnown, CreatesInOrder, ServerIsPinned

LEMMA ConnectKeeps == PlatformInv /\ Connect => PlatformInv'
<1> SUFFICES ASSUME PlatformInv, Connect PROVE PlatformInv'
  OBVIOUS
<1>1. /\ UNCHANGED <<setup, upsets, known, device, hostRoutes, inherited, uplinkNow>>
      /\ where = "dial" /\ where' = "create" /\ todo' = Commands
      /\ device = NoDevice /\ hostRoutes \subseteq inherited /\ setup \in Setups
  BY DEF Connect, PlatformInv, PlatformTypes
<1>2. pinned' \in ServerAddress /\ pinned'[1] \in Stack
  BY DEF Connect, Dialled, ServerAddress
<1>3. /\ Commands \in Seq(TunnelCommand) /\ Commands # << >> /\ InOrder(Commands)
      /\ \A f \in setup.stacks : \A w \in {"split", "address", "route"} :
           \E i \in DOMAIN Commands : Commands[i] = <<w, f>>
  BY <1>1, CommandsAre
<1>4. PlatformTypes'
  BY <1>1, <1>2, <1>3 DEF PlatformInv, PlatformTypes
<1>5. InOrder(todo)'
  BY <1>1, <1>3 DEF InOrder
<1>6. Splits' = {} /\ device'.addresses = {}
  BY <1>1 DEF Splits, NoDevice
<1>7. CreatesInOrder'
  BY <1>1, <1>3, <1>5, <1>6 DEF CreatesInOrder, Ahead
<1>8. OwnIsKnown'
  BY <1>1 DEF OwnIsKnown
<1>9. ServerIsPinned'
  BY <1>1, <1>2, <1>3 DEF ServerIsPinned, Ahead
<1> QED
  BY <1>1, <1>4, <1>7, <1>8, <1>9 DEF PlatformInv

(* The bare device of macOS: the server is reached over the family that    *)
(* the tunnel does not have.                                               *)
LEMMA BareIsConfigured ==
  ASSUME PlatformInv, where = "create", Bare(Head(todo)), RunCommand
  PROVE  PlatformInv'
<1>1. /\ UNCHANGED <<setup, upsets, pinned, uplinkNow>>
      /\ todo' = << >> /\ where' = "tunnel"
      /\ PinRoute(Head(todo)[2]) /\ device' = OnDevice(Head(todo))
      /\ setup.system = "darwin" /\ Single
      /\ Head(todo)[1] = "route" /\ pinned[1] # Head(todo)[2]
  BY DEF RunCommand, Bare
<1>2. /\ PlatformTypes /\ CreatesInOrder /\ todo \in Seq(TunnelCommand) /\ todo # << >> /\ InOrder(todo)
      /\ pinned \in ServerAddress
  BY DEF PlatformInv, PlatformTypes, CreatesInOrder, ServerIsPinned
<1>3. Head(todo) \in TunnelCommand /\ Ahead(Head(todo)) /\ Head(todo)[2] \in setup.stacks
  BY <1>1, <1>2, TailIsAhead
<1>4. RouteAhead
  BY <1>1, <1>3 DEF RouteAhead, Ahead
<1>5. device = NoDevice /\ device' = NoDevice
  BY <1>1, <1>2, <1>4 DEF CreatesInOrder, OnDevice
<1>6. UNCHANGED <<known, hostRoutes, inherited>>
  BY <1>1 DEF PinRoute
<1>7. pinned[1] \notin setup.stacks
  BY <1>1, <1>2, <1>3 DEF PlatformTypes, Setups, Single, Stack
<1>8. PlatformTypes'
  BY <1>1, <1>2, <1>5, <1>6 DEF PlatformTypes
<1>9. Configured'
  BY <1>1, <1>5, <1>7 DEF Configured, Single
<1>10. OwnIsKnown'
  BY <1>1, <1>6 DEF PlatformInv, OwnIsKnown
<1> QED
  BY <1>1, <1>2, <1>7, <1>8, <1>9, <1>10 DEF PlatformInv, CreatesInOrder, ServerIsPinned

LEMMA RunCommandKeeps == PlatformInv /\ RunCommand => PlatformInv'
<1> SUFFICES ASSUME PlatformInv, RunCommand, ~Bare(Head(todo)) PROVE PlatformInv'
  BY BareIsConfigured DEF RunCommand
<1> DEFINE c == Head(todo)
           rest == Tail(todo)
<1>1. /\ UNCHANGED <<setup, upsets, pinned, uplinkNow>>
      /\ where = "create" /\ todo' = rest
      /\ IF c[1] = "route" THEN PinRoute(c[2]) ELSE UNCHANGED <<known, hostRoutes, inherited>>
      /\ device' = OnDevice(c)
      /\ where' = IF todo' = << >> THEN "tunnel" ELSE "create"
  BY DEF RunCommand
<1>2. /\ PlatformTypes /\ OwnIsKnown /\ CreatesInOrder /\ todo \in Seq(TunnelCommand) /\ todo # << >> /\ InOrder(todo)
      /\ RouteAhead => device = NoDevice
      /\ pinned \in ServerAddress /\ setup \in Setups /\ device \in AnyDevice
      /\ pinned[1] \in setup.stacks => Ahead(<<"route", pinned[1]>>) \/ RoutesTo(pinned) # {}
  BY <1>1 DEF PlatformInv, PlatformTypes, CreatesInOrder, ServerIsPinned
<1>3. /\ c \in TunnelCommand /\ Ahead(c) /\ rest \in Seq(TunnelCommand)
      /\ \A x : Ahead(x) => x = c \/ \E i \in DOMAIN rest : rest[i] = x
      /\ \A i \in DOMAIN rest : \E j \in DOMAIN todo : todo[j] = rest[i]
      /\ Configures(c) => ~RouteAhead
      /\ c[1] = "route" => \A i \in DOMAIN rest : rest[i] # c
      /\ InOrder(rest)
      /\ c[1] \in {"route", "address", "split"} => c[2] \in setup.stacks
  BY <1>2, TailIsAhead
<1> HIDE DEF c, rest
<1>4. /\ device' \in AnyDevice
      /\ \A f \in Stack : device'.split[f] = IF c = <<"split", f>> THEN "both" ELSE device.split[f]
      /\ device'.addresses = device.addresses \cup {f \in Stack : c = <<"address", f>>}
      /\ ~Configures(c) => device' = device
  BY <1>1, <1>2, <1>3, CommandOnDevice
<1>s. setup.stacks \subseteq Stack
  BY <1>2 DEF Setups, Stack
<1>5. /\ \A x : Ahead(x) => x = c \/ Ahead(x)'
      /\ \A x : Ahead(x)' => Ahead(x)
      /\ RouteAhead' => RouteAhead
      /\ InOrder(todo)'
  <2>1. /\ \A x : Ahead(x) => x = c \/ Ahead(x)'
        /\ \A x : Ahead(x)' => Ahead(x)
    BY <1>1, <1>3 DEF Ahead
  <2>2. RouteAhead' => RouteAhead
    BY <1>1, <1>3 DEF RouteAhead
  <2>3. InOrder(todo)'
    BY <1>1, <1>3 DEF InOrder
  <2> QED
    BY <2>1, <2>2, <2>3
<1>6. ASSUME c[1] = "route"
      PROVE  /\ known' \in [Stack -> [to : ServerAddress \cup {NoAddress}, via : Uplink]]
             /\ hostRoutes' \subseteq Route /\ inherited' \subseteq hostRoutes'
             /\ OwnIsKnown'
             /\ pinned[1] = c[2] => RoutesTo(pinned)' # {}
             /\ pinned[1] # c[2] => UNCHANGED <<known, hostRoutes, inherited>>
  <2>1. c = <<"route", c[2]>> /\ c[2] \in setup.stacks /\ PinRoute(c[2])
    BY <1>1, <1>3, <1>6, CommandIsPair
  <2>2. RouteAhead
    BY <1>3, <1>6 DEF RouteAhead, Ahead
  <2>3. pinned[1] = c[2] => device.split[c[2]] = "none" /\ hostRoutes \subseteq inherited
    <3>1. device = NoDevice
      BY <1>2, <2>2
    <3>2. pinned[1] = c[2] => Ahead(<<"route", pinned[1]>>)
      BY <1>3, <2>1
    <3> QED
      BY <1>1, <1>2, <1>s, <2>1, <3>1, <3>2 DEF NoDevice, CreatesInOrder
  <2> QED
    BY <1>1, <1>2, <2>1, <2>3, PinningRoutes
<1>7. /\ known' \in [Stack -> [to : ServerAddress \cup {NoAddress}, via : Uplink]]
      /\ hostRoutes' \subseteq Route /\ inherited' \subseteq hostRoutes'
      /\ OwnIsKnown'
  <2>1. CASE c[1] = "route"
    BY <1>6, <2>1
  <2>2. CASE c[1] # "route"
    BY <1>1, <1>2, <2>2 DEF PlatformTypes, OwnIsKnown
  <2> QED
    BY <2>1, <2>2
<1>8. PlatformTypes'
  BY <1>1, <1>2, <1>3, <1>4, <1>7 DEF PlatformTypes
<1>9. /\ Splits' \subseteq setup.stacks /\ device'.addresses \subseteq setup.stacks
      /\ \A f \in setup.stacks : /\ f \in Splits' \/ Ahead(<<"split", f>>)'
                                 /\ f \in device'.addresses \/ Ahead(<<"address", f>>)'
  <2>1. /\ Splits \subseteq setup.stacks /\ device.addresses \subseteq setup.stacks
        /\ \A f \in setup.stacks : /\ f \in Splits \/ Ahead(<<"split", f>>)
                                   /\ f \in device.addresses \/ Ahead(<<"address", f>>)
    BY <1>1, <1>2 DEF CreatesInOrder
  <2>2. \A f \in Stack : c = <<"split", f>> \/ c = <<"address", f>> => f \in setup.stacks
    BY <1>3
  <2>3. Splits' = Splits \cup {f \in Stack : c = <<"split", f>>}
    BY <1>4 DEF Splits
  <2> QED
    BY <1>4, <1>5, <1>s, <2>1, <2>2, <2>3
<1>10. RouteAhead' => device' = NoDevice
  BY <1>2, <1>3, <1>4, <1>5
<1>11. Ahead(<<"route", pinned[1]>>)' => Ahead(<<"route", pinned[1]>>)
  BY <1>1, <1>5
<1>12. pinned[1] \in setup.stacks => Ahead(<<"route", pinned[1]>>)' \/ RoutesTo(pinned)' # {}
  <2> SUFFICES ASSUME pinned[1] \in setup.stacks, ~Ahead(<<"route", pinned[1]>>)' PROVE RoutesTo(pinned)' # {}
    OBVIOUS
  <2>1. CASE c = <<"route", pinned[1]>>
    BY <1>6, <2>1
  <2>2. CASE c # <<"route", pinned[1]>>
    <3>1. RoutesTo(pinned) # {}
      BY <1>1, <1>2, <1>5, <2>2
    <3>2. c[1] = "route" => c = <<"route", c[2]>>
      BY <1>3, CommandIsPair
    <3>3. UNCHANGED hostRoutes
      BY <1>1, <1>6, <2>2, <3>2
    <3> QED
      BY <1>1, <3>1, <3>3 DEF RoutesTo
  <2> QED
    BY <2>1, <2>2
<1>13. Ahead(<<"route", pinned[1]>>)' => hostRoutes' \subseteq inherited'
  <2> SUFFICES ASSUME Ahead(<<"route", pinned[1]>>)' PROVE hostRoutes' \subseteq inherited'
    OBVIOUS
  <2>1. hostRoutes \subseteq inherited
    BY <1>1, <1>2, <1>11 DEF CreatesInOrder
  <2>2. c # <<"route", pinned[1]>>
    <3> SUFFICES ASSUME c = <<"route", pinned[1]>> PROVE FALSE
      OBVIOUS
    <3>1. c[1] = "route"
      BY <1>3, CommandIsPair
    <3> QED
      BY <1>1, <1>3, <3>1 DEF Ahead
  <2>3. UNCHANGED <<hostRoutes, inherited>>
    <3>1. c[1] = "route" => c[2] # pinned[1]
      BY <1>3, <2>2, CommandIsPair, SMTT(30)
    <3> QED
      BY <1>1, <1>6, <3>1
  <2> QED
    BY <2>1, <2>3
<1>14. CASE todo' # << >>
  <2>1. where' = "create"
    BY <1>1, <1>14
  <2>2. CreatesInOrder'
    BY <1>1, <1>5, <1>9, <1>10, <1>13, <1>14 DEF CreatesInOrder
  <2> QED
    BY <1>1, <1>2, <1>7, <1>8, <1>12, <2>1, <2>2 DEF PlatformInv, ServerIsPinned
<1>15. CASE todo' = << >>
  <2>1. where' = "tunnel"
    BY <1>1, <1>15
  <2>2. \A x : ~Ahead(x)'
    BY <1>15 DEF Ahead
  <2>3. Splits' = setup.stacks /\ device'.addresses = setup.stacks
    BY <1>9, <2>2
  <2>4. Configured'
    BY <1>1, <2>3 DEF Configured
  <2> QED
    BY <1>1, <1>2, <1>7, <1>8, <1>12, <1>15, <2>1, <2>4 DEF PlatformInv, ServerIsPinned, CreatesInOrder
<1> QED
  BY <1>14, <1>15

(* A rollback: the route that was meant to be added is not there yet.      *)
LEMMA CreateFailsKeeps == PlatformInv /\ CreateFails => PlatformInv'
<1> SUFFICES ASSUME PlatformInv, CreateFails PROVE PlatformInv'
  OBVIOUS
<1> DEFINE meant == [known EXCEPT ![pinned[1]] = HostRoute(pinned, uplinkNow)]
<1>1. /\ UNCHANGED <<setup, pinned, uplinkNow>>
      /\ where = "create" /\ where' = "failed" /\ todo' = << >> /\ device' = NoDevice
      /\ inherited' = inherited \cap hostRoutes'
  BY DEF CreateFails
<1>2. /\ PlatformTypes /\ OwnIsKnown /\ CreatesInOrder /\ pinned \in ServerAddress
      /\ todo \in Seq(TunnelCommand) /\ todo # << >> /\ InOrder(todo)
  BY <1>1 DEF PlatformInv, PlatformTypes, CreatesInOrder, ServerIsPinned
<1>3. PICK reply \in Replies, deleted \in {{}, RoutesTo(pinned)} :
        /\ \/ known' = known
           \/ Head(todo)[1] = "route" /\ pinned[1] = Head(todo)[2] /\ known' = meant
        /\ hostRoutes' = DisposedRoutes(known', reply) \ deleted
  BY DEF CreateFails
<1>4. known' \in [Stack -> [to : ServerAddress \cup {NoAddress}, via : Uplink]]
  <2>1. pinned[1] \in Stack
    BY <1>2 DEF ServerAddress
  <2>2. HostRoute(pinned, uplinkNow) \in [to : ServerAddress \cup {NoAddress}, via : Uplink]
    BY <1>2 DEF HostRoute, PlatformTypes
  <2> QED
    BY <1>2, <1>3, <2>1, <2>2 DEF PlatformTypes
<1>5. hostRoutes \ inherited \subseteq {known'[f] : f \in setup.stacks}
  <2>1. CASE known' = known
    BY <1>2, <2>1 DEF OwnIsKnown
  <2>2. CASE Head(todo)[1] = "route" /\ pinned[1] = Head(todo)[2]
    <3>1. Head(todo) \in TunnelCommand /\ Ahead(Head(todo))
      BY <1>2, TailIsAhead
    <3>2. Head(todo) = <<"route", pinned[1]>>
      BY <2>2, <3>1, CommandIsPair
    <3> QED
      BY <1>1, <1>2, <3>1, <3>2 DEF CreatesInOrder
  <2> QED
    BY <1>3, <2>1, <2>2
<1>6. DisposedRoutes(known', reply) \subseteq inherited
  BY <1>2, <1>4, <1>5, DisposalRemovesOwn
<1>7. hostRoutes' \subseteq inherited /\ hostRoutes' \subseteq hostRoutes /\ inherited' = hostRoutes'
  BY <1>1, <1>2, <1>3, <1>6 DEF PlatformTypes
<1>8. PlatformTypes'
  BY <1>1, <1>2, <1>4, <1>7 DEF PlatformTypes, NoDevice, AnyDevice
<1>9. OwnIsKnown'
  BY <1>7 DEF OwnIsKnown
<1> QED
  BY <1>1, <1>7, <1>8, <1>9 DEF PlatformInv, CreatesInOrder, ServerIsPinned

LEMMA PlatformStep == PlatformInv /\ [PlatformNext]_platformVars => PlatformInv'
<1> SUFFICES ASSUME PlatformInv, [PlatformNext]_platformVars PROVE PlatformInv'
  OBVIOUS
<1>1. CASE DisposeDevices
  BY <1>1, DevicesDisposed
<1>2. CASE Connect
  BY <1>2, ConnectKeeps
<1>3. CASE RunCommand
  BY <1>3, RunCommandKeeps
<1>4. CASE CreateFails
  BY <1>4, CreateFailsKeeps
<1>5. CASE ConnectFails \/ SessionEnds
  <2>1. /\ UNCHANGED <<setup, todo, known, device, hostRoutes, inherited, uplinkNow>>
        /\ where' = "dispose" /\ (UNCHANGED pinned \/ pinned' = NoAddress)
    BY <1>5 DEF ConnectFails, SessionEnds
  <2> QED
    BY <2>1 DEF PlatformInv, PlatformTypes, OwnIsKnown, CreatesInOrder, ServerIsPinned
<1>6. CASE UplinkMoves \/ UNCHANGED platformVars
  <2>1. /\ UNCHANGED <<setup, where, todo, pinned, known, device, hostRoutes, inherited>>
        /\ uplinkNow' \in Uplink
    BY <1>6 DEF UplinkMoves, platformVars, PlatformInv, PlatformTypes
  <2>2. PlatformTypes' /\ OwnIsKnown'
    BY <2>1 DEF PlatformInv, PlatformTypes, OwnIsKnown
  <2>3. CreatesInOrder'
    BY <2>1 DEF PlatformInv, CreatesInOrder, InOrder, RouteAhead, Ahead, Splits
  <2>4. ServerIsPinned'
    BY <2>1 DEF PlatformInv, ServerIsPinned, Ahead, RoutesTo
  <2>5. where' = "tunnel" => Configured'
    BY <2>1 DEF PlatformInv, Configured, Splits, Single
  <2> QED
    BY <2>1, <2>2, <2>3, <2>4, <2>5 DEF PlatformInv
<1>7. CASE ProcessExits
  <2>1. /\ UNCHANGED <<setup, hostRoutes, uplinkNow>>
        /\ where' = "dispose" /\ todo' = << >> /\ pinned' = NoAddress /\ known' = NothingKnown
        /\ device' = NoDevice /\ inherited' = hostRoutes
    BY <1>7 DEF ProcessExits
  <2>2. NoDevice \in AnyDevice /\ NothingKnown \in [Stack -> [to : ServerAddress \cup {NoAddress}, via : Uplink]]
    BY DEF NoDevice, AnyDevice, NothingKnown, Uplink
  <2>3. PlatformTypes' /\ OwnIsKnown'
    BY <2>1, <2>2 DEF PlatformInv, PlatformTypes, OwnIsKnown
  <2> QED
    BY <2>1, <2>3 DEF PlatformInv, CreatesInOrder, ServerIsPinned
<1> QED
  BY <1>1, <1>2, <1>3, <1>4, <1>5, <1>6, <1>7 DEF PlatformNext

(* On Windows and macOS too the connection to the server never runs        *)
(* through the tunnel it carries, failed sessions leave nothing of this    *)
(* process behind, and a tunnel that is up has all its families.           *)
THEOREM PlatformHolds == PlatformSpec => []PlatformTunnelsSound
<1>1. PlatformInv => PlatformTunnelsSound
  <2> SUFFICES ASSUME PlatformInv PROVE PlatformTunnelsSound
    OBVIOUS
  <2>1. where = "dial" => Splits = {}
    BY DEF PlatformInv, Splits, NoDevice
  <2>2. ASSUME where \in {"create", "tunnel"}, pinned[1] \in Splits
        PROVE  \E r \in RoutesTo(pinned) : r.via # "tunnel"
    <3>1. pinned[1] \in setup.stacks /\ ~Ahead(<<"route", pinned[1]>>)
      <4>1. CASE where = "create"
        <5>1. pinned[1] \in setup.stacks
          BY <2>2, <4>1 DEF PlatformInv, CreatesInOrder
        <5>2. Ahead(<<"route", pinned[1]>>) => RouteAhead
          BY DEF Ahead, RouteAhead
        <5>3. device # NoDevice
          BY <2>2 DEF Splits, NoDevice
        <5> QED
          BY <4>1, <5>1, <5>2, <5>3 DEF PlatformInv, CreatesInOrder
      <4>2. CASE where = "tunnel"
        <5>1. todo = << >> /\ Configured
          BY <4>2 DEF PlatformInv
        <5>2. device # NoDevice
          BY <2>2 DEF Splits, NoDevice
        <5> QED
          BY <2>2, <5>1, <5>2 DEF Ahead, Configured
      <4> QED
        BY <2>2, <4>1, <4>2
    <3>2. RoutesTo(pinned) # {}
      BY <2>2, <3>1 DEF PlatformInv, ServerIsPinned
    <3> QED
      BY <3>2 DEF PlatformInv, PlatformTypes, RoutesTo, Route, Uplink
  <2>3. LeavesNothing
    BY DEF PlatformInv, LeavesNothing, Splits, NoDevice
  <2> QED
    BY <2>1, <2>2, <2>3 DEF PlatformTunnelsSound, NeverThroughItself, PlatformInv
<1> QED
  BY <1>1, InitPlatform, PlatformStep, PTL DEF PlatformSpec
=============================================================================
