------------------------------ MODULE MssClamp ------------------------------
(***************************************************************************)
(* The rules that clamp the MSS of TCP connections through a TUN device,   *)
(* as the manager of mssclamp leaves them in the kernel when any command   *)
(* may fail: operators on a record, used by the devices of client and      *)
(* server.                                                                 *)
(*                                                                         *)
(* With iptables every device has its own six rules, three for IPv4 and    *)
(* three for IPv6, added and deleted one command after another.  With      *)
(* nftables all rules are in one table of a fixed name, whatever the       *)
(* device.  A deletion fails only when there is nothing to delete.         *)
(***************************************************************************)
EXTENDS Naturals, FiniteSetsExt

ClampRule == 1 .. 6

(* backend and ipv6 are what detectBackend and ip6tablesUsable found first *)
(* and keep; chains counts the copies of a rule.                           *)
NewClamp(tuns, backend, ip6) ==
  [backend |-> backend, ip6 |-> ip6,
   chains |-> [t \in tuns |-> [i \in ClampRule |-> 0]],
   table |-> {}]

ClampOf(tuns) ==
  [backend : {"iptables", "nft"}, ip6 : BOOLEAN, chains : [tuns -> [ClampRule -> Nat]], table : SUBSET (tuns \X (1 .. 3))]

LastRule(c) == IF c.ip6 THEN 6 ELSE 3

(* What installIptables has done when its command n + 1 fails or, for the  *)
(* last n, when all succeed.                                               *)
Appended(c, t, n) ==
  [c EXCEPT !.chains[t] = [i \in ClampRule |-> IF i <= n THEN @[i] + 1 ELSE @[i]]]

(* installNft drops the table first, and everything that was in it.        *)
Rebuilt(c, t, n) == [c EXCEPT !.table = {t} \X (1 .. n)]

InstallSucceeds(c, t) ==
  IF c.backend = "iptables" THEN Appended(c, t, LastRule(c)) ELSE Rebuilt(c, t, 3)

InstallFails(c, t) ==
  IF c.backend = "iptables"
    THEN {Appended(c, t, n) : n \in 0 .. LastRule(c) - 1}
    ELSE {c} \cup {Rebuilt(c, t, n) : n \in 0 .. 2}

(* removeIptables stops at the first rule it does not find.                *)
Deleted(c, t) ==
  LET missing == {i \in 1 .. LastRule(c) : c.chains[t][i] = 0}
      stop == Min(missing \cup {7})
  IN  [c EXCEPT !.chains[t] = [i \in ClampRule |->
         IF i < stop /\ i <= LastRule(c) THEN @[i] - 1 ELSE @[i]]]

(* What a removal that a crash cuts short may have done. *)
CutShort(c, t) ==
  IF c.backend = "iptables"
    THEN {[c EXCEPT !.chains[t] = [i \in ClampRule |-> IF i <= n THEN Deleted(c, t).chains[t][i] ELSE @[i]]]
            : n \in 0 .. LastRule(c) - 1}
    ELSE {c}

(* mutant: the rules of all devices are removed *)
RemoveClampAll(c, t) ==
  [c EXCEPT !.table = {}, !.chains = [u \in DOMAIN @ |-> [i \in ClampRule |-> 0]]]

RemoveClamp(c, t) ==
  IF c.backend = "iptables" THEN Deleted(c, t) ELSE [c EXCEPT !.table = {}]

Clamped(c, t) ==
  IF c.backend = "iptables"
    THEN \A i \in 1 .. LastRule(c) : c.chains[t][i] > 0
    ELSE {t} \X (1 .. 3) \subseteq c.table

Unclamped(c, t) ==
  /\ \A i \in ClampRule : c.chains[t][i] = 0
  /\ \A r \in c.table : r[1] # t

(* Only one of the two backends is ever used.                              *)
OneBackend(c) ==
  IF c.backend = "iptables" THEN c.table = {}
  ELSE \A t \in DOMAIN c.chains : c.chains[t] = [i \in ClampRule |-> 0]

(* Of the rules of a device the first few are there, once.                 *)
Orderly(c, t) ==
  \E n \in 0 .. LastRule(c) : c.chains[t] = [i \in ClampRule |-> IF i <= n THEN 1 ELSE 0]
=============================================================================
