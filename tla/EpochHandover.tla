---------------------------- MODULE EpochHandover ----------------------------
(***************************************************************************)
(* What a rekeying session promises, whichever transport carries it: the   *)
(* server goes to the next epoch, the client follows with the same key,    *)
(* the server sends under it in its turn, and neither end forgets a key    *)
(* while anyone still sends under it.  UdpRekey and TcpRekey implement     *)
(* this; the messages, the coordinators and the state machines, the ring   *)
(* and the pair of sessions are theirs.                                    *)
(*                                                                         *)
(* The transports differ in one thing.  A TCP server sends under the new   *)
(* epoch as soon as its ack is written ("Early"), the byte stream keeps    *)
(* the order; a UDP server waits for the client to have shown its keys.    *)
(***************************************************************************)
EXTENDS Naturals

CONSTANTS
  Early,         \* may the server send under an epoch the client does not hold yet?
  First          \* the entry of the handshake: epoch 0 and its key

VARIABLES
  holds,         \* the entries (an epoch and its key) each end can open
  newest,        \* the latest of them
  sends          \* the entry each end seals under

handoverVars == <<holds, newest, sends>>

End == {"client", "server"}
Other(n) == IF n = "client" THEN "server" ELSE "client"

HandoverInit ==
  /\ holds = [n \in End |-> {First}]
  /\ newest = [n \in End |-> First]
  /\ sends = [n \in End |-> First]

(* The entries end n must be able to open: its own, and what the other end *)
(* sends under, unless that is an epoch that n has yet to install.         *)
InUse(n) ==
  {newest[n], sends[n]} \cup {e \in {sends[Other(n)]} : e.epoch <= newest[n].epoch}

(* A step of end n brings at most the entries "added", and drops none in   *)
(* use.                                                                    *)
Keeps(n, added) ==
  /\ holds'[n] \subseteq holds[n] \cup added
  /\ InUse(n)' \subseteq holds'[n]
  /\ holds'[Other(n)] = holds[Other(n)]

(* The server goes on only with a client that has followed it, to the next *)
(* epoch and under a key it does not hold.  By then it sends under the     *)
(* epoch before, if it did not yet.                                        *)
ServerInstalls ==
  /\ newest["server"] = newest["client"]
  /\ newest'["server"].epoch = newest["server"].epoch + 1
  /\ \A e \in holds["server"] : newest'["server"].key # e.key
  /\ newest' = [newest EXCEPT !["server"] = newest'["server"]]
  /\ sends' = [sends EXCEPT !["server"] = newest["server"]]
  /\ Keeps("server", {newest'["server"]})

(* The client follows with what the server installed, and uses it at once. *)
ClientInstalls ==
  /\ newest["client"].epoch < newest["server"].epoch
  /\ newest' = [newest EXCEPT !["client"] = newest["server"]]
  /\ sends' = [sends EXCEPT !["client"] = newest["server"]]
  /\ Keeps("client", {newest["server"]})

ServerSwitches ==
  /\ sends["server"] # newest["server"]
  /\ Early \/ newest["client"] = newest["server"]
  /\ sends' = [sends EXCEPT !["server"] = newest["server"]]
  /\ newest' = newest
  /\ Keeps("server", {})

Forgets(n) ==
  /\ UNCHANGED <<newest, sends>>
  /\ Keeps(n, {})

HandoverNext ==
  \/ ServerInstalls
  \/ ClientInstalls
  \/ ServerSwitches
  \/ \E n \in End : Forgets(n)

HandoverSpec == HandoverInit /\ [][HandoverNext]_handoverVars
==============================================================================
