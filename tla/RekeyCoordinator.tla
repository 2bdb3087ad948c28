-------------------------- MODULE RekeyCoordinator --------------------------
(***************************************************************************)
(* The rekey exchange above the state machine: protocol/rekey/rekey.go     *)
(* (ServerRekeyCoordinator) and protocol/rekey/initiator.go                *)
(* (ClientRekeyCoordinator).  Both are shared by the UDP and the TCP       *)
(* transports; the modules UdpRekey and TcpRekey compose them with an      *)
(* epoch manager, the handlers' threads and a network.                     *)
(*                                                                         *)
(* A payload is a record.  An init carries the client's ephemeral key and, *)
(* under V2, is bound to the sender's current key by the prologue; an ack  *)
(* carries the server's ephemeral and, under V2, is bound to the init it   *)
(* answers.  sha256(request) identifies a request, as the request does.    *)
(***************************************************************************)
EXTENDS RekeyStateMachine

Kind == {"data", "ping", "init", "ack", "exhausted"}
Payload == [kind : Kind, eph : Nat, pub : Nat, base : Key]

Plain(kind) == [kind |-> kind, eph |-> 0, pub |-> 0, base |-> InitialKey]
RekeyInit(eph, base) == [kind |-> "init", eph |-> eph, pub |-> 0, base |-> base]
RekeyAck(eph, pub) == [kind |-> "ack", eph |-> eph, pub |-> pub, base |-> InitialKey]

-----------------------------------------------------------------------------
(* The server's transaction: the request it answers, its response, the     *)
(* epoch that carried the request, the epoch it staged, and whether that   *)
(* epoch was activated here and seen from the client.                      *)

Transaction ==
  [request : Payload, response : Payload, carrier : Nat, epoch : Nat,
   sendActivated : BOOLEAN, peerObserved : BOOLEAN]

NewTransaction(request, response, carrier, epoch) ==
  [request |-> request, response |-> response, carrier |-> carrier,
   epoch |-> epoch, sendActivated |-> FALSE, peerObserved |-> FALSE]

Complete(tx) == tx.sendActivated /\ tx.peerObserved

(* Handle answers a repeated request with the same response until the      *)
(* exchange is complete, and only on the epoch that carried it first.      *)
SameRequestNever(tx, request) == FALSE  \* mutant: no request hash
SameRequest(tx, request) == tx # None /\ tx.request = request

MayResend(tx, request, carrier) ==
  SameRequest(tx, request) /\ ~Complete(tx) /\ tx.carrier = carrier

MayStart(tx, request, carrier, sm) ==
  /\ ~SameRequest(tx, request)
  /\ tx # None => Complete(tx) /\ carrier = tx.epoch
  /\ ReadyForRekey(sm)

(* RespondRekeyV2 fails on an init that was built over other current keys; *)
(* V1 cannot tell.                                                         *)
Answerable(request, sm) == V2 => request.base = sm.current.key

TxActivated(tx, epoch) ==
  IF tx # None /\ tx.epoch = epoch THEN [tx EXCEPT !.sendActivated = TRUE] ELSE tx

TxObservedNever(tx, epoch) == tx  \* mutant: the flag is never set
TxObserved(tx, epoch) ==
  IF tx # None /\ tx.epoch = epoch THEN [tx EXCEPT !.peerObserved = TRUE] ELSE tx

-----------------------------------------------------------------------------
(* The client's pending exchange: its ephemeral, the current key the V2    *)
(* handshake state was opened over, and the epoch the init is bound to.    *)

Pending == [eph : Nat, base : Key, carrier : Nat]

PrologueInitial(sm) == InitialKey  \* mutant: the prologue is not refreshed
Prologue(sm) == IF V2 THEN sm.current.key ELSE InitialKey

(* MaybeBuildRekeyInit reuses the in-flight ephemeral, so that an ack for  *)
(* any copy of the init completes the exchange.                            *)
PendingForInit(pending, sm, freshEph) ==
  IF pending # None THEN pending
    ELSE [eph |-> freshEph, base |-> Prologue(sm), carrier |-> sm.current.epoch]

CarrierChanged(pending, sm) ==
  pending # None /\ pending.carrier # sm.current.epoch

(* HandleRekeyAck considers an ack only under the epoch of the exchange.   *)
AckConsideredAnyEpoch(pending, carrier) == pending # None  \* mutant
AckConsidered(pending, carrier) == pending # None /\ pending.carrier = carrier

(* FinishRekeyV2 authenticates the ack against the pending handshake; V1   *)
(* derives a key from whatever ephemeral the ack brings.                   *)
AckAuthenticUnchecked(pending, ack) == TRUE  \* mutant
AckAuthentic(pending, ack) == V2 => ack.eph = pending.eph

(* The absence of an exchange is not an exchange. *)
ASSUME NoneAssumption == None \notin Payload \cup Transaction \cup Pending
==============================================================================
