------------------------------ MODULE UdpRekey ------------------------------
(***************************************************************************)
(* One UDP session while it rekeys: the epoch ring and StateMachine of     *)
(* each end, the two coordinators, the threads that drive them, and a      *)
(* network that loses, delays, reorders and repeats datagrams.             *)
(*                                                                         *)
(* Threads.  Each end has a receiving thread (client transportHandler,     *)
(* server runTransport) and a TUN thread (tunHandler, runTun).  Both send  *)
(* through one sender whose mutex is held from Encrypt to the socket       *)
(* write; Encrypt reads the send epoch and resolves it in the ring under   *)
(* two different locks, so a TUN thread that encrypts takes two steps      *)
(* here, and the other thread of its end may move the epochs in between.   *)
(*                                                                         *)
(* Network.  A datagram once sent stays in "net" and may be delivered any  *)
(* number of times, at any later moment, or never.  The replay window      *)
(* (SlidingWindow) only removes behaviours from this.                      *)
(***************************************************************************)
EXTENDS RekeyCoordinator

CONSTANTS
  MaxEpoch,      \* core.MaxEpoch, 65000 in the code
  Capacity       \* defaultEpochRingCapacity, 4 in the code

ASSUME BoundsAssumption == MaxEpoch \in Nat /\ Capacity \in Nat \ {0}

Node == {"client", "server"}
Peer(n) == IF n = "client" THEN "server" ELSE "client"

VARIABLES
  sm,            \* the StateMachine of each end
  ring,          \* Crypto.ring: epochs and their keys, oldest first
  sendEpoch,     \* Crypto.sendEpoch
  epochCounter,  \* Crypto.epochCounter
  pending,       \* the client coordinator's exchange, or None
  tx,            \* the server coordinator's transaction, or None
  freshEph,      \* the next unused ephemeral key of each end
  tun,           \* what the TUN thread of each end is sending
  reply,         \* what the server's receiving thread is about to send, or None
  up,            \* FALSE once the client gave the session up (it reconnects)
  net            \* every datagram ever sent

control == <<sm, ring, sendEpoch, epochCounter>>
exchange == <<pending, tx, freshEph>>
vars == <<control, exchange, tun, reply, up, net>>

Entry == [epoch : Nat, key : Key]
Datagram == [to : Node, epoch : Nat, key : Key, body : Payload]

(* A TUN thread is idle, holds an init it built but has not sent, or is    *)
(* inside Encrypt with the send epoch it read.                             *)
TunState == [pc : {"idle", "built", "sealing"}, epoch : Nat, body : Payload]
TunIdle == [pc |-> "idle", epoch |-> 0, body |-> Plain("data")]

Init ==
  /\ sm = [n \in Node |-> NewStateMachine]
  /\ ring = [n \in Node |-> << [epoch |-> 0, key |-> InitialKey] >>]
  /\ sendEpoch = [n \in Node |-> 0]
  /\ epochCounter = [n \in Node |-> 0]
  /\ pending = None
  /\ tx = None
  /\ freshEph = [n \in Node |-> 0]
  /\ tun = [n \in Node |-> TunIdle]
  /\ reply = None
  /\ up = TRUE
  /\ net = {}

-----------------------------------------------------------------------------
(* The epoch ring. *)

Resolvable(r, e) == \E i \in DOMAIN r : r[i].epoch = e
KeyOf(r, e) == r[CHOOSE i \in DOMAIN r : r[i].epoch = e].key

Insert(r, e, key) ==
  Append(IF Len(r) = Capacity THEN Tail(r) ELSE r, [epoch |-> e, key |-> key])

(* Encrypt falls back to the newest session when the epoch it read is gone. *)
SealingEntry(r, e) ==
  IF Resolvable(r, e) THEN [epoch |-> e, key |-> KeyOf(r, e)] ELSE r[Len(r)]

Sealed(n, e, body) ==
  LET entry == SealingEntry(ring[n], e)
  IN  [to |-> Peer(n), epoch |-> entry.epoch, key |-> entry.key, body |-> body]

Opens(n, m) ==
  /\ m.to = n
  /\ Resolvable(ring[n], m.epoch)
  /\ m.key = KeyOf(ring[n], m.epoch)

(* StageEpoch *)
EpochsExhausted(n) == epochCounter[n] >= MaxEpoch

WouldEvict(n, send) == Len(ring[n]) = Capacity /\ ring[n][1].epoch = send
Stageable(n, send) == ~EpochsExhausted(n) /\ ~WouldEvict(n, send)

-----------------------------------------------------------------------------
(* ObservePeerEpoch(e) and then ActivateSendEpoch(e), as both receiving    *)
(* threads call them once a datagram of epoch e has been authenticated.    *)
(* The UDP epoch manager always agrees to retire.                          *)

Observed(s, e) == RetirePrevious(RecordObserved(s, e), TRUE)
Activated(s, e) ==
  IF CanActivate(s, e) THEN RetirePrevious(RecordActivated(s), TRUE) ELSE s
ObservedActivated(s, e) == Activated(Observed(s, e), e)

PromotedToAny(n, e) == e  \* mutant: promotes whatever epoch it is told
PromotedToStaged(n, e) ==  \* mutant: does not wait for a frame of the staged epoch
  IF sm[n].phase = "staged" THEN sm[n].staged.epoch ELSE sendEpoch[n]

PromotedTo(n, e) == IF CanActivate(Observed(sm[n], e), e) THEN e ELSE sendEpoch[n]

LockFreeAlways(n) == TRUE  \* mutant: the sender has no mutex
LockFree(n) == tun[n].pc # "sealing"

-----------------------------------------------------------------------------
(* TUN threads. *)

(* A packet was read from the TUN device: Encrypt reads the send epoch.    *)
TunRead(n) ==
  /\ n = "client" => up
  /\ tun[n].pc = "idle"
  /\ tun' = [tun EXCEPT ![n] =
       [pc |-> "sealing", epoch |-> sendEpoch[n], body |-> Plain("data")]]
  /\ UNCHANGED <<control, exchange, reply, up, net>>

(* The rotation interval has elapsed when the client's TUN thread asks.    *)
BuildRekeyInit ==
  /\ up
  /\ tun["client"].pc = "idle"
  /\ ReadyForRekey(sm["client"])
  /\ ~CarrierChanged(pending, sm["client"])
  /\ LET p == PendingForInit(pending, sm["client"], freshEph["client"])
     IN  /\ pending' = p
         /\ tun' = [tun EXCEPT !["client"] =
              [pc |-> "built", epoch |-> 0, body |-> RekeyInit(p.eph, p.base)]]
  /\ freshEph' = [freshEph EXCEPT !["client"] = IF pending = None THEN @ + 1 ELSE @]
  /\ UNCHANGED <<control, tx, reply, up, net>>

(* The init goes to the sender, which reads the send epoch at that time.   *)
SendRekeyInit ==
  /\ up
  /\ tun["client"].pc = "built"
  /\ tun' = [tun EXCEPT !["client"].pc = "sealing",
                        !["client"].epoch = sendEpoch["client"]]
  /\ UNCHANGED <<control, exchange, reply, up, net>>

(* Encrypt resolves the epoch it read, seals, and the datagram is written. *)
TunSeal(n) ==
  /\ n = "client" => up
  /\ tun[n].pc = "sealing"
  /\ net' = net \cup {Sealed(n, tun[n].epoch, tun[n].body)}
  /\ tun' = [tun EXCEPT ![n] = TunIdle]
  /\ UNCHANGED <<control, exchange, reply, up>>

-----------------------------------------------------------------------------
(* The client's receiving thread. *)

(* checkLiveness: the same thread moves the epochs, so Encrypt is one step. *)
SendPing ==
  /\ up
  /\ LockFree("client")
  /\ net' = net \cup {Sealed("client", sendEpoch["client"], Plain("ping"))}
  /\ UNCHANGED <<control, exchange, tun, reply, up>>

(* Data (a Pong is no more), or an ack the coordinator does not consider:  *)
(* only the authenticated epoch counts.                                    *)
ClientReceive(m) ==
  /\ up
  /\ Opens("client", m)
  /\ m.body.kind = "data" \/ (m.body.kind = "ack" /\ ~AckConsidered(pending, m.epoch))
  /\ sm' = [sm EXCEPT !["client"] = ObservedActivated(@, m.epoch)]
  /\ sendEpoch' = [sendEpoch EXCEPT !["client"] = PromotedTo("client", m.epoch)]
  /\ UNCHANGED <<ring, epochCounter, exchange, tun, reply, up, net>>

(* HandleRekeyAck.  A success stages the epoch and the client sends under  *)
(* it at once.  On a failure V1 keeps its pending key while V2 has dropped *)
(* its handshake state before it tries, and exhausted epochs end the       *)
(* session.                                                                *)
AckInstalls(m) ==
  /\ AckAuthentic(pending, m.body)
  /\ ReadyForRekey(ObservedActivated(sm["client"], m.epoch))
  /\ Stageable("client", PromotedTo("client", m.epoch))

AckMeetsExhaustion(m) ==
  /\ AckAuthentic(pending, m.body)
  /\ ReadyForRekey(ObservedActivated(sm["client"], m.epoch))
  /\ EpochsExhausted("client")

ClientHandleAck(m) ==
  LET seen == ObservedActivated(sm["client"], m.epoch)
      epoch == epochCounter["client"] + 1
      key == Derive(seen.current.key, pending.eph, m.body.pub)
  IN  /\ up
      /\ Opens("client", m)
      /\ m.body.kind = "ack"
      /\ AckConsidered(pending, m.epoch)
      /\ IF AckInstalls(m)
           THEN /\ ring' = [ring EXCEPT !["client"] = Insert(@, epoch, key)]
                /\ epochCounter' = [epochCounter EXCEPT !["client"] = epoch]
                /\ sm' = [sm EXCEPT !["client"] =
                            Activated(RecordStaged(seen, epoch, key), epoch)]
                /\ sendEpoch' = [sendEpoch EXCEPT !["client"] = epoch]
                /\ pending' = None
                /\ up' = up
           ELSE /\ sm' = [sm EXCEPT !["client"] = seen]
                /\ sendEpoch' = [sendEpoch EXCEPT !["client"] = PromotedTo("client", m.epoch)]
                /\ pending' = IF V2 THEN None ELSE pending
                /\ up' = ~AckMeetsExhaustion(m)
                /\ UNCHANGED <<ring, epochCounter>>
      /\ UNCHANGED <<tx, freshEph, tun, reply, net>>

(* EpochExhausted from the server: the session ends and the client         *)
(* reconnects with a fresh handshake.                                      *)
ClientReceiveExhausted(m) ==
  /\ up
  /\ Opens("client", m)
  /\ m.body.kind = "exhausted"
  /\ up' = FALSE
  /\ sm' = [sm EXCEPT !["client"] = ObservedActivated(@, m.epoch)]
  /\ sendEpoch' = [sendEpoch EXCEPT !["client"] = PromotedTo("client", m.epoch)]
  /\ UNCHANGED <<ring, epochCounter, exchange, tun, reply, net>>

-----------------------------------------------------------------------------
(* The server's receiving thread: handleDecrypted, then the reply it owes. *)

ServerAuthenticates(m) ==
  /\ reply = None
  /\ Opens("server", m)
  /\ sendEpoch' = [sendEpoch EXCEPT !["server"] = PromotedTo("server", m.epoch)]

SeenTx(m) == TxActivated(TxObserved(tx, m.epoch), m.epoch)
SeenSm(m) == ObservedActivated(sm["server"], m.epoch)

ServerReceive(m) ==
  /\ ServerAuthenticates(m)
  /\ m.body.kind \in {"data", "ping"}
  /\ sm' = [sm EXCEPT !["server"] = SeenSm(m)]
  /\ tx' = SeenTx(m)
  /\ reply' = IF m.body.kind = "ping" THEN Plain("data") ELSE None
  /\ UNCHANGED <<ring, epochCounter, pending, freshEph, tun, up, net>>

(* Handle: a repeated request of the open exchange gets the same response. *)
ServerResendAck(m) ==
  /\ ServerAuthenticates(m)
  /\ m.body.kind = "init"
  /\ MayResend(SeenTx(m), m.body, m.epoch)
  /\ sm' = [sm EXCEPT !["server"] = SeenSm(m)]
  /\ tx' = SeenTx(m)
  /\ reply' = SeenTx(m).response
  /\ UNCHANGED <<ring, epochCounter, pending, freshEph, tun, up, net>>

(* Handle: a new request stages the next epoch and opens an exchange.      *)
ServerStartRekey(m) ==
  LET seen == SeenSm(m)
      epoch == epochCounter["server"] + 1
      pub == freshEph["server"]
      key == Derive(seen.current.key, m.body.eph, pub)
      ack == RekeyAck(m.body.eph, pub)
  IN  /\ ServerAuthenticates(m)
      /\ m.body.kind = "init"
      /\ MayStart(SeenTx(m), m.body, m.epoch, seen)
      /\ Answerable(m.body, seen)
      /\ Stageable("server", PromotedTo("server", m.epoch))
      /\ ring' = [ring EXCEPT !["server"] = Insert(@, epoch, key)]
      /\ epochCounter' = [epochCounter EXCEPT !["server"] = epoch]
      /\ sm' = [sm EXCEPT !["server"] = RecordStaged(seen, epoch, key)]
      /\ tx' = NewTransaction(m.body, ack, m.epoch, epoch)
      /\ freshEph' = [freshEph EXCEPT !["server"] = @ + 1]
      /\ reply' = ack
      /\ UNCHANGED <<pending, tun, up, net>>

(* Handle does nothing, or fails; an exhausted epoch counter is reported.  *)
ServerDeclineInit(m) ==
  LET seen == SeenSm(m)
      tried == MayStart(SeenTx(m), m.body, m.epoch, seen) /\ Answerable(m.body, seen)
  IN  /\ ServerAuthenticates(m)
      /\ m.body.kind = "init"
      /\ ~MayResend(SeenTx(m), m.body, m.epoch)
      /\ tried => ~Stageable("server", PromotedTo("server", m.epoch))
      /\ sm' = [sm EXCEPT !["server"] = seen]
      /\ tx' = SeenTx(m)
      /\ reply' = IF tried /\ EpochsExhausted("server") THEN Plain("exhausted") ELSE None
      /\ UNCHANGED <<ring, epochCounter, pending, freshEph, tun, up, net>>

(* The reply waits for the sender's mutex.                                 *)
SendReply ==
  /\ reply # None
  /\ LockFree("server")
  /\ net' = net \cup {Sealed("server", sendEpoch["server"], reply)}
  /\ reply' = None
  /\ UNCHANGED <<control, exchange, tun, up>>

-----------------------------------------------------------------------------
Deliver(m) ==
  \/ ClientReceive(m)
  \/ ClientHandleAck(m)
  \/ ClientReceiveExhausted(m)
  \/ ServerReceive(m)
  \/ ServerResendAck(m)
  \/ ServerStartRekey(m)
  \/ ServerDeclineInit(m)

Next ==
  \/ \E n \in Node : TunRead(n) \/ TunSeal(n)
  \/ BuildRekeyInit
  \/ SendRekeyInit
  \/ SendPing
  \/ SendReply
  \/ \E m \in net : Deliver(m)

Spec == Init /\ [][Next]_vars

(* What the code's loops and a network that is not down for good provide.  *)
(* Every loop of the client's TUN thread ends by asking for a due rekey;   *)
(* a thread inside the sender or waiting for its mutex goes on; the tunnel *)
(* has uplink traffic or the client pings; when the server is silent the   *)
(* client pings it; and of the datagrams an end repeats under its latest   *)
(* epoch, of each kind, one gets through.                                  *)
DeliverLatest(n, kind) ==
  \E m \in net :
    m.to = n /\ m.body.kind = kind /\ m.epoch = sendEpoch[Peer(n)] /\ Deliver(m)

DeliverAnswer == DeliverLatest("client", "ack") \/ DeliverLatest("client", "exhausted")

LocalFairness ==
  /\ SF_vars(BuildRekeyInit)
  /\ WF_vars(SendRekeyInit)
  /\ \A n \in Node : WF_vars(TunSeal(n))
  /\ SF_vars(SendReply)
  /\ SF_vars(TunRead("client") \/ SendPing)
  /\ SF_vars(TunRead("server") \/ SendPing)

Fairness ==
  /\ LocalFairness
  /\ \A k \in {"data", "ping", "init"} : SF_vars(DeliverLatest("server", k))
  /\ SF_vars(DeliverLatest("client", "data"))
  /\ SF_vars(DeliverAnswer)

FairSpec == Spec /\ Fairness

-----------------------------------------------------------------------------
(* Types.  Every variable keeps its type. *)
TypeOK ==
  /\ sm \in [Node -> StateMachine]
  /\ ring \in [Node -> Seq(Entry)]
  /\ sendEpoch \in [Node -> Nat]
  /\ epochCounter \in [Node -> Nat]
  /\ pending \in Pending \cup {None}
  /\ tx \in Transaction \cup {None}
  /\ freshEph \in [Node -> Nat]
  /\ tun \in [Node -> TunState]
  /\ reply \in Payload \cup {None}
  /\ up \in BOOLEAN
  /\ net \subseteq Datagram

(* The two ends never hold different keys for the same epoch number,       *)
(* whatever was lost, repeated or reordered: epochs are numbered by each   *)
(* end alone (epochCounter) and only the carrier-epoch and request-hash    *)
(* checks of the coordinators keep the numbering aligned.                  *)
KeyAgreement ==
  \A i \in DOMAIN ring["client"], j \in DOMAIN ring["server"] :
    ring["client"][i].epoch = ring["server"][j].epoch
      => ring["client"][i].key = ring["server"][j].key

(* Neither end ever sends under an epoch the other cannot open: Encrypt    *)
(* and Decrypt of the two ends meet in the middle of every transition.     *)
SendEpochOpensAtPeer ==
  \A n \in Node :
    /\ Resolvable(ring[Peer(n)], sendEpoch[n])
    /\ Resolvable(ring[n], sendEpoch[n])

(* The server runs at most one epoch ahead of the client and never behind. *)
EpochLockStep ==
  /\ epochCounter["client"] <= epochCounter["server"]
  /\ epochCounter["server"] <= epochCounter["client"] + 1

(* Encrypt's fallback to the newest session ("should not happen") is never *)
(* taken: the epoch a TUN thread has read outlives its Encrypt call,       *)
(* because the sender's mutex stops the other thread of that end before    *)
(* the ring can turn over.                                                 *)
EncryptNeverFallsBack ==
  \A n \in Node : tun[n].pc = "sealing" => Resolvable(ring[n], tun[n].epoch)

(* StageEpoch's refusal to evict the send epoch is never the reason why a  *)
(* rekey that the state machine allows fails.                              *)
StagingNeverRefused ==
  \A n \in Node : sm[n].phase = "idle" => ~WouldEvict(n, sendEpoch[n])

(* A client exchange stays bound to the epoch the client sends under, so   *)
(* MaybeBuildRekeyInit never reports a changed carrier epoch and an ack    *)
(* for the exchange can always complete it.                                *)
CarrierStaysCurrent ==
  pending # None => /\ pending.carrier = sendEpoch["client"]
                    /\ sm["client"].phase = "idle"

(* The server stages at most one epoch for one request, however often the  *)
(* request arrives.                                                        *)
OneEpochPerRequest ==
  \A i, j \in DOMAIN ring["server"] :
    LET a == ring["server"][i].key
        b == ring["server"][j].key
    IN  a # InitialKey /\ b # InitialKey /\ a[Len(a)][1] = b[Len(b)][1] => i = j

(* The send epoch of either end moves up by one at a time and never back.  *)
SendEpochAdvances ==
  [][\A n \in Node : sendEpoch'[n] \in {sendEpoch[n], sendEpoch[n] + 1}]_vars

(* The session is a handover of epochs: an end holds what its ring holds,  *)
(* sends under the send epoch, and the server never sends under an epoch   *)
(* that the client has yet to install.                                     *)
Held == [n \in Node |-> {ring[n][i] : i \in DOMAIN ring[n]}]
Latest == [n \in Node |-> ring[n][Len(ring[n])]]
Sending == [n \in Node |-> [epoch |-> sendEpoch[n], key |-> KeyOf(ring[n], sendEpoch[n])]]

Handover == INSTANCE EpochHandover WITH
  Early <- FALSE,
  First <- [epoch |-> 0, key |-> InitialKey],
  holds <- Held,
  newest <- Latest,
  sends <- Sending

ImplementsHandover == Handover!HandoverSpec

(* Under V2 an init the server may take up is one it can answer: it was    *)
(* built over the keys the server has in use when it arrives.              *)
InitAnswerable ==
  \A m \in net :
    /\ m.body.kind = "init"
    /\ Opens("server", m)
    /\ MayStart(SeenTx(m), m.body, m.epoch, SeenSm(m))
    => Answerable(m.body, SeenSm(m))

(* A rekey ends: the exchange the client started is answered and its       *)
(* transition is over, so that the next one may start; an epoch the server *)
(* staged is taken into use, and its transaction does not block the next   *)
(* one.  Or the session ends.                                              *)
RekeysComplete ==
  /\ pending # None ~> (pending = None /\ ReadyForRekey(sm["client"])) \/ ~up
  /\ ~ReadyForRekey(sm["server"]) ~> (ReadyForRekey(sm["server"]) /\ tx # None /\ Complete(tx)) \/ ~up
=============================================================================
