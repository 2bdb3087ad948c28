------------------------------ MODULE TcpRekey ------------------------------
(***************************************************************************)
(* One TCP (or WebSocket) session while it rekeys: the dual-epoch Crypto   *)
(* and the StateMachine of each end, the two coordinators, the threads     *)
(* that drive them, and the two byte streams between them.                 *)
(*                                                                         *)
(* Every frame is sealed and written under the sender's mutex, with the    *)
(* crypto's lock held while it is sealed, so the frames of one direction   *)
(* are on the wire in the order they were sealed.  Nothing is lost or      *)
(* reordered while the connection lasts, and a frame that does not open    *)
(* ends the session (handleFrame, HandleTransport): unlike the UDP end, a  *)
(* TCP end may never meet a frame of an epoch it does not hold.            *)
(*                                                                         *)
(* "SlowLink" says whether an answer may take longer than the rotation     *)
(* interval (two minutes by default), so that the client repeats an init   *)
(* it has no ack for.                                                      *)
(***************************************************************************)
EXTENDS RekeyCoordinator

CONSTANTS
  MaxEpoch,      \* core.MaxEpoch, 65000 in the code
  SlowLink,      \* may an init be repeated before its ack arrives?
  MaxInFlight    \* bound of the model: frames on the wire in one direction

ASSUME TcpAssumption ==
  MaxEpoch \in Nat /\ SlowLink \in BOOLEAN /\ MaxInFlight \in Nat \ {0}

Node == {"client", "server"}
Peer(n) == IF n = "client" THEN "server" ELSE "client"

VARIABLES
  sm,            \* the StateMachine of each end
  newest,        \* Crypto.recvNewest
  previous,      \* Crypto.recvPrevious, or None
  send,          \* Crypto.send
  pending,       \* the client coordinator's exchange, or None
  tx,            \* the server coordinator's transaction, or None
  freshEph,      \* the next unused ephemeral key of each end
  built,         \* the init the client's TUN thread built and has not sent, or None
  reply,         \* what the server's connection thread is about to send, or None
  promote,       \* the epoch that thread activates once the ack is out, or None
  wire,          \* the frames on the way to each end
  up             \* FALSE once either end has closed the connection

crypto == <<newest, previous, send>>
exchange == <<pending, tx, freshEph>>
vars == <<sm, crypto, exchange, built, reply, promote, wire, up>>

Entry == [epoch : Nat, key : Key]
Frame == [epoch : Nat, key : Key, body : Payload]

(* The absence of a session is not a session. *)
ASSUME NoEntryAssumption == None \notin Entry

Init ==
  LET first == [epoch |-> 0, key |-> InitialKey]
  IN  /\ sm = [n \in Node |-> NewStateMachine]
      /\ newest = [n \in Node |-> first]
      /\ previous = [n \in Node |-> None]
      /\ send = [n \in Node |-> first]
      /\ pending = None
      /\ tx = None
      /\ freshEph = [n \in Node |-> 0]
      /\ built = None
      /\ reply = None
      /\ promote = None
      /\ wire = [n \in Node |-> << >>]
      /\ up = TRUE

-----------------------------------------------------------------------------
(* The dual-epoch Crypto.  recvNewest.epoch is the epoch counter: both are *)
(* set together in StageEpoch and nowhere else.                            *)

Opens(n, f) ==
  \/ f.epoch = newest[n].epoch /\ f.key = newest[n].key
  \/ /\ f.epoch # newest[n].epoch
     /\ previous[n] # None
     /\ f.epoch = previous[n].epoch /\ f.key = previous[n].key

StagingRefused(n) == previous[n] # None
EpochsExhausted(n) == newest[n].epoch >= MaxEpoch
Stageable(n) == ~StagingRefused(n) /\ ~EpochsExhausted(n)

(* RetirePreviousEpoch agrees when the send session is the newest one.     *)
Releases(prev, snd, new) == prev # None /\ snd = new

(* ObservePeerEpoch(e) at end n: the control plane, and what it does to    *)
(* the crypto it owns.                                                     *)
ObservedSm(n, e) ==
  RetirePrevious(RecordObserved(sm[n], e), Releases(previous[n], send[n], newest[n]))

RetiresNow(n, e) ==
  /\ DueForRetirement(RecordObserved(sm[n], e))
  /\ Releases(previous[n], send[n], newest[n])

PreviousAfter(n, e) == IF RetiresNow(n, e) THEN None ELSE previous[n]

Room(n) == Len(wire[n]) < MaxInFlight

Sealed(n, body) == [epoch |-> send[n].epoch, key |-> send[n].key, body |-> body]

Write(n, body) ==
  /\ up
  /\ Room(Peer(n))
  /\ wire' = [wire EXCEPT ![Peer(n)] = Append(@, Sealed(n, body))]

-----------------------------------------------------------------------------
(* Sending threads: TUN packets of either end, the client's keepalive, the *)
(* client's rekey init.                                                    *)

TunSend(n) ==
  /\ n = "client" => built = None
  /\ Write(n, Plain("data"))
  /\ UNCHANGED <<sm, crypto, exchange, built, reply, promote, up>>

SendPing ==
  /\ Write("client", Plain("ping"))
  /\ UNCHANGED <<sm, crypto, exchange, built, reply, promote, up>>

BuildRekeyInit ==
  /\ up
  /\ built = None
  /\ ReadyForRekey(sm["client"])
  /\ ~CarrierChanged(pending, sm["client"])
  /\ SlowLink \/ pending = None
  /\ LET p == PendingForInit(pending, sm["client"], freshEph["client"])
     IN  pending' = p /\ built' = RekeyInit(p.eph, p.base)
  /\ freshEph' = [freshEph EXCEPT !["client"] = IF pending = None THEN @ + 1 ELSE @]
  /\ UNCHANGED <<sm, crypto, tx, reply, promote, wire, up>>

SendRekeyInit ==
  /\ built # None
  /\ Write("client", built)
  /\ built' = None
  /\ UNCHANGED <<sm, crypto, exchange, reply, promote, up>>

-----------------------------------------------------------------------------
(* Receiving: both threads take the oldest frame and must open it. *)

Take(n) ==
  /\ up
  /\ wire[n] # << >>
  /\ wire' = [wire EXCEPT ![n] = Tail(@)]

(* A frame that does not open ends the session of both ends. *)
DecryptFails(n) ==
  /\ n = "server" => reply = None /\ promote = None
  /\ Take(n)
  /\ ~Opens(n, Head(wire[n]))
  /\ up' = FALSE
  /\ UNCHANGED <<sm, crypto, exchange, built, reply, promote>>

ClientReceive ==
  LET f == Head(wire["client"])
  IN  /\ Take("client")
      /\ Opens("client", f)
      /\ f.body.kind = "data" \/ (f.body.kind = "ack" /\ ~AckConsidered(pending, f.epoch))
      /\ sm' = [sm EXCEPT !["client"] = ObservedSm("client", f.epoch)]
      /\ previous' = [previous EXCEPT !["client"] = PreviousAfter("client", f.epoch)]
      /\ UNCHANGED <<newest, send, exchange, built, reply, promote, up>>

ClientReceiveExhausted ==
  LET f == Head(wire["client"])
  IN  /\ Take("client")
      /\ Opens("client", f)
      /\ f.body.kind = "exhausted"
      /\ up' = FALSE
      /\ sm' = [sm EXCEPT !["client"] = ObservedSm("client", f.epoch)]
      /\ previous' = [previous EXCEPT !["client"] = PreviousAfter("client", f.epoch)]
      /\ UNCHANGED <<newest, send, exchange, built, reply, promote>>

(* HandleRekeyAck: stage, send under the new epoch at once.  A failure     *)
(* leaves V1's pending key, has dropped V2's handshake state, and ends the *)
(* session only when the epochs are exhausted.                             *)
AckInstalls(f) ==
  /\ AckAuthentic(pending, f.body)
  /\ ReadyForRekey(ObservedSm("client", f.epoch))
  /\ PreviousAfter("client", f.epoch) = None
  /\ ~EpochsExhausted("client")

AckMeetsExhaustion(f) ==
  /\ AckAuthentic(pending, f.body)
  /\ ReadyForRekey(ObservedSm("client", f.epoch))
  /\ PreviousAfter("client", f.epoch) = None
  /\ EpochsExhausted("client")

ClientHandleAck ==
  LET f == Head(wire["client"])
      seen == ObservedSm("client", f.epoch)
      entry == [epoch |-> newest["client"].epoch + 1,
                key |-> Derive(seen.current.key, pending.eph, f.body.pub)]
  IN  /\ Take("client")
      /\ Opens("client", f)
      /\ f.body.kind = "ack"
      /\ AckConsidered(pending, f.epoch)
      /\ IF AckInstalls(f)
           THEN /\ sm' = [sm EXCEPT !["client"] =
                            RetirePrevious(RecordActivated(RecordStaged(seen, entry.epoch, entry.key)), TRUE)]
                /\ previous' = [previous EXCEPT !["client"] =
                     IF seen.maxObserved >= entry.epoch THEN None ELSE newest["client"]]
                /\ newest' = [newest EXCEPT !["client"] = entry]
                /\ send' = [send EXCEPT !["client"] = entry]
                /\ pending' = None
                /\ up' = up
           ELSE /\ sm' = [sm EXCEPT !["client"] = seen]
                /\ previous' = [previous EXCEPT !["client"] = PreviousAfter("client", f.epoch)]
                /\ pending' = IF V2 THEN None ELSE pending
                /\ up' = ~AckMeetsExhaustion(f)
                /\ UNCHANGED <<newest, send>>
      /\ UNCHANGED <<tx, freshEph, built, reply, promote>>

-----------------------------------------------------------------------------
(* The server's connection thread: handleFrame observes the epoch but does *)
(* not activate; the ack goes out first, the new epoch is activated after. *)

ServerTakes ==
  LET f == Head(wire["server"])
  IN  /\ reply = None
      /\ promote = None
      /\ Take("server")
      /\ Opens("server", f)

SeenTx(f) == TxObserved(tx, f.epoch)

ServerReceive ==
  LET f == Head(wire["server"])
  IN  /\ ServerTakes
      /\ f.body.kind \in {"data", "ping"}
      /\ sm' = [sm EXCEPT !["server"] = ObservedSm("server", f.epoch)]
      /\ previous' = [previous EXCEPT !["server"] = PreviousAfter("server", f.epoch)]
      /\ tx' = SeenTx(f)
      /\ reply' = IF f.body.kind = "ping" THEN Plain("data") ELSE None
      /\ UNCHANGED <<newest, send, pending, freshEph, built, promote, up>>

ServerResendAck ==
  LET f == Head(wire["server"])
  IN  /\ ServerTakes
      /\ f.body.kind = "init"
      /\ MayResend(SeenTx(f), f.body, f.epoch)
      /\ sm' = [sm EXCEPT !["server"] = ObservedSm("server", f.epoch)]
      /\ previous' = [previous EXCEPT !["server"] = PreviousAfter("server", f.epoch)]
      /\ tx' = SeenTx(f)
      /\ reply' = SeenTx(f).response
      /\ promote' = SeenTx(f).epoch
      /\ UNCHANGED <<newest, send, pending, freshEph, built, up>>

ServerStartRekey ==
  LET f == Head(wire["server"])
      seen == ObservedSm("server", f.epoch)
      pub == freshEph["server"]
      entry == [epoch |-> newest["server"].epoch + 1,
                key |-> Derive(seen.current.key, f.body.eph, pub)]
      ack == RekeyAck(f.body.eph, pub)
  IN  /\ ServerTakes
      /\ f.body.kind = "init"
      /\ MayStart(SeenTx(f), f.body, f.epoch, seen)
      /\ Answerable(f.body, seen)
      /\ PreviousAfter("server", f.epoch) = None
      /\ ~EpochsExhausted("server")
      /\ sm' = [sm EXCEPT !["server"] = RecordStaged(seen, entry.epoch, entry.key)]
      /\ previous' = [previous EXCEPT !["server"] = newest["server"]]
      /\ newest' = [newest EXCEPT !["server"] = entry]
      /\ tx' = NewTransaction(f.body, ack, f.epoch, entry.epoch)
      /\ freshEph' = [freshEph EXCEPT !["server"] = @ + 1]
      /\ reply' = ack
      /\ promote' = entry.epoch
      /\ UNCHANGED <<send, pending, built, up>>

ServerDeclineInit ==
  LET f == Head(wire["server"])
      seen == ObservedSm("server", f.epoch)
      free == PreviousAfter("server", f.epoch) = None
      tried == MayStart(SeenTx(f), f.body, f.epoch, seen) /\ Answerable(f.body, seen)
  IN  /\ ServerTakes
      /\ f.body.kind = "init"
      /\ ~MayResend(SeenTx(f), f.body, f.epoch)
      /\ tried => ~free \/ EpochsExhausted("server")
      /\ sm' = [sm EXCEPT !["server"] = seen]
      /\ previous' = [previous EXCEPT !["server"] = PreviousAfter("server", f.epoch)]
      /\ tx' = SeenTx(f)
      /\ reply' = IF tried /\ free THEN Plain("exhausted") ELSE None
      /\ UNCHANGED <<newest, send, pending, freshEph, built, promote, up>>

SendReply ==
  /\ reply # None
  /\ Write("server", reply)
  /\ reply' = None
  /\ UNCHANGED <<sm, crypto, exchange, built, promote, up>>

(* ActivateSendEpoch, after sendPlaintext has written the ack. *)
ServerActivate ==
  LET s == sm["server"]
      moved == RecordActivated(s)
  IN  /\ up
      /\ reply = None
      /\ promote # None
      /\ promote' = None
      /\ tx' = TxActivated(tx, promote)
      /\ IF CanActivate(s, promote)
           THEN /\ send' = [send EXCEPT !["server"] =
                     IF newest["server"].epoch = promote THEN newest["server"] ELSE @]
                /\ sm' = [sm EXCEPT !["server"] =
                     RetirePrevious(moved, Releases(previous["server"], send'["server"], newest["server"]))]
                /\ previous' = [previous EXCEPT !["server"] =
                     IF DueForRetirement(moved) /\ send'["server"] = newest["server"] THEN None ELSE @]
           ELSE UNCHANGED <<send, sm, previous>>
      /\ UNCHANGED <<newest, pending, freshEph, built, reply, wire, up>>

(* The session is over; the client's next one starts from a new handshake. *)
Ended ==
  /\ ~up
  /\ UNCHANGED vars

-----------------------------------------------------------------------------
Next ==
  \/ \E n \in Node : TunSend(n) \/ DecryptFails(n)
  \/ SendPing
  \/ BuildRekeyInit
  \/ SendRekeyInit
  \/ ClientReceive
  \/ ClientReceiveExhausted
  \/ ClientHandleAck
  \/ ServerReceive
  \/ ServerResendAck
  \/ ServerStartRekey
  \/ ServerDeclineInit
  \/ SendReply
  \/ ServerActivate
  \/ Ended

Spec == Init /\ [][Next]_vars

(* What a thread that receives does with the oldest frame. *)
ClientTakes ==
  ClientReceive \/ ClientReceiveExhausted \/ ClientHandleAck \/ DecryptFails("client")
ServerHandles ==
  \/ ServerReceive \/ ServerResendAck \/ ServerStartRekey \/ ServerDeclineInit
  \/ DecryptFails("server")

-----------------------------------------------------------------------------
Held(n) == {newest[n], send[n]} \cup ({previous[n]} \ {None})

(* The two ends never hold different keys for the same epoch number. *)
KeyAgreement ==
  \A a \in Held("client"), b \in Held("server") : a.epoch = b.epoch => a.key = b.key

(* The session is a handover of epochs, in which the server sends under    *)
(* the new one as soon as the ack is written.                              *)
Holdings == [n \in Node |-> Held(n)]

Handover == INSTANCE EpochHandover WITH
  Early <- TRUE,
  First <- [epoch |-> 0, key |-> InitialKey],
  holds <- Holdings,
  sends <- send

ImplementsHandover == Handover!HandoverSpec

(* No frame is ever met that the receiver cannot open, although the server *)
(* sends under the new epoch before the client has shown that it has it,   *)
(* and each end forgets the old epoch on its own judgement.                *)
EveryFrameOpens ==
  up => \A n \in Node : wire[n] # << >> => Opens(n, Head(wire[n]))

(* RetirePreviousEpoch comes only after the last frame of that epoch: none *)
(* is still on its way when the receiver has dropped the session.          *)
RetiredEpochIsDrained ==
  up => \A n \in Node : \A i \in DOMAIN wire[n] :
    \/ wire[n][i].epoch >= newest[n].epoch
    \/ previous[n] # None /\ wire[n][i].epoch = previous[n].epoch

(* Types, and: the control plane and the crypto name the same send epoch,  *)
(* and that epoch is the newest or the one before.                         *)
TypesMatch ==
  /\ newest \in [Node -> Entry]
  /\ previous \in [Node -> Entry \cup {None}]
  /\ send \in [Node -> Entry]
  /\ pending \in Pending \cup {None}
  /\ tx \in Transaction \cup {None}
  /\ freshEph \in [Node -> Nat]
  /\ {built, reply} \subseteq Payload \cup {None}
  /\ promote \in Nat \cup {None}
  /\ wire \in [Node -> Seq(Frame)]
  /\ up \in BOOLEAN

ControlPlaneMatchesCrypto ==
  /\ TypesMatch
  /\ sm \in [Node -> StateMachine]
  /\ \A n \in Node :
       /\ sm[n].current = send[n]
       /\ sm[n].phase = "idle" => send[n] = newest[n]
       /\ send[n] # newest[n] => send[n] = previous[n]

(* What the coordinators' tests say: a stale ack of an earlier exchange is *)
(* rejected, it never meets the exchange that is pending now.              *)
ConsideredAckAnswersPending ==
  up /\ wire["client"] # << >> =>
    LET f == Head(wire["client"])
    IN  f.body.kind = "ack" /\ AckConsidered(pending, f.epoch)
          => f.body.eph = pending.eph
=============================================================================
