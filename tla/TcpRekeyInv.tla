----------------------------- MODULE TcpRekeyInv -----------------------------
(***************************************************************************)
(* Why the two ends of a TCP session never meet a frame they cannot open:  *)
(* the inductive invariants behind the properties of TcpRekey, proved in   *)
(* TcpRekeyProofs for every MaxEpoch and any number of frames on the wire. *)
(*   TcpInv   types, and what the phase of an end says of its crypto;      *)
(*   WireInv  the frames of a direction are ordered by epoch, and lie      *)
(*            between what the receiver still holds and the sender uses;   *)
(*   ExchangeInv  whose request an ack answers, and by which keys the      *)
(*            server is ahead; it holds under V2, and on a fast link;      *)
(*   FastInv  on a link whose answers come within the interval, the one    *)
(*            init and the one answer of an exchange.                      *)
(***************************************************************************)
EXTENDS TcpRekey

(* One end: an idle control plane has no previous session, a staged one    *)
(* has staged the newest session and sends under the previous one, and one *)
(* that waits for the peer sends under the newest.                         *)
EndInStep(s, prev, snd, new) ==
  /\ s \in StateMachine /\ new \in Entry /\ snd \in Entry /\ prev \in Entry \cup {None}
  /\ s.current = snd
  /\ s.phase = "idle" <=> prev = None
  /\ s.phase # "staged" => snd = new
  /\ s.phase = "staged" => s.staged = new /\ prev = snd

EndsInStep ==
  /\ sm \in [Node -> StateMachine]
  /\ newest \in [Node -> Entry] /\ send \in [Node -> Entry]
  /\ previous \in [Node -> Entry \cup {None}]
  /\ \A n \in Node : EndInStep(sm[n], previous[n], send[n], newest[n])

(* What the threads hold between their steps, and what is on the wire. *)
ExchangeTypes ==
  /\ pending \in Pending \cup {None}
  /\ tx \in Transaction \cup {None}
  /\ freshEph \in [Node -> Nat]
  /\ built \in Payload \cup {None}
  /\ reply \in Payload \cup {None}
  /\ promote \in Nat \cup {None}
  /\ wire \in [Node -> Seq(Frame)]
  /\ up \in BOOLEAN

TcpInv == EndsInStep /\ ExchangeTypes

(* The oldest epoch an end can open. *)
Oldest(prev, new) == IF prev = None THEN new.epoch ELSE prev.epoch
Adjacent(prev, new) == prev # None => prev.epoch + 1 = new.epoch

(* The frames on the way to an end that opens epochs from "low" on and has *)
(* seen "seen", from an end that sends under "sent".                       *)
InOrder(q, low, seen, sent) ==
  /\ low <= sent /\ seen <= sent
  /\ \A i \in DOMAIN q : low <= q[i].epoch /\ seen <= q[i].epoch /\ q[i].epoch <= sent
  /\ \A i, j \in DOMAIN q : i <= j => q[i].epoch <= q[j].epoch

WireInv ==
  \A n \in Node :
    /\ Adjacent(previous[n], newest[n])
    /\ InOrder(wire[n], Oldest(previous[n], newest[n]), sm[n].maxObserved, send[Peer(n)].epoch)

(* The client takes a new epoch into use in the step that installs it.     *)
ClientNeverStaged == sm["client"].phase # "staged"

(* The frames of a direction; whether there is one of some kinds, and that *)
(* there is only one.                                                      *)
Frames(q) == {q[i] : i \in DOMAIN q}
Carries(q, kinds) == \E f \in Frames(q) : f.body.kind \in kinds
Once(q, kinds) ==
  \A i, j \in DOMAIN q : q[i].body.kind \in kinds /\ q[j].body.kind \in kinds => i = j

-----------------------------------------------------------------------------
(* The transaction names the newest epoch of the server, which is the      *)
(* client's, or the next one by the keys the exchange leads to.            *)
TransactionNames ==
  /\ tx = None => newest["server"].epoch = 0
  /\ tx # None => /\ tx.epoch = newest["server"].epoch
                  /\ tx.request.kind = "init" /\ tx.response.kind = "ack"
                  /\ tx.response.eph = tx.request.eph

ServerAhead == newest["client"].epoch < newest["server"].epoch

ServerLeads ==
  /\ ~ServerAhead => newest["server"] = newest["client"]
  /\ ServerAhead =>
       /\ tx # None
       /\ newest["server"] =
            [epoch |-> newest["client"].epoch + 1,
             key |-> Derive(newest["client"].key, tx.request.eph, tx.response.pub)]

(* Of the acks on their way, one for the latest request is its response.   *)
Answers(ack, t) ==
  /\ t # None
  /\ ack.eph <= t.request.eph
  /\ ack.eph = t.request.eph => ack = t.response

AcksInOrder ==
  /\ reply # None /\ reply.kind = "ack" => Answers(reply, tx)
  /\ \A f \in Frames(wire["client"]) : f.body.kind = "ack" => Answers(f.body, tx)

(* Inits are built, sent and answered in the order of their ephemerals:    *)
(* the request of the transaction t, the frames of q, what is built (b),   *)
(* the pending exchange p, the next ephemeral.  Two with the same          *)
(* ephemeral are copies.                                                   *)
InitOf(p) == RekeyInit(p.eph, p.base)
NoLater(a, b) == a.eph <= b.eph /\ (a.eph = b.eph => a = b)

AskedSoFar(body, p, fresh) ==
  /\ body.eph < fresh
  /\ p # None => NoLater(body, InitOf(p))

InitsInOrder(q, t, b, p, fresh) ==
  /\ p # None => p.eph < fresh
  /\ t # None => AskedSoFar(t.request, p, fresh)
  /\ b # None => /\ b.kind = "init" /\ AskedSoFar(b, p, fresh)
                 /\ t # None => NoLater(t.request, b)
  /\ \A i \in DOMAIN q :
       q[i].body.kind = "init" =>
         /\ AskedSoFar(q[i].body, p, fresh)
         /\ t # None => NoLater(t.request, q[i].body)
         /\ b # None => NoLater(q[i].body, b)
         /\ \A j \in DOMAIN q :
              i <= j /\ q[j].body.kind = "init" => NoLater(q[i].body, q[j].body)

RequestsInOrder ==
  /\ InitsInOrder(wire["server"], tx, built, pending, freshEph["client"])
  /\ pending # None /\ tx # None /\ ~ServerAhead => tx.request.eph < pending.eph

ExchangeInv ==
  /\ ClientNeverStaged
  /\ TransactionNames
  /\ ServerLeads
  /\ AcksInOrder
  /\ RequestsInOrder

-----------------------------------------------------------------------------
(* On a fast link the init of the pending exchange is built or on the      *)
(* wire, or its answer is about to be sent or on the wire; never both, and *)
(* either only once.                                                       *)
InitKinds == {"init"}
AckKinds == {"ack"}
AnswerKinds == {"ack", "exhausted"}
Asked == built # None \/ Carries(wire["server"], InitKinds)
Holds(kinds) == reply # None /\ reply.kind \in kinds
AckAbout == Holds(AckKinds) \/ Carries(wire["client"], AckKinds)
Answered == Holds(AnswerKinds) \/ Carries(wire["client"], AnswerKinds)

OneMessage ==
  /\ Once(wire["server"], InitKinds)
  /\ Once(wire["client"], AnswerKinds)
  /\ built # None => ~Carries(wire["server"], InitKinds)
  /\ Holds(AnswerKinds) => ~Carries(wire["client"], AnswerKinds)
  /\ Asked \/ Answered => pending # None
  /\ ~(Asked /\ Answered)

(* The pending exchange goes under the epoch in use at the client, and its *)
(* request is none the server has answered.                                *)
AsksPending ==
  /\ pending # None => /\ sm["client"].phase = "idle"
                       /\ pending.carrier = newest["client"].epoch
  /\ Asked /\ tx # None => tx.request.eph < pending.eph
  /\ built # None => built.eph = pending.eph
  /\ \A f \in Frames(wire["server"]) : f.body.kind = "init" => f.body.eph = pending.eph

(* The server is ahead only while an ack is about, which answers the       *)
(* pending exchange under the epoch in use at the client.                  *)
AckLeads ==
  /\ ServerAhead <=> AckAbout
  /\ Holds(AckKinds) => /\ reply.eph = pending.eph
                        /\ send["server"].epoch = newest["client"].epoch
  /\ \A f \in Frames(wire["client"]) :
       f.body.kind = "ack" => f.body.eph = pending.eph /\ f.epoch = newest["client"].epoch

FastInv == up => OneMessage /\ AsksPending /\ AckLeads

-----------------------------------------------------------------------------
(* All keys that are in use or on the wire, by the number of their epoch.  *)
OnWire(n) == {[epoch |-> f.epoch, key |-> f.key] : f \in Frames(wire[n])}
Material == UNION {Held(n) \cup OnWire(n) : n \in Node}

(* The server has drawn every ephemeral of its own that is in a key it     *)
(* holds, so that the next one makes a key it does not hold.               *)
KeysDrawn ==
  \A a \in Held("server") : \A i \in DOMAIN a.key : a.key[i][2] < freshEph["server"]

OneKeyPerEpoch == \A a, b \in Material : a.epoch = b.epoch => a.key = b.key
==============================================================================
