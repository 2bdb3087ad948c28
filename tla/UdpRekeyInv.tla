----------------------------- MODULE UdpRekeyInv -----------------------------
(***************************************************************************)
(* Why the epochs of a UDP session stay aligned and the keys behind them   *)
(* agree: the inductive invariants behind the properties of UdpRekey.      *)
(*   EpochInv  how far the two ends, the requests and the messages on the  *)
(*             way can be apart; the run of MCUdpRekey checks it;          *)
(*   SealInv   how far an end counts on while a TUN thread encrypts;       *)
(*   KeyInv    which request an ack, an init and a key belong to.          *)
(* UdpRekeyProofs proves all three for every MaxEpoch, the last two for    *)
(* rings of at least three and two epochs.                                 *)
(***************************************************************************)
EXTENDS UdpRekey

(* Types, with what makes them inductive: a staged epoch has its keys, and *)
(* the ring is never empty.                                                *)
StagedKeyPresent == \A n \in Node : sm[n].phase = "staged" => sm[n].staged.key \in Key
RingNonEmpty == \A n \in Node : ring[n] # << >>
TypeInv == TypeOK /\ StagedKeyPresent /\ RingNonEmpty

(* The control plane, the counter and the ring of one end agree: the       *)
(* counter is the newest epoch of the ring, and the one after the send     *)
(* epoch exactly while an epoch is staged.                                 *)
Increasing(r) == \A i, j \in DOMAIN r : i < j => r[i].epoch < r[j].epoch

Numbering ==
  \A n \in Node :
    /\ Increasing(ring[n])
    /\ ring[n][Len(ring[n])].epoch = epochCounter[n]
    /\ sendEpoch[n] = sm[n].current.epoch
    /\ sm[n].phase # "staged" => epochCounter[n] = sendEpoch[n]
    /\ sm[n].phase = "staged" => /\ sm[n].staged.epoch = epochCounter[n]
                                 /\ epochCounter[n] = sendEpoch[n] + 1

(* The client activates what it stages in the same step; the server        *)
(* activates on a frame that is also the observation it waits for.         *)
Roles ==
  /\ sm["client"].phase # "staged"
  /\ sm["server"].phase # "retiring"
  /\ tun["server"].body.kind = "data"
  /\ tun["client"].body.kind \in {"data", "init"}

(* What the server has seen, the client has sent.                          *)
Awareness ==
  /\ sm["server"].maxObserved <= sendEpoch["client"]
  /\ sm["server"].phase = "idle" => sendEpoch["server"] <= sm["server"].maxObserved
  /\ \A m \in net : m.to = "server" => m.epoch <= sendEpoch["client"]

(* The transaction names the newest epoch and is open while it is staged.  *)
TransactionOpen ==
  /\ tx = None => epochCounter["server"] = 0
  /\ tx # None => /\ tx.epoch = epochCounter["server"]
                  /\ tx.response.kind = "ack"
                  /\ tx.sendActivated <=> sm["server"].phase = "idle"
                  /\ tx.peerObserved <=> sm["server"].phase = "idle"

(* An ack travels under the epoch before the one it announces.             *)
AckBound ==
  /\ \A m \in net : m.body.kind = "ack" => m.epoch < epochCounter["server"]
  /\ reply # None /\ reply.kind = "ack" => sm["server"].phase = "staged"

InStep ==
  /\ EpochLockStep
  /\ SendEpochOpensAtPeer
  /\ sendEpoch["server"] <= sendEpoch["client"]

EpochInv ==
  /\ Numbering
  /\ Roles
  /\ Awareness
  /\ TransactionOpen
  /\ AckBound
  /\ CarrierStaysCurrent
  /\ InStep

(* A ring holds the latest epochs without a gap, all of them until it is   *)
(* full.                                                                   *)
Contiguous(r) ==
  /\ \A i \in DOMAIN r : r[i].epoch + Len(r) = r[Len(r)].epoch + i
  /\ Len(r) = Capacity \/ r[1].epoch = 0

(* How far an end may count while one of its TUN threads is inside Encrypt *)
(* with an epoch it has read.  The client counts once, for the exchange    *)
(* that was already pending; the server may answer one request that was    *)
(* already staged and start one more, whose ack waits for the mutex.       *)
SealsRecent ==
  /\ tun["client"].pc = "sealing" =>
       /\ tun["client"].epoch <= epochCounter["client"]
       /\ epochCounter["client"] <= tun["client"].epoch + 1
       /\ pending # None => epochCounter["client"] = tun["client"].epoch
  /\ tun["server"].pc = "sealing" =>
       /\ tun["server"].epoch <= epochCounter["server"]
       /\ epochCounter["server"] <= tun["server"].epoch + 2
       /\ reply = None => epochCounter["server"] <= tun["server"].epoch + 1

SealInv ==
  /\ \A n \in Node : Contiguous(ring[n])
  /\ SealsRecent

(* Why the keys agree.  The newest keys of a ring are the ones in use, or  *)
(* the staged ones, derived from those in use.  A server that is an epoch  *)
(* ahead derived from what the client has in use.                          *)
Newest(n) == ring[n][Len(ring[n])].key
ServerAhead == epochCounter["client"] < epochCounter["server"]

KeysInUse ==
  /\ sm["client"].current.key = Newest("client")
  /\ sm["server"].phase = "idle" => sm["server"].current.key = Newest("server")
  /\ sm["server"].phase = "staged" =>
       /\ sm["server"].staged.key = Newest("server")
       /\ Newest("server")
            = Derive(sm["server"].current.key, tx.response.eph, tx.response.pub)
  /\ ServerAhead => sm["server"].current.key = Newest("client")

(* Of the acks on their way, those under the epoch before the newest one   *)
(* are the response of the open transaction.                               *)
AcksAnswer ==
  /\ tx # None => tx.response.eph = tx.request.eph
  /\ reply # None /\ reply.kind = "ack" => reply = tx.response
  /\ \A m \in net :
       m.body.kind = "ack" /\ m.epoch + 1 = epochCounter["server"] => m.body = tx.response

(* An init under the epoch of the client asks for the pending exchange, or *)
(* is a late copy of the request that led to this very epoch: the TUN      *)
(* thread may have built it before the ack of another copy came in.        *)
InitOf(p) == RekeyInit(p.eph, p.base)
AsksFor(body) ==
  \/ pending # None /\ body = InitOf(pending)
  \/ tx # None /\ body = tx.request

RequestsCurrent ==
  /\ ServerAhead => pending # None /\ tx.request = InitOf(pending)
  /\ ~ServerAhead =>
       \A m \in net :
         /\ m.to = "server"
         /\ m.body.kind = "init"
         /\ m.epoch = epochCounter["client"]
         => AsksFor(m.body)
  /\ tun["client"].body.kind = "init" =>
       /\ pending # None => tun["client"].body = InitOf(pending)
       /\ pending = None => tx # None /\ tun["client"].body = tx.request

(* The ephemeral of a pending exchange is newer than those the server has  *)
(* answered; under V2 it is bound to the keys in use.                      *)
Requested(key) == key[Len(key)][1]

RequestsFresh ==
  /\ pending # None => /\ pending.eph < freshEph["client"]
                       /\ V2 => pending.base = Newest("client")
  /\ \A i \in DOMAIN ring["server"] :
       ring["server"][i].key # InitialKey =>
         /\ Requested(ring["server"][i].key) < freshEph["client"]
         /\ pending # None /\ ~ServerAhead => Requested(ring["server"][i].key) < pending.eph
  /\ OneEpochPerRequest

KeyInv ==
  /\ KeyAgreement
  /\ KeysInUse
  /\ AcksAnswer
  /\ RequestsCurrent
  /\ RequestsFresh
  /\ epochCounter["server"] <= MaxEpoch
==============================================================================
