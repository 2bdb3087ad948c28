--------------------------- MODULE UdpRekeyProofs ---------------------------
(***************************************************************************)
(* The invariants of a UDP session, proved for every MaxEpoch: the types   *)
(* (TypesHold), then EpochInv, from which the numbering properties of      *)
(* UdpRekey follow, for every ring capacity; then SealInv, for the epoch a *)
(* TUN thread has read (rings of three epochs or more), and KeyInv, for    *)
(* whose request an ack answers and which keys it leads to (two or more).  *)
(* A receiving step first lets the control plane see an authenticated      *)
(* epoch (ClientSees, ServerSees), then stages a new one                   *)
(* (InstallKeepsEpochs, StartRekeyKeepsEpochs) or nothing (NoEpochMoves,   *)
(* ServerOnlySees).  Last, from those invariants, that the session is a    *)
(* handover of epochs (HandoverImplemented).                               *)
(***************************************************************************)
EXTENDS UdpRekeyInv, RekeyCoordinatorProofs

(* ObservePeerEpoch keeps the keys; it may end a transition. *)
LEMMA ObservedType ==
  ASSUME NEW s, SmOK(s), NEW e \in Nat
  PROVE  LET t == Observed(s, e)
         IN  /\ SmOK(t)
             /\ t.maxObserved = Larger(e, s.maxObserved)
             /\ t.current = s.current /\ t.staged = s.staged
             /\ t.phase = IF s.phase = "retiring" /\ Larger(e, s.maxObserved) >= s.current.epoch
                            THEN "idle" ELSE s.phase
BY DEF SmOK, StateMachine, Observed, RetirePrevious, DueForRetirement,
       RecordObserved, Larger, Phase

(* ObservePeerEpoch, then ActivateSendEpoch: which epoch is current after
   them, and in which phase. *)
LEMMA ObservedActivatedFacts ==
  ASSUME NEW s, SmOK(s), NEW e \in Nat
  PROVE  LET t == ObservedActivated(s, e)
         IN  /\ SmOK(t)
             /\ t.maxObserved = Larger(e, s.maxObserved)
             /\ CanActivate(Observed(s, e), e) <=> s.phase = "staged" /\ e = s.staged.epoch
             /\ s.phase = "staged" /\ e = s.staged.epoch
                  => t.current = s.staged /\ t.phase = "idle"
             /\ ~(s.phase = "staged" /\ e = s.staged.epoch)
                  => /\ t.current = s.current /\ t.staged = s.staged
                     /\ t.phase = IF s.phase = "retiring" /\ Larger(e, s.maxObserved) >= s.current.epoch
                                    THEN "idle" ELSE s.phase
<1> DEFINE t == Observed(s, e)
<1>1. /\ SmOK(t)
      /\ t.maxObserved = Larger(e, s.maxObserved)
      /\ t.current = s.current /\ t.staged = s.staged
      /\ t.phase = IF s.phase = "retiring" /\ Larger(e, s.maxObserved) >= s.current.epoch
                     THEN "idle" ELSE s.phase
  BY ObservedType
<1> HIDE DEF t
<1> SUFFICES
      LET u == Activated(t, e)
      IN  /\ SmOK(u)
          /\ u.maxObserved = Larger(e, s.maxObserved)
          /\ CanActivate(t, e) <=> s.phase = "staged" /\ e = s.staged.epoch
          /\ s.phase = "staged" /\ e = s.staged.epoch
               => u.current = s.staged /\ u.phase = "idle"
          /\ ~(s.phase = "staged" /\ e = s.staged.epoch) => u = t
  BY <1>1 DEF t, ObservedActivated
<1>2. CanActivate(t, e) <=> s.phase = "staged" /\ e = s.staged.epoch
  BY <1>1 DEF CanActivate
<1>3. CASE s.phase = "staged" /\ e = s.staged.epoch
  <2>1. Activated(t, e) = RetirePrevious(RecordActivated(t), TRUE)
    BY <1>2, <1>3 DEF Activated
  <2>2. t.phase = "staged" /\ t.staged.epoch = e
    BY <1>1, <1>3
  <2>3. t \in StateMachine /\ t.staged.key \in Key /\ t.staged.epoch <= t.maxObserved
    BY <1>1, <1>3, <2>2 DEF SmOK, Larger, StateMachine
  <2> DEFINE a == RecordActivated(t)
  <2>4. /\ a \in StateMachine
        /\ a.current = t.staged /\ a.phase = "retiring"
        /\ a.maxObserved = t.maxObserved
    BY <2>3 DEF RecordActivated, StateMachine, Phase
  <2>5. DueForRetirement(a)
    BY <2>3, <2>4 DEF DueForRetirement, StateMachine
  <2> HIDE DEF a
  <2>6. Activated(t, e) = [a EXCEPT !.phase = "idle"]
    BY <2>1, <2>5 DEF RetirePrevious, a
  <2>7. /\ Activated(t, e) \in StateMachine /\ Activated(t, e).phase = "idle"
        /\ Activated(t, e).current = t.staged
        /\ Activated(t, e).maxObserved = t.maxObserved
    BY <2>4, <2>6 DEF StateMachine, Phase
  <2> QED
    BY <1>1, <1>2, <1>3, <2>7 DEF SmOK
<1>4. CASE ~(s.phase = "staged" /\ e = s.staged.epoch)
  BY <1>1, <1>2, <1>4 DEF Activated
<1> QED
  BY <1>3, <1>4

-----------------------------------------------------------------------------
(* The epoch ring. *)

(* Resolve finds a key for an epoch of the ring. *)
LEMMA KeyOfFacts ==
  ASSUME NEW r \in Seq(Entry), NEW e \in Nat, Resolvable(r, e)
  PROVE  KeyOf(r, e) \in Key
<1>1. PICK i \in DOMAIN r : r[i].epoch = e
  BY DEF Resolvable
<1>2. \A j \in DOMAIN r : r[j] \in Entry
  OBVIOUS
<1> QED
  BY <1>1, <1>2 DEF KeyOf, Entry

(* Encrypt seals under an epoch of the ring, the one it read if it is there. *)
LEMMA SealingEntryFacts ==
  ASSUME NEW r \in Seq(Entry), r # << >>, NEW e \in Nat
  PROVE  /\ SealingEntry(r, e) \in Entry
         /\ Resolvable(r, e) => SealingEntry(r, e).epoch = e
         /\ \E i \in DOMAIN r : SealingEntry(r, e).epoch = r[i].epoch
<1>1. CASE Resolvable(r, e)
  BY <1>1, KeyOfFacts DEF SealingEntry, Resolvable, Entry
<1>2. CASE ~Resolvable(r, e)
  <2>1. Len(r) \in DOMAIN r /\ r[Len(r)] \in Entry
    OBVIOUS
  <2> QED
    BY <1>2, <2>1 DEF SealingEntry
<1> QED
  BY <1>1, <1>2

(* Insert appends the new epoch and keeps the others, but for the oldest
   one of a full ring. *)
LEMMA InsertFacts ==
  ASSUME NEW r \in Seq(Entry), r # << >>, NEW e \in Nat, NEW key \in Key
  PROVE  LET s == Insert(r, e, key)
         IN  /\ s \in Seq(Entry)
             /\ s # << >>
             /\ s[Len(s)].epoch = e
             /\ Resolvable(s, e)
             /\ (\A i \in DOMAIN r : r[i].epoch < e) /\ Increasing(r) => Increasing(s)
             /\ \A f \in Nat : /\ Resolvable(r, f)
                               /\ ~(Len(r) = Capacity /\ r[1].epoch = f)
                               => Resolvable(s, f)
<1> DEFINE new == [epoch |-> e, key |-> key]
           kept == IF Len(r) = Capacity THEN Tail(r) ELSE r
           s == Append(kept, new)
<1>1. new \in Entry /\ new.epoch = e
  BY DEF Entry
<1>2. /\ kept \in Seq(Entry)
      /\ Len(r) = Capacity => /\ Len(kept) = Len(r) - 1
                              /\ \A i \in 1 .. Len(kept) : kept[i] = r[i + 1]
      /\ Len(r) # Capacity => kept = r
  OBVIOUS
<1> HIDE DEF new, kept
<1>3. /\ s \in Seq(Entry)
      /\ Len(s) = Len(kept) + 1
      /\ s[Len(s)] = new
      /\ \A i \in 1 .. Len(kept) : s[i] = kept[i]
      /\ DOMAIN s = 1 .. Len(kept) + 1
      /\ Len(kept) \in Nat
  BY <1>1, <1>2
<1> HIDE DEF s
<1>4. s # << >>
  BY <1>3
<1>5. Resolvable(s, e)
  BY <1>1, <1>2, <1>3 DEF Resolvable
<1>6. ASSUME \A i \in DOMAIN r : r[i].epoch < e, Increasing(r)
      PROVE  Increasing(s)
  <2> SUFFICES ASSUME NEW i \in DOMAIN s, NEW j \in DOMAIN s, i < j
               PROVE  s[i].epoch < s[j].epoch
    BY DEF Increasing
  <2>1. i \in 1 .. Len(kept) /\ s[i] = kept[i]
    BY <1>2, <1>3
  <2>2. CASE j = Len(kept) + 1
    BY <1>1, <1>2, <1>3, <1>6, <2>1, <2>2, SMTT(30)
  <2>3. CASE j \in 1 .. Len(kept)
    <3>1. CASE Len(r) = Capacity
      <4>1. /\ kept[i] = r[i + 1] /\ kept[j] = r[j + 1]
            /\ i + 1 \in DOMAIN r /\ j + 1 \in DOMAIN r /\ i + 1 < j + 1
        BY <1>2, <1>3, <2>1, <2>3, <3>1
      <4> QED
        BY <1>3, <1>6, <2>1, <2>3, <4>1 DEF Increasing
    <3>2. CASE Len(r) # Capacity
      BY <1>2, <1>3, <1>6, <2>1, <2>3, <3>2 DEF Increasing
    <3> QED
      BY <3>1, <3>2
  <2> QED
    BY <1>2, <1>3, <2>2, <2>3
<1>7. ASSUME NEW f \in Nat, Resolvable(r, f), ~(Len(r) = Capacity /\ r[1].epoch = f)
      PROVE  Resolvable(s, f)
  <2>1. PICK i \in 1 .. Len(r) : r[i].epoch = f
    BY <1>7 DEF Resolvable
  <2>2. CASE Len(r) = Capacity
    <3>1. i # 1 /\ i - 1 \in 1 .. Len(kept) /\ kept[i - 1] = r[i]
      BY <1>2, <1>7, <2>1, <2>2
    <3> QED
      BY <1>2, <1>3, <2>1, <3>1 DEF Resolvable
  <2>3. CASE Len(r) # Capacity
    BY <1>2, <1>3, <2>1, <2>3 DEF Resolvable
  <2> QED
    BY <2>2, <2>3
<1>8. s = Insert(r, e, key)
  BY DEF Insert, new, kept, s
<1> QED
  BY <1>1, <1>3, <1>4, <1>5, <1>6, <1>7, <1>8

(* The ring after Insert is a ring. *)
LEMMA InsertType ==
  ASSUME NEW r \in Seq(Entry), r # << >>, NEW e \in Nat, NEW key \in Key
  PROVE  Insert(r, e, key) \in Seq(Entry) /\ Insert(r, e, key) # << >>
BY InsertFacts

-----------------------------------------------------------------------------
(* Types. *)

(* The types of what one end holds. *)
LEMMA NodeTypes ==
  ASSUME TypeInv, NEW n \in Node
  PROVE  /\ SmOK(sm[n])
         /\ ring[n] \in Seq(Entry) /\ ring[n] # << >>
         /\ sendEpoch[n] \in Nat /\ epochCounter[n] \in Nat /\ freshEph[n] \in Nat
         /\ tun[n] \in TunState
BY DEF TypeInv, TypeOK, StagedKeyPresent, RingNonEmpty, SmOK

(* What is sealed is a datagram. *)
LEMMA SealedType ==
  ASSUME TypeInv, NEW n \in Node, NEW e \in Nat, NEW body \in Payload
  PROVE  /\ Sealed(n, e, body) \in Datagram
         /\ Sealed(n, e, body).to = Peer(n)
         /\ Sealed(n, e, body).body = body
         /\ Resolvable(ring[n], e) => Sealed(n, e, body).epoch = e
         /\ \E i \in DOMAIN ring[n] : Sealed(n, e, body).epoch = ring[n][i].epoch
<1>1. /\ SealingEntry(ring[n], e) \in Entry
      /\ Resolvable(ring[n], e) => SealingEntry(ring[n], e).epoch = e
      /\ \E i \in DOMAIN ring[n] : SealingEntry(ring[n], e).epoch = ring[n][i].epoch
  BY NodeTypes, SealingEntryFacts
<1>2. Peer(n) \in Node
  BY DEF Peer, Node
<1> QED
  BY <1>1, <1>2 DEF Sealed, Datagram, Entry

(* The client stages and activates at once. *)
LEMMA StagedActivatedFacts ==
  ASSUME NEW s, SmOK(s), NEW e \in Nat, NEW key \in Key
  PROVE  LET t == Activated(RecordStaged(s, e, key), e)
         IN  /\ SmOK(t)
             /\ t.phase # "staged"
             /\ t.current.epoch = e /\ t.current.key = key
             /\ t.maxObserved = s.maxObserved
<1> DEFINE r == RecordStaged(s, e, key)
           a == RecordActivated(r)
<1>1. SmOK(r) /\ r.phase = "staged" /\ r.staged.epoch = e /\ r.staged.key = key
      /\ r.maxObserved = s.maxObserved
  BY StagedFacts
<1> HIDE DEF r
<1>2. /\ a \in StateMachine
      /\ a.current = r.staged /\ a.phase = "retiring"
      /\ a.maxObserved = r.maxObserved
  BY <1>1 DEF SmOK, RecordActivated, StateMachine, Phase
<1> HIDE DEF a
<1>3. Activated(r, e) = RetirePrevious(a, TRUE)
  BY <1>1 DEF Activated, CanActivate, a
<1>4. /\ Activated(r, e) \in StateMachine
      /\ Activated(r, e).phase \in {"idle", "retiring"}
      /\ Activated(r, e).current = a.current
      /\ Activated(r, e).maxObserved = a.maxObserved
  BY <1>2, <1>3 DEF RetirePrevious, StateMachine, Phase
<1> QED
  BY <1>1, <1>2, <1>4 DEF SmOK, r

(* The transaction keeps its type in every operation on it. *)
LEMMA TxTypes ==
  ASSUME NEW t \in Transaction \cup {None}, NEW e \in Nat
  PROVE  LET u == TxActivated(TxObserved(t, e), e)
         IN  /\ u \in Transaction \cup {None}
             /\ t = None => u = None
             /\ t # None => /\ u # None
                            /\ u.request = t.request /\ u.response = t.response
                            /\ u.carrier = t.carrier /\ u.epoch = t.epoch
                            /\ u.sendActivated = (t.sendActivated \/ t.epoch = e)
                            /\ u.peerObserved = (t.peerObserved \/ t.epoch = e)
<1>1. CASE t # None /\ t.epoch = e
  <2> DEFINE o == [t EXCEPT !.peerObserved = TRUE]
  <2>1. /\ o \in Transaction /\ o.epoch = e /\ o.peerObserved
        /\ o.request = t.request /\ o.response = t.response
        /\ o.carrier = t.carrier /\ o.sendActivated = t.sendActivated
    BY <1>1 DEF Transaction
  <2>2. o # None
    BY <2>1, NoneAssumption
  <2> HIDE DEF o
  <2> DEFINE u == [o EXCEPT !.sendActivated = TRUE]
  <2>3. /\ u \in Transaction /\ u.epoch = e /\ u.peerObserved = TRUE /\ u.sendActivated = TRUE
        /\ u.request = o.request /\ u.response = o.response
        /\ u.carrier = o.carrier
    BY <2>1 DEF Transaction
  <2>4. u # None
    BY <2>3, NoneAssumption
  <2>5. TxActivated(TxObserved(t, e), e) = u
    BY <1>1, <2>1, <2>2 DEF TxActivated, TxObserved, o
  <2> HIDE DEF u
  <2> QED
    BY <1>1, <2>1, <2>3, <2>4, <2>5
<1>2. CASE ~(t # None /\ t.epoch = e)
  BY <1>2 DEF TxActivated, TxObserved, Transaction
<1> QED
  BY <1>1, <1>2

(* The types hold when the session begins. *)
LEMMA InitTypes == Init => TypeInv
<1> SUFFICES ASSUME Init PROVE TypeInv
  OBVIOUS
<1>1. InitialKey \in Key
  BY DEF InitialKey, Key
<1>2. NewStateMachine \in StateMachine /\ NewStateMachine.phase = "idle"
  BY <1>1 DEF NewStateMachine, StateMachine, Phase
<1>3. << [epoch |-> 0, key |-> InitialKey] >> \in Seq(Entry)
  BY <1>1 DEF Entry
<1>4. TunIdle \in TunState
  BY PayloadTypes DEF TunIdle, TunState
<1> QED
  BY <1>2, <1>3, <1>4 DEF Init, TypeInv, TypeOK, StagedKeyPresent, RingNonEmpty

(* A send epoch is a number. *)
LEMMA PromotedType ==
  ASSUME TypeInv, NEW n \in Node, NEW e \in Nat
  PROVE  PromotedTo(n, e) \in Nat
BY NodeTypes DEF PromotedTo

(* A function stays of its type when one value changes. *)
LEMMA UpdateType ==
  ASSUME NEW S, NEW T, NEW f \in [S -> T], NEW g,
         g = f \/ \E x \in S, y \in T : g = [f EXCEPT ![x] = y]
  PROVE  g \in [S -> T]
OBVIOUS

(* What a step must provide for the types to survive it. *)
LEMMA TypeFrame ==
  ASSUME TypeInv,
         \/ sm' = sm
         \/ \E n \in Node : \E s : SmOK(s) /\ sm' = [sm EXCEPT ![n] = s],
         \/ ring' = ring
         \/ \E n \in Node, r \in Seq(Entry) : r # << >> /\ ring' = [ring EXCEPT ![n] = r],
         \/ sendEpoch' = sendEpoch
         \/ \E n \in Node, e \in Nat : sendEpoch' = [sendEpoch EXCEPT ![n] = e],
         \/ epochCounter' = epochCounter
         \/ \E n \in Node, e \in Nat : epochCounter' = [epochCounter EXCEPT ![n] = e],
         pending' \in Pending \cup {None},
         tx' \in Transaction \cup {None},
         \/ freshEph' = freshEph
         \/ \E n \in Node, e \in Nat : freshEph' = [freshEph EXCEPT ![n] = e],
         \/ tun' = tun
         \/ \E n \in Node, t \in TunState : tun' = [tun EXCEPT ![n] = t],
         reply' \in Payload \cup {None},
         up' \in BOOLEAN,
         net' \subseteq Datagram
  PROVE  TypeInv'
<1>1. /\ sm' \in [Node -> StateMachine]
      /\ \A n \in Node : sm'[n].phase = "staged" => sm'[n].staged.key \in Key
  <2>1. CASE sm' = sm
    BY <2>1 DEF TypeInv, TypeOK, StagedKeyPresent
  <2>2. CASE \E n \in Node : \E s : SmOK(s) /\ sm' = [sm EXCEPT ![n] = s]
    <3>0. PICK n \in Node : \E s : SmOK(s) /\ sm' = [sm EXCEPT ![n] = s]
      BY <2>2
    <3>1. PICK s : SmOK(s) /\ sm' = [sm EXCEPT ![n] = s]
      BY <3>0
    <3>2. sm' \in [Node -> StateMachine]
      BY <3>1 DEF TypeInv, TypeOK, SmOK
    <3>3. \A k \in Node : sm'[k] = IF k = n THEN s ELSE sm[k]
      BY <3>1 DEF TypeInv, TypeOK
    <3> QED
      BY <3>1, <3>2, <3>3 DEF TypeInv, StagedKeyPresent, SmOK
  <2> QED
    BY <2>1, <2>2
<1>2. /\ ring' \in [Node -> Seq(Entry)]
      /\ \A n \in Node : ring'[n] # << >>
  <2>1. CASE ring' = ring
    BY <2>1 DEF TypeInv, TypeOK, RingNonEmpty
  <2>2. CASE \E n \in Node, r \in Seq(Entry) : r # << >> /\ ring' = [ring EXCEPT ![n] = r]
    BY <2>2 DEF TypeInv, TypeOK, RingNonEmpty
  <2> QED
    BY <2>1, <2>2
<1>3. sendEpoch' \in [Node -> Nat]
  BY UpdateType DEF TypeInv, TypeOK
<1>4. epochCounter' \in [Node -> Nat]
  BY UpdateType DEF TypeInv, TypeOK
<1>5. freshEph' \in [Node -> Nat]
  BY UpdateType DEF TypeInv, TypeOK
<1>6. tun' \in [Node -> TunState]
  BY UpdateType DEF TypeInv, TypeOK
<1> QED
  BY <1>1, <1>2, <1>3, <1>4, <1>5, <1>6 DEF TypeInv, TypeOK, StagedKeyPresent, RingNonEmpty

(* Observing an epoch keeps the type of the control plane. *)
LEMMA SeenType ==
  ASSUME TypeInv, NEW n \in Node, NEW m \in net
  PROVE  /\ m \in Datagram /\ m.epoch \in Nat /\ m.body \in Payload
         /\ m.body.eph \in Nat /\ m.body.pub \in Nat
         /\ SmOK(ObservedActivated(sm[n], m.epoch))
         /\ ObservedActivated(sm[n], m.epoch).current.key \in Key
<1>1. m \in Datagram /\ m.epoch \in Nat /\ m.body \in Payload
      /\ m.body.eph \in Nat /\ m.body.pub \in Nat
  BY DEF TypeInv, TypeOK, Datagram, Payload
<1>2. SmOK(ObservedActivated(sm[n], m.epoch))
  BY <1>1, NodeTypes, ObservedActivatedFacts
<1> QED
  BY <1>1, <1>2 DEF SmOK, StateMachine

(* Observing an epoch keeps the type of the transaction. *)
LEMMA SeenTxType ==
  ASSUME TypeInv, NEW m \in net
  PROVE  SeenTx(m) \in Transaction \cup {None}
BY SeenType, TxTypes DEF SeenTx, TypeInv, TypeOK, Node

(* Every step keeps the types. *)
LEMMA TypeStep == TypeInv /\ [Next]_vars => TypeInv'
<1> SUFFICES ASSUME TypeInv, [Next]_vars PROVE TypeInv'
  OBVIOUS
<1>0. /\ pending \in Pending \cup {None} /\ tx \in Transaction \cup {None}
      /\ reply \in Payload \cup {None} /\ up \in BOOLEAN /\ net \subseteq Datagram
  BY DEF TypeInv, TypeOK
<1>n. "client" \in Node /\ "server" \in Node
  BY DEF Node
<1> USE <1>0, <1>n
<1>1. ASSUME NEW n \in Node, TunRead(n) PROVE TypeInv'
  <2>1. [pc |-> "sealing", epoch |-> sendEpoch[n], body |-> Plain("data")] \in TunState
    BY NodeTypes, PayloadTypes DEF TunState
  <2> QED
    BY TypeFrame, <1>1, <2>1 DEF TunRead, control, exchange
<1>2. ASSUME NEW n \in Node, TunSeal(n) PROVE TypeInv'
  <2>1. tun[n].epoch \in Nat /\ tun[n].body \in Payload /\ TunIdle \in TunState
    BY NodeTypes, PayloadTypes DEF TunState, TunIdle
  <2>2. net' \subseteq Datagram
    BY <1>2, <2>1, SealedType DEF TunSeal
  <2> QED
    BY TypeFrame, <1>2, <2>1, <2>2 DEF TunSeal, control, exchange
<1>3. ASSUME BuildRekeyInit PROVE TypeInv'
  <2> DEFINE p == PendingForInit(pending, sm["client"], freshEph["client"])
  <2>1. p \in Pending
    <3>1. InitialKey \in Key
      BY DEF InitialKey, Key
    <3> QED
      BY <3>1, NodeTypes DEF PendingForInit, Pending, Prologue, SmOK, StateMachine
  <2>2. [pc |-> "built", epoch |-> 0, body |-> RekeyInit(p.eph, p.base)] \in TunState
    BY <2>1, PayloadTypes DEF Pending, TunState
  <2> HIDE DEF p
  <2>3. pending' \in Pending \cup {None}
    BY <1>3, <2>1 DEF BuildRekeyInit, p
  <2>4. \E t \in TunState : tun' = [tun EXCEPT !["client"] = t]
    BY <1>3, <2>2 DEF BuildRekeyInit, p
  <2>5. freshEph' = freshEph \/ \E n \in Node, e \in Nat : freshEph' = [freshEph EXCEPT ![n] = e]
    <3>1. freshEph["client"] \in Nat /\ freshEph["client"] + 1 \in Nat
      BY NodeTypes
    <3>2. freshEph' = [freshEph EXCEPT !["client"] =
             IF pending = None THEN freshEph["client"] + 1 ELSE freshEph["client"]]
      BY <1>3 DEF BuildRekeyInit
    <3> QED
      BY <3>1, <3>2
  <2> QED
    BY TypeFrame, <1>3, <2>3, <2>4, <2>5 DEF BuildRekeyInit, control
<1>4. ASSUME SendRekeyInit PROVE TypeInv'
  <2>1. [tun["client"] EXCEPT !.pc = "sealing", !.epoch = sendEpoch["client"]] \in TunState
    BY NodeTypes DEF TunState
  <2>2. tun' = [tun EXCEPT !["client"] = [tun["client"] EXCEPT !.pc = "sealing", !.epoch = sendEpoch["client"]]]
    BY <1>4 DEF SendRekeyInit, TypeInv, TypeOK
  <2>3. \E t \in TunState : tun' = [tun EXCEPT !["client"] = t]
    BY <2>1, <2>2
  <2> QED
    BY TypeFrame, <1>4, <2>3 DEF SendRekeyInit, control, exchange
<1>5. ASSUME SendPing PROVE TypeInv'
  <2>1. net' \subseteq Datagram
    BY <1>5, NodeTypes, SealedType, PayloadTypes DEF SendPing
  <2> QED
    BY TypeFrame, <1>5, <2>1 DEF SendPing, control, exchange
<1>6. ASSUME SendReply PROVE TypeInv'
  <2>1. net' \subseteq Datagram
    BY <1>6, NodeTypes, SealedType DEF SendReply
  <2> QED
    BY TypeFrame, <1>6, <2>1 DEF SendReply, control, exchange
<1>7. ASSUME NEW m \in net, ClientReceive(m) \/ ClientReceiveExhausted(m) PROVE TypeInv'
  <2>1. \E n \in Node : \E s : SmOK(s) /\ sm' = [sm EXCEPT ![n] = s]
    BY <1>7, SeenType DEF ClientReceive, ClientReceiveExhausted
  <2>2. \E n \in Node, e \in Nat : sendEpoch' = [sendEpoch EXCEPT ![n] = e]
    BY <1>7, SeenType, PromotedType DEF ClientReceive, ClientReceiveExhausted
  <2> QED
    BY TypeFrame, <1>7, <2>1, <2>2 DEF ClientReceive, ClientReceiveExhausted, exchange
<1>8. ASSUME NEW m \in net, ClientHandleAck(m) PROVE TypeInv'
  <2> DEFINE seen == ObservedActivated(sm["client"], m.epoch)
             epoch == epochCounter["client"] + 1
             key == Derive(seen.current.key, pending.eph, m.body.pub)
  <2>1. pending \in Pending /\ pending.eph \in Nat
    BY <1>8 DEF ClientHandleAck, AckConsidered, Pending
  <2>2. SmOK(seen) /\ epoch \in Nat /\ key \in Key
    BY <2>1, SeenType, NodeTypes, DeriveType
  <2>3. CASE AckInstalls(m)
    <3>1. SmOK(Activated(RecordStaged(seen, epoch, key), epoch))
      BY <2>2, StagedActivatedFacts
    <3>2. \E n \in Node : \E s : SmOK(s) /\ sm' = [sm EXCEPT ![n] = s]
      BY <1>8, <2>3, <3>1 DEF ClientHandleAck
    <3>3. \E n \in Node, r \in Seq(Entry) : r # << >> /\ ring' = [ring EXCEPT ![n] = r]
      <4>1. Insert(ring["client"], epoch, key) \in Seq(Entry) /\ Insert(ring["client"], epoch, key) # << >>
        BY <2>2, NodeTypes, InsertType
      <4> QED
        BY <1>8, <2>3, <4>1 DEF ClientHandleAck
    <3>4. /\ \E n \in Node, e \in Nat : sendEpoch' = [sendEpoch EXCEPT ![n] = e]
          /\ \E n \in Node, e \in Nat : epochCounter' = [epochCounter EXCEPT ![n] = e]
      BY <1>8, <2>2, <2>3 DEF ClientHandleAck
    <3> QED
      BY TypeFrame, <1>8, <2>3, <3>2, <3>3, <3>4 DEF ClientHandleAck
  <2>4. CASE ~AckInstalls(m)
    <3>1. \E n \in Node : \E s : SmOK(s) /\ sm' = [sm EXCEPT ![n] = s]
      BY <1>8, <2>2, <2>4 DEF ClientHandleAck
    <3>2. \E n \in Node, e \in Nat : sendEpoch' = [sendEpoch EXCEPT ![n] = e]
      BY <1>8, <2>4, SeenType, PromotedType DEF ClientHandleAck
    <3>3. up' \in BOOLEAN /\ pending' \in Pending \cup {None}
      BY <1>8, <2>1, <2>4 DEF ClientHandleAck
    <3> QED
      BY TypeFrame, <1>8, <2>4, <3>1, <3>2, <3>3 DEF ClientHandleAck
  <2> QED
    BY <2>3, <2>4
<1>9. ASSUME NEW m \in net, ServerAuthenticates(m)
      PROVE  /\ \E n \in Node, e \in Nat : sendEpoch' = [sendEpoch EXCEPT ![n] = e]
             /\ SmOK(SeenSm(m)) /\ SeenSm(m).current.key \in Key
             /\ SeenTx(m) \in Transaction \cup {None}
             /\ m.body \in Payload /\ m.body.eph \in Nat /\ m.epoch \in Nat
  BY <1>9, SeenType, SeenTxType, PromotedType DEF ServerAuthenticates, SeenSm
<1>10. ASSUME NEW m \in net, ServerReceive(m) PROVE TypeInv'
  <2>1. ServerAuthenticates(m)
    BY <1>10 DEF ServerReceive
  <2>2. \E n \in Node : \E s : SmOK(s) /\ sm' = [sm EXCEPT ![n] = s]
    BY <1>9, <1>10, <2>1 DEF ServerReceive
  <2>3. reply' \in Payload \cup {None}
    BY <1>10, PayloadTypes DEF ServerReceive
  <2> QED
    BY TypeFrame, <1>9, <1>10, <2>1, <2>2, <2>3 DEF ServerReceive
<1>11. ASSUME NEW m \in net, ServerResendAck(m) PROVE TypeInv'
  <2>1. ServerAuthenticates(m)
    BY <1>11 DEF ServerResendAck
  <2>2. \E n \in Node : \E s : SmOK(s) /\ sm' = [sm EXCEPT ![n] = s]
    BY <1>9, <1>11, <2>1 DEF ServerResendAck
  <2>3. reply' \in Payload \cup {None}
    BY <1>9, <1>11, <2>1 DEF ServerResendAck, MayResend, SameRequest, Transaction
  <2> QED
    BY TypeFrame, <1>9, <1>11, <2>1, <2>2, <2>3 DEF ServerResendAck
<1>12. ASSUME NEW m \in net, ServerStartRekey(m) PROVE TypeInv'
  <2> DEFINE epoch == epochCounter["server"] + 1
             pub == freshEph["server"]
             key == Derive(SeenSm(m).current.key, m.body.eph, pub)
             ack == RekeyAck(m.body.eph, pub)
  <2>1. ServerAuthenticates(m)
    BY <1>12 DEF ServerStartRekey
  <2>2. epoch \in Nat /\ pub \in Nat /\ pub + 1 \in Nat /\ key \in Key /\ ack \in Payload
    <3>1. epoch \in Nat /\ pub \in Nat /\ pub + 1 \in Nat
      BY NodeTypes
    <3>2. m.body.eph \in Nat /\ SeenSm(m).current.key \in Key
      BY <1>9, <2>1
    <3>3. key \in Key
      BY <3>1, <3>2, DeriveType
    <3>4. ack \in Payload
      BY <3>1, <3>2, PayloadTypes
    <3> QED
      BY <3>1, <3>3, <3>4
  <2>3. \E n \in Node : \E s : SmOK(s) /\ sm' = [sm EXCEPT ![n] = s]
    <3>1. SmOK(RecordStaged(SeenSm(m), epoch, key))
      BY <1>9, <2>1, <2>2, StagedFacts
    <3> QED
      BY TypeFrame, <1>12, <3>1 DEF ServerStartRekey
  <2>4. \E n \in Node, r \in Seq(Entry) : r # << >> /\ ring' = [ring EXCEPT ![n] = r]
    <3>1. Insert(ring["server"], epoch, key) \in Seq(Entry) /\ Insert(ring["server"], epoch, key) # << >>
      BY <2>2, NodeTypes, InsertType
    <3> QED
      BY TypeFrame, <1>12, <3>1 DEF ServerStartRekey
  <2>5. NewTransaction(m.body, ack, m.epoch, epoch) \in Transaction
    BY <1>9, <2>1, <2>2 DEF NewTransaction, Transaction
  <2>6. /\ \E n \in Node, e \in Nat : epochCounter' = [epochCounter EXCEPT ![n] = e]
        /\ \E n \in Node, e \in Nat : freshEph' = [freshEph EXCEPT ![n] = e]
    BY <1>12, <2>2 DEF ServerStartRekey
  <2>7. tx' \in Transaction \cup {None} /\ reply' \in Payload \cup {None}
    BY <1>12, <2>2, <2>5 DEF ServerStartRekey
  <2> QED
    BY TypeFrame, <1>9, <1>12, <2>1, <2>3, <2>4, <2>6, <2>7 DEF ServerStartRekey
<1>13. ASSUME NEW m \in net, ServerDeclineInit(m) PROVE TypeInv'
  <2>1. ServerAuthenticates(m)
    BY <1>13 DEF ServerDeclineInit
  <2>2. \E n \in Node : \E s : SmOK(s) /\ sm' = [sm EXCEPT ![n] = s]
    BY <1>9, <1>13, <2>1 DEF ServerDeclineInit
  <2>3. reply' \in Payload \cup {None} /\ tx' \in Transaction \cup {None}
    BY <1>9, <1>13, <2>1, PayloadTypes DEF ServerDeclineInit
  <2> QED
    BY TypeFrame, <1>9, <1>13, <2>1, <2>2, <2>3 DEF ServerDeclineInit
<1>14. CASE UNCHANGED vars
  BY TypeFrame, <1>14 DEF vars, control, exchange
<1> QED
  BY <1>1, <1>2, <1>3, <1>4, <1>5, <1>6, <1>7, <1>8, <1>10, <1>11, <1>12, <1>13, <1>14
     DEF Next, Deliver

(* Every variable of a UDP session keeps its type, a staged epoch has its  *)
(* keys, and the ring is never empty, for every epoch limit and capacity.  *)
THEOREM TypesHold == Spec => []TypeInv
<1> QED
  BY InitTypes, TypeStep, PTL DEF Spec

-----------------------------------------------------------------------------
(* Epochs. *)

(* The numbering of one end, spelled out. *)
LEMMA NodeNumbers ==
  ASSUME TypeInv, EpochInv, NEW n \in Node
  PROVE  /\ Increasing(ring[n])
         /\ ring[n][Len(ring[n])].epoch = epochCounter[n]
         /\ \A i \in DOMAIN ring[n] : ring[n][i].epoch <= epochCounter[n]
         /\ Resolvable(ring[n], epochCounter[n])
         /\ Resolvable(ring[n], sendEpoch[n])
         /\ Resolvable(ring[Peer(n)], sendEpoch[n])
         /\ sendEpoch[n] = sm[n].current.epoch
         /\ sm[n].phase # "staged" => epochCounter[n] = sendEpoch[n]
         /\ sm[n].phase = "staged" => /\ sm[n].staged.epoch = epochCounter[n]
                                      /\ epochCounter[n] = sendEpoch[n] + 1
<1>1. /\ Increasing(ring[n])
      /\ ring[n][Len(ring[n])].epoch = epochCounter[n]
      /\ sendEpoch[n] = sm[n].current.epoch
      /\ sm[n].phase # "staged" => epochCounter[n] = sendEpoch[n]
      /\ sm[n].phase = "staged" => /\ sm[n].staged.epoch = epochCounter[n]
                                   /\ epochCounter[n] = sendEpoch[n] + 1
  BY DEF EpochInv, Numbering
<1>2. Resolvable(ring[n], sendEpoch[n]) /\ Resolvable(ring[Peer(n)], sendEpoch[n])
  BY DEF EpochInv, InStep, SendEpochOpensAtPeer
<1>3. ring[n] \in Seq(Entry) /\ ring[n] # << >> /\ Len(ring[n]) \in DOMAIN ring[n]
      /\ DOMAIN ring[n] = 1 .. Len(ring[n])
  BY NodeTypes
<1>4. Resolvable(ring[n], epochCounter[n])
  BY <1>1, <1>3 DEF Resolvable
<1>5. \A i \in DOMAIN ring[n] : ring[n][i].epoch <= epochCounter[n]
  <2> TAKE i \in DOMAIN ring[n]
  <2> DEFINE r == ring[n]
  <2>0. \A k \in DOMAIN r : r[k] \in Entry
    BY <1>3
  <2>1. r[i].epoch \in Nat /\ r[Len(r)].epoch \in Nat
    BY <1>3, <2>0 DEF Entry
  <2>2. CASE i = Len(ring[n])
    BY <1>1, <2>1, <2>2
  <2>3. CASE i < Len(ring[n])
    BY <1>1, <1>3, <2>1, <2>3 DEF Increasing
  <2> QED
    BY <1>3, <2>2, <2>3
<1> QED
  BY <1>1, <1>2, <1>4, <1>5

(* What the client's control plane makes of an authenticated epoch: it has *)
(* nothing staged, so only the phase may change.                           *)
LEMMA ClientSees ==
  ASSUME TypeInv, EpochInv, NEW e \in Nat
  PROVE  LET t == ObservedActivated(sm["client"], e)
         IN  /\ SmOK(t)
             /\ t.current = sm["client"].current
             /\ t.phase # "staged"
             /\ sm["client"].phase = "idle" => t.phase = "idle"
             /\ PromotedTo("client", e) = sendEpoch["client"]
<1>1. SmOK(sm["client"]) /\ sm["client"].phase # "staged"
  BY NodeTypes DEF EpochInv, Roles, Node
<1> QED
  BY <1>1, ObservedActivatedFacts DEF PromotedTo

(* What the server's control plane makes of one. *)
LEMMA ServerObserves ==
  ASSUME TypeInv, EpochInv, NEW m \in net, m.to = "server"
  PROVE  LET s == SeenSm(m)
             e == PromotedTo("server", m.epoch)
         IN  /\ SmOK(s) /\ e \in Nat
             /\ s.phase \in {"idle", "staged"}
             /\ s.current.epoch = e
             /\ s.maxObserved <= sendEpoch["client"]
             /\ s.phase = "staged" => /\ s.staged.epoch = epochCounter["server"]
                                      /\ epochCounter["server"] = e + 1
             /\ s.phase = "idle" => /\ e <= s.maxObserved
                                    /\ epochCounter["server"] = e
                                    /\ epochCounter["client"] = e
                                    /\ sendEpoch["client"] = e
             /\ e \in {sendEpoch["server"], sendEpoch["server"] + 1}
             /\ e <= sendEpoch["client"]
             /\ Resolvable(ring["server"], e) /\ Resolvable(ring["client"], e)
<1> DEFINE s == sm["server"]
           e == PromotedTo("server", m.epoch)
<1>1. "server" \in Node /\ "client" \in Node /\ Peer("server") = "client"
  BY DEF Node, Peer
<1>2. m \in Datagram /\ m.epoch \in Nat /\ m.to = "server" /\ SmOK(s)
  BY <1>1, SeenType, NodeTypes
<1>3. /\ sendEpoch["server"] \in Nat /\ sendEpoch["client"] \in Nat
      /\ epochCounter["server"] \in Nat /\ epochCounter["client"] \in Nat
      /\ s.maxObserved \in Nat /\ s.current.epoch \in Nat
  BY <1>1, NodeTypes DEF SmOK, StateMachine
<1>4. /\ m.epoch <= sendEpoch["client"]
      /\ s.maxObserved <= sendEpoch["client"]
      /\ s.phase # "retiring"
      /\ s.phase = "idle" => sendEpoch["server"] <= s.maxObserved
      /\ sm["client"].phase # "staged"
      /\ epochCounter["client"] <= epochCounter["server"]
      /\ epochCounter["server"] <= epochCounter["client"] + 1
      /\ sendEpoch["server"] <= sendEpoch["client"]
  BY <1>2 DEF EpochInv, Awareness, Roles, InStep, EpochLockStep
<1>5. epochCounter["client"] = sendEpoch["client"]
  BY <1>1, <1>4, NodeNumbers
<1>6. /\ s.current.epoch = sendEpoch["server"]
      /\ s.phase # "staged" => epochCounter["server"] = sendEpoch["server"]
      /\ s.phase = "staged" => /\ s.staged.epoch = epochCounter["server"]
                               /\ epochCounter["server"] = sendEpoch["server"] + 1
      /\ Resolvable(ring["server"], epochCounter["server"])
      /\ Resolvable(ring["server"], sendEpoch["server"])
      /\ Resolvable(ring["client"], sendEpoch["server"])
      /\ Resolvable(ring["client"], epochCounter["client"])
  BY <1>1, NodeNumbers
<1>8. s.phase \in Phase
  BY <1>2 DEF SmOK, StateMachine
<1> DEFINE t == ObservedActivated(s, m.epoch)
<1>9. /\ SmOK(t)
      /\ t.maxObserved = Larger(m.epoch, s.maxObserved)
      /\ CanActivate(Observed(s, m.epoch), m.epoch) <=> s.phase = "staged" /\ m.epoch = s.staged.epoch
      /\ s.phase = "staged" /\ m.epoch = s.staged.epoch
           => t.current = s.staged /\ t.phase = "idle"
      /\ ~(s.phase = "staged" /\ m.epoch = s.staged.epoch)
           => /\ t.current = s.current /\ t.staged = s.staged
              /\ t.phase = IF s.phase = "retiring" /\ Larger(m.epoch, s.maxObserved) >= s.current.epoch
                             THEN "idle" ELSE s.phase
  BY <1>2, ObservedActivatedFacts
<1>10. t = SeenSm(m)
  BY DEF SeenSm
<1>11. e = IF s.phase = "staged" /\ m.epoch = s.staged.epoch THEN m.epoch ELSE sendEpoch["server"]
  BY <1>9 DEF PromotedTo
<1> HIDE DEF s, e, t
<1>12. CASE s.phase = "staged" /\ m.epoch = s.staged.epoch
  <2>1. e = m.epoch /\ e = epochCounter["server"] /\ t.current = s.staged /\ t.phase = "idle"
    BY <1>6, <1>9, <1>11, <1>12
  <2>2. epochCounter["client"] = e /\ sendEpoch["client"] = e
    BY <1>3, <1>4, <1>5, <2>1
  <2> QED
    BY <1>2, <1>3, <1>4, <1>6, <1>9, <1>10, <1>12, <2>1, <2>2 DEF Larger, e
<1>13. CASE ~(s.phase = "staged" /\ m.epoch = s.staged.epoch)
  <2>1. e = sendEpoch["server"] /\ t.current = s.current /\ t.staged = s.staged /\ t.phase = s.phase
    BY <1>4, <1>9, <1>11, <1>13
  <2>2. t.maxObserved <= sendEpoch["client"] /\ s.maxObserved <= t.maxObserved
    BY <1>2, <1>3, <1>4, <1>9 DEF Larger
  <2>3. s.phase = "idle" \/ s.phase = "staged"
    BY <1>4, <1>8 DEF Phase
  <2>4. t.maxObserved \in Nat
    BY <1>9 DEF SmOK, StateMachine
  <2>5. s.phase = "idle" => /\ sendEpoch["client"] = e /\ epochCounter["client"] = e
                            /\ epochCounter["server"] = e /\ e <= t.maxObserved
    BY <1>3, <1>4, <1>5, <1>6, <2>1, <2>2, <2>4
  <2> QED
    BY <1>3, <1>4, <1>6, <1>9, <1>10, <2>1, <2>2, <2>3, <2>5 DEF e
<1> QED
  BY <1>12, <1>13

(* The server's receiving thread authenticates a datagram. *)
LEMMA ServerSees ==
  ASSUME TypeInv, EpochInv, NEW m \in net, ServerAuthenticates(m)
  PROVE  LET s == SeenSm(m)
             e == PromotedTo("server", m.epoch)
         IN  /\ SmOK(s) /\ e \in Nat
             /\ sendEpoch' = [sendEpoch EXCEPT !["server"] = e]
             /\ s.phase \in {"idle", "staged"}
             /\ s.current.epoch = e
             /\ s.maxObserved <= sendEpoch["client"]
             /\ s.phase = "staged" => /\ s.staged.epoch = epochCounter["server"]
                                      /\ epochCounter["server"] = e + 1
             /\ s.phase = "idle" => /\ e <= s.maxObserved
                                    /\ epochCounter["server"] = e
                                    /\ epochCounter["client"] = e
                                    /\ sendEpoch["client"] = e
             /\ e \in {sendEpoch["server"], sendEpoch["server"] + 1}
             /\ e <= sendEpoch["client"]
             /\ Resolvable(ring["server"], e) /\ Resolvable(ring["client"], e)
<1>1. m.to = "server" /\ sendEpoch' = [sendEpoch EXCEPT !["server"] = PromotedTo("server", m.epoch)]
  BY DEF ServerAuthenticates, Opens
<1> QED
  BY <1>1, ServerObserves

(* The transaction after an authenticated epoch: closed exactly when the
   control plane is idle. *)
LEMMA ServerSeesTx ==
  ASSUME TypeInv, EpochInv, NEW m \in net
  PROVE  /\ SeenTx(m) = None => epochCounter["server"] = 0
         /\ SeenTx(m) # None => /\ SeenTx(m).epoch = epochCounter["server"]
                                /\ SeenTx(m).response.kind = "ack"
                                /\ SeenTx(m).sendActivated <=> SeenSm(m).phase = "idle"
                                /\ SeenTx(m).peerObserved <=> SeenSm(m).phase = "idle"
<1>1. "server" \in Node /\ m.epoch \in Nat /\ SmOK(sm["server"])
  BY SeenType, NodeTypes DEF Node
<1>2. tx \in Transaction \cup {None}
  BY DEF TypeInv, TypeOK
<1>3. CASE tx = None
  BY <1>1, <1>2, <1>3, TxTypes DEF SeenTx, EpochInv, TransactionOpen
<1>4. CASE tx # None
  <2>1. /\ SeenTx(m) # None
        /\ SeenTx(m).response = tx.response /\ SeenTx(m).epoch = tx.epoch
        /\ SeenTx(m).sendActivated = (tx.sendActivated \/ tx.epoch = m.epoch)
        /\ SeenTx(m).peerObserved = (tx.peerObserved \/ tx.epoch = m.epoch)
    BY <1>1, <1>2, <1>4, TxTypes DEF SeenTx
  <2>2. /\ tx.epoch = epochCounter["server"] /\ tx.response.kind = "ack"
        /\ tx.sendActivated <=> sm["server"].phase = "idle"
        /\ tx.peerObserved <=> sm["server"].phase = "idle"
        /\ sm["server"].phase # "retiring"
    BY <1>4 DEF EpochInv, TransactionOpen, Roles
  <2>3. /\ sm["server"].phase = "staged" => sm["server"].staged.epoch = epochCounter["server"]
        /\ sm["server"].phase \in Phase
    BY <1>1, NodeNumbers DEF SmOK, StateMachine
  <2>4. SeenSm(m).phase = "idle" <=>
          sm["server"].phase = "idle" \/ tx.epoch = m.epoch
    BY <1>1, <2>2, <2>3, ObservedActivatedFacts DEF SeenSm, Phase
  <2> QED
    BY <2>1, <2>2, <2>4
<1> QED
  BY <1>3, <1>4

(* The ring after StageEpoch, when it does not refuse. *)
LEMMA StagedRing ==
  ASSUME NEW r \in Seq(Entry), r # << >>, NEW e \in Nat, NEW key \in Key, NEW send \in Nat,
         \A i \in DOMAIN r : r[i].epoch < e,
         Increasing(r),
         Resolvable(r, send),
         ~(Len(r) = Capacity /\ r[1].epoch = send)
  PROVE  /\ Insert(r, e, key)[Len(Insert(r, e, key))].epoch = e
         /\ Resolvable(Insert(r, e, key), e)
         /\ Increasing(Insert(r, e, key))
         /\ Resolvable(Insert(r, e, key), send)
<1>1. LET s == Insert(r, e, key)
      IN  /\ s[Len(s)].epoch = e
          /\ Resolvable(s, e)
          /\ (\A i \in DOMAIN r : r[i].epoch < e) /\ Increasing(r) => Increasing(s)
          /\ \A f \in Nat : /\ Resolvable(r, f)
                            /\ ~(Len(r) = Capacity /\ r[1].epoch = f)
                            => Resolvable(s, f)
  BY InsertFacts
<1> HIDE DEF Insert
<1> QED
  BY <1>1

(* What an unchanged server, and a client whose phase may have moved to    *)
(* idle, leave of the invariant.                                           *)
LEMMA NoEpochMoves ==
  ASSUME TypeInv, TypeInv', EpochInv,
         UNCHANGED <<ring, sendEpoch, epochCounter, tx>>,
         sm'["server"] = sm["server"],
         sm'["client"].current = sm["client"].current,
         sm'["client"].phase # "staged",
         sm["client"].phase = "idle" => sm'["client"].phase = "idle",
         tun'["server"].body.kind = "data",
         tun'["client"].body.kind \in {"data", "init"},
         pending' # None => /\ pending'.carrier = sendEpoch["client"]
                            /\ sm'["client"].phase = "idle",
         \/ net' = net
         \/ \E m \in Datagram : /\ net' = net \cup {m}
                                /\ m.to = "server" => m.epoch <= sendEpoch["client"]
                                /\ m.body.kind = "ack" => m.epoch < epochCounter["server"],
         reply' = reply \/ reply' = None
  PROVE  EpochInv'
<1>1. Numbering'
  <2> SUFFICES ASSUME NEW n \in Node
               PROVE  /\ Increasing(ring[n])
                      /\ ring[n][Len(ring[n])].epoch = epochCounter[n]
                      /\ sendEpoch[n] = sm'[n].current.epoch
                      /\ sm'[n].phase # "staged" => epochCounter[n] = sendEpoch[n]
                      /\ sm'[n].phase = "staged" => /\ sm'[n].staged.epoch = epochCounter[n]
                                                    /\ epochCounter[n] = sendEpoch[n] + 1
    BY DEF Numbering
  <2>1. CASE n = "server"
    BY <2>1, NodeNumbers
  <2>2. CASE n = "client"
    BY <2>2, NodeNumbers DEF EpochInv, Roles
  <2> QED
    BY <2>1, <2>2 DEF Node
<1>2. Roles' /\ TransactionOpen' /\ CarrierStaysCurrent' /\ InStep'
  BY DEF EpochInv, Roles, TransactionOpen, CarrierStaysCurrent, InStep, EpochLockStep,
         SendEpochOpensAtPeer
<1>3. Awareness'
  BY DEF EpochInv, Awareness
<1>4. AckBound'
  BY DEF EpochInv, AckBound
<1> QED
  BY <1>1, <1>2, <1>3, <1>4 DEF EpochInv

(* Only the server's control plane, its send epoch, its transaction and    *)
(* the reply it owes have moved, on a datagram of the client.              *)
LEMMA ServerOnlySees ==
  ASSUME TypeInv, TypeInv', EpochInv, NEW m \in net, ServerAuthenticates(m),
         UNCHANGED <<ring, epochCounter, pending, tun, net>>,
         sm' = [sm EXCEPT !["server"] = SeenSm(m)],
         tx' = SeenTx(m),
         reply' # None /\ reply'.kind = "ack" => SeenSm(m).phase = "staged"
  PROVE  EpochInv'
<1> DEFINE s == SeenSm(m)
           e == PromotedTo("server", m.epoch)
<1>1. /\ SmOK(s) /\ e \in Nat
      /\ sendEpoch' = [sendEpoch EXCEPT !["server"] = e]
      /\ s.phase \in {"idle", "staged"}
      /\ s.current.epoch = e
      /\ s.maxObserved <= sendEpoch["client"]
      /\ s.phase = "staged" => /\ s.staged.epoch = epochCounter["server"]
                               /\ epochCounter["server"] = e + 1
      /\ s.phase = "idle" => e <= s.maxObserved /\ epochCounter["server"] = e
      /\ e <= sendEpoch["client"]
      /\ Resolvable(ring["server"], e) /\ Resolvable(ring["client"], e)
  BY ServerSees
<1>2. /\ sm'["server"] = s /\ sm'["client"] = sm["client"]
      /\ sendEpoch'["server"] = e /\ sendEpoch'["client"] = sendEpoch["client"]
  BY <1>1 DEF TypeInv, TypeOK, Node
<1> HIDE DEF s, e
<1>3. Numbering'
  <2> SUFFICES ASSUME NEW n \in Node
               PROVE  /\ Increasing(ring[n])
                      /\ ring[n][Len(ring[n])].epoch = epochCounter[n]
                      /\ sendEpoch'[n] = sm'[n].current.epoch
                      /\ sm'[n].phase # "staged" => epochCounter[n] = sendEpoch'[n]
                      /\ sm'[n].phase = "staged" => /\ sm'[n].staged.epoch = epochCounter[n]
                                                    /\ epochCounter[n] = sendEpoch'[n] + 1
    BY DEF Numbering
  <2>1. CASE n = "server"
    BY <1>1, <1>2, <2>1, NodeNumbers
  <2>2. CASE n = "client"
    BY <1>2, <2>2, NodeNumbers
  <2> QED
    BY <2>1, <2>2 DEF Node
<1>4. Roles' /\ Awareness' /\ CarrierStaysCurrent'
  BY <1>1, <1>2 DEF EpochInv, Roles, Awareness, CarrierStaysCurrent
<1>5. TransactionOpen'
  BY <1>2, ServerSeesTx DEF TransactionOpen, s
<1>6. AckBound'
  BY <1>2 DEF EpochInv, AckBound, s
<1>7. InStep'
  BY <1>1, <1>2, NodeNumbers DEF EpochInv, InStep, EpochLockStep, SendEpochOpensAtPeer, Node, Peer
<1> QED
  BY <1>3, <1>4, <1>5, <1>6, <1>7 DEF EpochInv

(* A new request: the server stages the next epoch, which is one more than *)
(* the client's because the last one is complete.                          *)
LEMMA StartRekeyKeepsEpochs ==
  ASSUME TypeInv, TypeInv', EpochInv, NEW m \in net, ServerStartRekey(m)
  PROVE  EpochInv'
<1> DEFINE s == SeenSm(m)
           e == PromotedTo("server", m.epoch)
           epoch == epochCounter["server"] + 1
           key == Derive(s.current.key, m.body.eph, freshEph["server"])
           ack == RekeyAck(m.body.eph, freshEph["server"])
           r == ring["server"]
<1>0. ServerAuthenticates(m) /\ "server" \in Node /\ "client" \in Node
  BY DEF ServerStartRekey, Node
<1>1. /\ SmOK(s) /\ e \in Nat
      /\ sendEpoch' = [sendEpoch EXCEPT !["server"] = e]
      /\ s.current.epoch = e
      /\ s.maxObserved <= sendEpoch["client"]
      /\ s.phase = "idle" => /\ e <= s.maxObserved
                             /\ epochCounter["server"] = e
                             /\ epochCounter["client"] = e
                             /\ sendEpoch["client"] = e
      /\ Resolvable(ring["server"], e) /\ Resolvable(ring["client"], e)
  BY <1>0, ServerSees
<1>2. /\ s.phase = "idle"
      /\ ~(Len(r) = Capacity /\ r[1].epoch = e)
  BY DEF ServerStartRekey, MayStart, ReadyForRekey, Stageable, WouldEvict
<1>3. m.body.eph \in Nat /\ freshEph["server"] \in Nat /\ epoch \in Nat /\ s.current.key \in Key
      /\ r \in Seq(Entry) /\ r # << >>
  BY <1>0, SeenType, NodeTypes DEF SeenSm
<1>4. key \in Key
  BY <1>3, DeriveType
<1>5. /\ sm' = [sm EXCEPT !["server"] = RecordStaged(s, epoch, key)]
      /\ ring' = [ring EXCEPT !["server"] = Insert(r, epoch, key)]
      /\ epochCounter' = [epochCounter EXCEPT !["server"] = epoch]
      /\ tx' = NewTransaction(m.body, ack, m.epoch, epoch)
      /\ reply' = ack
      /\ UNCHANGED <<pending, tun, net>>
  BY DEF ServerStartRekey
<1>6. \A i \in DOMAIN r : r[i].epoch < epoch
  <2> TAKE i \in DOMAIN r
  <2>1. r[i].epoch \in Nat
    <3>1. r[i] \in Entry
      BY <1>3
    <3> QED
      BY <3>1 DEF Entry
  <2> QED
    BY <1>0, <1>3, <2>1, NodeNumbers, NodeTypes
<1>r. Increasing(r)
  BY <1>0, NodeNumbers
<1>10. /\ epoch = e + 1 /\ sendEpoch["client"] = e /\ epochCounter["client"] = e
       /\ epochCounter["server"] = e
  BY <1>1, <1>2
<1>9. ack.kind = "ack"
  BY DEF RekeyAck
<1> DEFINE q == Insert(r, epoch, key)
           u == RecordStaged(s, epoch, key)
<1>11. /\ sm'["server"] = u /\ sm'["client"] = sm["client"]
       /\ sendEpoch'["server"] = e /\ sendEpoch'["client"] = e
       /\ ring'["server"] = q /\ ring'["client"] = ring["client"]
       /\ epochCounter'["server"] = epoch /\ epochCounter'["client"] = e
  BY <1>0, <1>1, <1>5, <1>10 DEF TypeInv, TypeOK
<1>v. Resolvable(r, e)
  BY <1>1
<1> HIDE DEF s, e, epoch, key, ack, r
<1>7. /\ q[Len(q)].epoch = epoch /\ Resolvable(q, epoch)
      /\ Increasing(q) /\ Resolvable(q, e)
  <2>1. e \in Nat /\ epoch \in Nat /\ r # << >> /\ r \in Seq(Entry) /\ key \in Key
    BY <1>1, <1>3, <1>4
  <2> QED
    BY <1>2, <1>6, <1>r, <1>v, <2>1, StagedRing
<1>8. /\ u.phase = "staged" /\ u.staged.epoch = epoch /\ u.current.epoch = e
      /\ u.maxObserved = s.maxObserved
  <2>1. epoch \in Nat /\ key \in Key /\ SmOK(s)
    BY <1>1, <1>3, <1>4
  <2>2. RecordStaged(s, epoch, key).phase = "staged"
    BY <2>1, StagedFacts
  <2>3. RecordStaged(s, epoch, key).staged.epoch = epoch
    BY <2>1, StagedFacts
  <2>4. RecordStaged(s, epoch, key).current = s.current
    BY <2>1, StagedFacts
  <2>5. RecordStaged(s, epoch, key).maxObserved = s.maxObserved
    BY <2>1, StagedFacts
  <2>6. SmOK(RecordStaged(s, epoch, key))
    BY <2>1, StagedFacts
  <2> QED
    BY <1>1, <2>2, <2>3, <2>4, <2>5
<1> HIDE DEF q, u
<1>12. Numbering'
  <2> SUFFICES ASSUME NEW n \in Node
               PROVE  /\ Increasing(ring'[n])
                      /\ ring'[n][Len(ring'[n])].epoch = epochCounter'[n]
                      /\ sendEpoch'[n] = sm'[n].current.epoch
                      /\ sm'[n].phase # "staged" => epochCounter'[n] = sendEpoch'[n]
                      /\ sm'[n].phase = "staged" => /\ sm'[n].staged.epoch = epochCounter'[n]
                                                    /\ epochCounter'[n] = sendEpoch'[n] + 1
    BY DEF Numbering
  <2>1. CASE n = "server"
    BY <1>7, <1>8, <1>10, <1>11, <2>1
  <2>2. CASE n = "client"
    BY <1>0, <1>10, <1>11, <2>2, NodeNumbers
  <2> QED
    BY <2>1, <2>2 DEF Node
<1>13. Roles' /\ CarrierStaysCurrent'
  BY <1>5, <1>8, <1>10, <1>11 DEF EpochInv, Roles, CarrierStaysCurrent
<1>14. Awareness'
  BY <1>1, <1>5, <1>8, <1>10, <1>11 DEF EpochInv, Awareness
<1>15. TransactionOpen'
  <2>1. tx' \in Transaction
    BY <1>0, <1>3, <1>5, SeenType, PayloadTypes DEF NewTransaction, Transaction, ack
  <2>2. tx' # None
    BY <2>1, NoneAssumption
  <2> QED
    BY <1>5, <1>8, <1>9, <1>11, <2>2 DEF TransactionOpen, NewTransaction
<1>16. AckBound'
  <2> SUFFICES ASSUME NEW k \in net, k.body.kind = "ack" PROVE k.epoch < epoch
    BY <1>5, <1>8, <1>11 DEF AckBound
  <2>1. k.epoch \in Nat /\ k.epoch < epochCounter["server"]
    BY <1>0, SeenType DEF EpochInv, AckBound
  <2> QED
    BY <1>1, <1>10, <2>1
<1>17. InStep'
  <2>1. Resolvable(ring["client"], e)
    BY <1>1
  <2> QED
    BY <1>1, <1>7, <1>10, <1>11, <2>1 DEF InStep, EpochLockStep, SendEpochOpensAtPeer, Node, Peer
<1> QED
  BY <1>12, <1>13, <1>14, <1>15, <1>16, <1>17 DEF EpochInv

(* An ack that installs: it travelled under the client's epoch, so the     *)
(* server has already counted the next one.                                *)
LEMMA InstallKeepsEpochs ==
  ASSUME TypeInv, TypeInv', EpochInv, NEW m \in net, ClientHandleAck(m), AckInstalls(m)
  PROVE  EpochInv'
<1> DEFINE s == ObservedActivated(sm["client"], m.epoch)
           c == sendEpoch["client"]
           epoch == epochCounter["client"] + 1
           key == Derive(s.current.key, pending.eph, m.body.pub)
           r == ring["client"]
           u == Activated(RecordStaged(s, epoch, key), epoch)
           q == Insert(r, epoch, key)
<1>0. "server" \in Node /\ "client" \in Node
  BY DEF Node
<1>1. /\ SmOK(s) /\ s.phase # "staged" /\ PromotedTo("client", m.epoch) = c
      /\ s.current = sm["client"].current
      /\ m.epoch \in Nat /\ m.body.pub \in Nat /\ c \in Nat /\ epoch \in Nat
      /\ s.current.key \in Key
      /\ r \in Seq(Entry) /\ r # << >>
  BY <1>0, SeenType, NodeTypes, ClientSees
<1>2. /\ pending # None /\ pending.carrier = m.epoch /\ m.body.kind = "ack"
      /\ ~(Len(r) = Capacity /\ r[1].epoch = c)
  BY <1>1 DEF ClientHandleAck, AckConsidered, AckInstalls, Stageable, WouldEvict
<1>3. pending.eph \in Nat
  BY <1>2 DEF TypeInv, TypeOK, Pending
<1>4. key \in Key
  BY <1>1, <1>3, DeriveType
<1>5. /\ sm' = [sm EXCEPT !["client"] = u]
      /\ ring' = [ring EXCEPT !["client"] = q]
      /\ epochCounter' = [epochCounter EXCEPT !["client"] = epoch]
      /\ sendEpoch' = [sendEpoch EXCEPT !["client"] = epoch]
      /\ pending' = None
      /\ UNCHANGED <<tx, tun, reply, net>>
  BY DEF ClientHandleAck
<1>6. /\ epochCounter["client"] = c /\ epoch = c + 1 /\ m.epoch = c
      /\ epochCounter["server"] = c + 1 /\ sm["server"].phase = "staged"
      /\ sendEpoch["server"] = c
  <2>1. /\ sm["client"].phase # "staged" /\ sm["server"].phase # "retiring"
        /\ m.epoch = c
        /\ m.epoch < epochCounter["server"]
        /\ epochCounter["server"] <= epochCounter["client"] + 1
        /\ sm["server"].maxObserved <= c
        /\ sm["server"].phase = "idle" => sendEpoch["server"] <= sm["server"].maxObserved
    BY <1>2 DEF EpochInv, Roles, CarrierStaysCurrent, AckBound, InStep, EpochLockStep, Awareness
  <2>2. /\ sm["server"].phase \in Phase /\ sm["server"].maxObserved \in Nat
        /\ epochCounter["server"] \in Nat /\ epochCounter["client"] \in Nat
        /\ sendEpoch["server"] \in Nat
    BY <1>0, NodeTypes DEF SmOK, StateMachine
  <2>3. epochCounter["client"] = c
    BY <1>0, <2>1, NodeNumbers
  <2>4. epochCounter["server"] = c + 1
    BY <1>1, <2>1, <2>2, <2>3
  <2>5. sm["server"].phase = "staged"
    <3>1. sm["server"].phase = "idle" => epochCounter["server"] = sendEpoch["server"]
      BY <1>0, NodeNumbers
    <3> QED
      BY <1>1, <2>1, <2>2, <2>4, <3>1 DEF Phase
  <2>6. sendEpoch["server"] = c
    BY <1>0, <1>1, <2>2, <2>4, <2>5, NodeNumbers
  <2> QED
    BY <2>1, <2>3, <2>4, <2>5, <2>6
<1>7. \A i \in DOMAIN r : r[i].epoch < epoch
  <2> TAKE i \in DOMAIN r
  <2>1. r[i].epoch \in Nat
    <3>1. r[i] \in Entry
      BY <1>1
    <3> QED
      BY <3>1 DEF Entry
  <2> QED
    BY <1>0, <1>1, <2>1, NodeNumbers, NodeTypes
<1>r. Increasing(r) /\ Resolvable(r, c)
  BY <1>0, NodeNumbers
<1>11. /\ sm'["client"] = u /\ sm'["server"] = sm["server"]
       /\ sendEpoch'["server"] = c /\ sendEpoch'["client"] = epoch
       /\ ring'["client"] = q /\ ring'["server"] = ring["server"]
       /\ epochCounter'["client"] = epoch /\ epochCounter'["server"] = epochCounter["server"]
  BY <1>0, <1>5, <1>6 DEF TypeInv, TypeOK
<1>10. Resolvable(ring["server"], c + 1) /\ Resolvable(ring["server"], c)
  BY <1>0, <1>6, NodeNumbers
<1> HIDE DEF s, c, epoch, key, r
<1>8. /\ q[Len(q)].epoch = epoch /\ Resolvable(q, epoch)
      /\ Increasing(q) /\ Resolvable(q, c)
  <2>1. c \in Nat /\ epoch \in Nat /\ r # << >> /\ r \in Seq(Entry) /\ key \in Key
    BY <1>1, <1>4
  <2> QED
    BY <1>2, <1>7, <1>r, <2>1, StagedRing
<1>9. /\ u.phase # "staged" /\ u.current.epoch = epoch
  <2>1. epoch \in Nat /\ key \in Key /\ SmOK(s)
    BY <1>1, <1>4
  <2> QED
    BY <2>1, StagedActivatedFacts
<1> HIDE DEF q, u
<1>12. Numbering'
  <2> SUFFICES ASSUME NEW n \in Node
               PROVE  /\ Increasing(ring'[n])
                      /\ ring'[n][Len(ring'[n])].epoch = epochCounter'[n]
                      /\ sendEpoch'[n] = sm'[n].current.epoch
                      /\ sm'[n].phase # "staged" => epochCounter'[n] = sendEpoch'[n]
                      /\ sm'[n].phase = "staged" => /\ sm'[n].staged.epoch = epochCounter'[n]
                                                    /\ epochCounter'[n] = sendEpoch'[n] + 1
    BY DEF Numbering
  <2>1. CASE n = "server"
    BY <1>0, <1>6, <1>11, <2>1, NodeNumbers
  <2>2. CASE n = "client"
    BY <1>8, <1>9, <1>11, <2>2
  <2> QED
    BY <2>1, <2>2 DEF Node
<1>13. Roles' /\ CarrierStaysCurrent'
  BY <1>5, <1>9, <1>11 DEF EpochInv, Roles, CarrierStaysCurrent
<1>14. Awareness'
  <2>1. \A k \in net : k.epoch \in Nat
    BY <1>0, SeenType
  <2>2. sm["server"].maxObserved \in Nat
    BY <1>0, NodeTypes DEF SmOK, StateMachine
  <2>3. /\ sm["server"].maxObserved <= c
        /\ \A k \in net : k.to = "server" => k.epoch <= c
    BY DEF EpochInv, Awareness, c
  <2> QED
    BY <1>1, <1>5, <1>6, <1>11, <2>1, <2>2, <2>3 DEF Awareness
<1>15. TransactionOpen' /\ AckBound'
  BY <1>5, <1>11 DEF EpochInv, TransactionOpen, AckBound
<1>16. InStep'
  BY <1>1, <1>6, <1>8, <1>10, <1>11 DEF InStep, EpochLockStep, SendEpochOpensAtPeer, Node, Peer
<1> QED
  BY <1>12, <1>13, <1>14, <1>15, <1>16 DEF EpochInv

(* The epochs are aligned when the session begins. *)
LEMMA InitEpochs == Init => EpochInv
<1> SUFFICES ASSUME Init PROVE EpochInv
  OBVIOUS
<1> DEFINE r == << [epoch |-> 0, key |-> InitialKey] >>
<1>1. Increasing(r) /\ r[Len(r)].epoch = 0 /\ Resolvable(r, 0)
  BY DEF Increasing, Resolvable
<1>2. /\ NewStateMachine.phase = "idle" /\ NewStateMachine.current.epoch = 0
      /\ NewStateMachine.maxObserved = 0
  BY DEF NewStateMachine
<1>3. TunIdle.body.kind = "data"
  BY DEF TunIdle, Plain
<1> HIDE DEF r
<1>4. \A n \in Node : /\ ring[n] = r /\ sm[n] = NewStateMachine
                      /\ sendEpoch[n] = 0 /\ epochCounter[n] = 0 /\ tun[n] = TunIdle
  BY DEF Init, r
<1>5. "client" \in Node /\ "server" \in Node /\ \A n \in Node : Peer(n) \in Node
  BY DEF Node, Peer
<1> QED
  BY <1>1, <1>2, <1>3, <1>4, <1>5
     DEF Init, EpochInv, Numbering, Roles, Awareness, TransactionOpen, AckBound,
         CarrierStaysCurrent, InStep, EpochLockStep, SendEpochOpensAtPeer

(* Every step keeps the epochs aligned. *)
LEMMA EpochStep == TypeInv /\ TypeInv' /\ EpochInv /\ [Next]_vars => EpochInv'
<1> SUFFICES ASSUME TypeInv, TypeInv', EpochInv, [Next]_vars PROVE EpochInv'
  OBVIOUS
<1>n. "client" \in Node /\ "server" \in Node
  BY DEF Node
<1>0. /\ sm["client"].phase # "staged"
      /\ tun["server"].body.kind = "data"
      /\ tun["client"].body.kind \in {"data", "init"}
      /\ pending # None => /\ pending.carrier = sendEpoch["client"]
                           /\ sm["client"].phase = "idle"
  BY DEF EpochInv, Roles, CarrierStaysCurrent
<1>t. /\ tun \in [Node -> TunState]
      /\ sm \in [Node -> StateMachine]
      /\ \A n \in Node : tun[n].epoch \in Nat /\ tun[n].body \in Payload
  BY DEF TypeInv, TypeOK, TunState
<1>d. Plain("data").kind = "data" /\ TunIdle.body.kind = "data"
  BY DEF TunIdle, Plain
<1>1. ASSUME NEW n \in Node, TunRead(n) PROVE EpochInv'
  <2>1. /\ tun'["server"].body.kind = "data"
        /\ tun'["client"].body.kind \in {"data", "init"}
    BY <1>0, <1>1, <1>d, <1>n, <1>t DEF TunRead
  <2> QED
    BY <1>0, <1>1, <2>1, NoEpochMoves DEF TunRead, control, exchange
<1>2. ASSUME NEW n \in Node, TunSeal(n) PROVE EpochInv'
  <2> DEFINE k == Sealed(n, tun[n].epoch, tun[n].body)
  <2>1. /\ tun'["server"].body.kind = "data"
        /\ tun'["client"].body.kind \in {"data", "init"}
    BY <1>0, <1>2, <1>d, <1>n, <1>t DEF TunSeal
  <2>2. /\ k \in Datagram /\ k.to = Peer(n) /\ k.body = tun[n].body
        /\ \E i \in DOMAIN ring[n] : k.epoch = ring[n][i].epoch
    BY <1>t, SealedType
  <2>3. k.body.kind # "ack"
    BY <1>0, <2>2 DEF Node
  <2>4. k.to = "server" => k.epoch <= sendEpoch["client"]
    <3> SUFFICES ASSUME k.to = "server" PROVE k.epoch <= sendEpoch["client"]
      OBVIOUS
    <3>1. n = "client"
      BY <2>2 DEF Node, Peer
    <3> QED
      BY <1>0, <2>2, <3>1, NodeNumbers
  <2>5. net' = net \cup {k}
    BY <1>2 DEF TunSeal
  <2> HIDE DEF k
  <2> QED
    BY <1>0, <1>2, <2>1, <2>2, <2>3, <2>4, <2>5, NoEpochMoves DEF TunSeal, control, exchange
<1>3. ASSUME BuildRekeyInit PROVE EpochInv'
  <2> DEFINE p == PendingForInit(pending, sm["client"], freshEph["client"])
  <2>1. /\ tun'["server"].body.kind = "data"
        /\ tun'["client"].body.kind \in {"data", "init"}
    BY <1>0, <1>3, <1>n, <1>t DEF BuildRekeyInit, RekeyInit
  <2>2. sm["client"].phase = "idle" /\ pending' = p
    BY <1>3 DEF BuildRekeyInit, ReadyForRekey
  <2>3. p.carrier = sendEpoch["client"]
    BY <1>0, <1>n, NodeNumbers DEF PendingForInit
  <2> QED
    BY <1>0, <1>3, <2>1, <2>2, <2>3, NoEpochMoves DEF BuildRekeyInit, control
<1>4. ASSUME SendRekeyInit PROVE EpochInv'
  <2>1. /\ tun'["server"].body.kind = "data"
        /\ tun'["client"].body.kind \in {"data", "init"}
    BY <1>0, <1>4, <1>n, <1>t DEF SendRekeyInit, TunState
  <2> QED
    BY <1>0, <1>4, <2>1, NoEpochMoves DEF SendRekeyInit, control, exchange
<1>5. ASSUME SendPing PROVE EpochInv'
  <2> DEFINE k == Sealed("client", sendEpoch["client"], Plain("ping"))
  <2>1. k \in Datagram /\ k.body = Plain("ping") /\ k.epoch = sendEpoch["client"]
    BY <1>n, NodeTypes, NodeNumbers, PayloadTypes, SealedType
  <2>2. net' = net \cup {k} /\ k.body.kind # "ack" /\ k.epoch <= sendEpoch["client"]
    BY <1>5, <1>n, <2>1, NodeTypes DEF SendPing, Plain
  <2> HIDE DEF k
  <2> QED
    BY <1>0, <1>5, <2>1, <2>2, NoEpochMoves DEF SendPing, control, exchange
<1>6. ASSUME SendReply PROVE EpochInv'
  <2> DEFINE k == Sealed("server", sendEpoch["server"], reply)
  <2>1. reply \in Payload /\ reply # None
    BY <1>6 DEF SendReply, TypeInv, TypeOK
  <2>2. /\ k \in Datagram /\ k.to = "client" /\ k.body = reply
        /\ k.epoch = sendEpoch["server"]
    BY <1>n, <2>1, NodeTypes, NodeNumbers, SealedType DEF Peer
  <2>3. net' = net \cup {k}
    BY <1>6 DEF SendReply
  <2>4. k.body.kind = "ack" => k.epoch < epochCounter["server"]
    BY <1>n, <2>1, <2>2, NodeNumbers, NodeTypes DEF EpochInv, AckBound
  <2> HIDE DEF k
  <2> QED
    BY <1>0, <1>6, <2>2, <2>3, <2>4, NoEpochMoves DEF SendReply, control, exchange
<1>7. ASSUME NEW m \in net,
             \/ ClientReceive(m)
             \/ ClientReceiveExhausted(m)
             \/ ClientHandleAck(m) /\ ~AckInstalls(m)
      PROVE  EpochInv'
  <2> DEFINE t == ObservedActivated(sm["client"], m.epoch)
  <2>1. m.epoch \in Nat
    BY <1>n, SeenType
  <2>2. /\ t.current = sm["client"].current /\ t.phase # "staged"
        /\ sm["client"].phase = "idle" => t.phase = "idle"
        /\ PromotedTo("client", m.epoch) = sendEpoch["client"]
    BY <2>1, ClientSees
  <2>3. /\ sm' = [sm EXCEPT !["client"] = t]
        /\ sendEpoch' = [sendEpoch EXCEPT !["client"] = PromotedTo("client", m.epoch)]
        /\ UNCHANGED <<ring, epochCounter, tx, tun, reply, net>>
        /\ pending' = None \/ pending' = pending
    BY <1>7 DEF ClientReceive, ClientReceiveExhausted, ClientHandleAck, exchange
  <2>4. sendEpoch' = sendEpoch
    BY <2>2, <2>3 DEF TypeInv, TypeOK
  <2>5. sm'["server"] = sm["server"] /\ sm'["client"] = t
    BY <1>n, <1>t, <2>3
  <2> HIDE DEF t
  <2> QED
    BY <1>0, <2>2, <2>3, <2>4, <2>5, NoEpochMoves
<1>8. ASSUME NEW m \in net, ClientHandleAck(m), AckInstalls(m) PROVE EpochInv'
  BY <1>8, InstallKeepsEpochs
<1>9. ASSUME NEW m \in net, ServerReceive(m) PROVE EpochInv'
  <2>1. reply' # None => reply'.kind # "ack"
    BY <1>9, <1>d DEF ServerReceive
  <2> QED
    BY <1>9, <2>1, ServerOnlySees DEF ServerReceive
<1>10. ASSUME NEW m \in net, ServerResendAck(m) PROVE EpochInv'
  <2>1. ServerAuthenticates(m) /\ SeenTx(m) # None /\ ~Complete(SeenTx(m))
    BY <1>10 DEF ServerResendAck, MayResend, SameRequest
  <2>2. SeenSm(m).phase # "idle" /\ SeenSm(m).phase \in {"idle", "staged"}
    BY <2>1, ServerSees, ServerSeesTx DEF Complete
  <2> QED
    BY <1>10, <2>1, <2>2, ServerOnlySees DEF ServerResendAck
<1>11. ASSUME NEW m \in net, ServerStartRekey(m) PROVE EpochInv'
  BY <1>11, StartRekeyKeepsEpochs
<1>12. ASSUME NEW m \in net, ServerDeclineInit(m) PROVE EpochInv'
  <2>1. reply' # None => reply'.kind # "ack"
    BY <1>12 DEF ServerDeclineInit, Plain
  <2> QED
    BY <1>12, <2>1, ServerOnlySees DEF ServerDeclineInit
<1>13. CASE UNCHANGED vars
  BY <1>0, <1>13, NoEpochMoves DEF vars, control, exchange
<1> QED
  BY <1>1, <1>2, <1>3, <1>4, <1>5, <1>6, <1>7, <1>8, <1>9, <1>10, <1>11, <1>12, <1>13
     DEF Next, Deliver

(* The epochs of the two ends stay aligned, whatever the network loses,    *)
(* repeats or reorders, for every epoch limit and every ring capacity.     *)
THEOREM EpochsAligned == Spec => []EpochInv
<1>1. Spec => []TypeInv
  BY TypesHold
<1> QED
  BY <1>1, InitEpochs, EpochStep, PTL DEF Spec

(* The server runs at most one epoch ahead of the client: a lost or        *)
(* repeated init or ack never makes either end count an epoch twice.       *)
THEOREM LockStepHolds == Spec => []EpochLockStep
<1>1. EpochInv => EpochLockStep
  BY DEF EpochInv, InStep
<1> QED
  BY <1>1, EpochsAligned, PTL

(* What an end sends, the other can open: neither ring evicts the epoch    *)
(* the other end sends under.                                              *)
THEOREM SendEpochsOpen == Spec => []SendEpochOpensAtPeer
<1>1. EpochInv => SendEpochOpensAtPeer
  BY DEF EpochInv, InStep
<1> QED
  BY <1>1, EpochsAligned, PTL

(* A pending exchange of the client is always bound to the epoch the       *)
(* client sends under.                                                     *)
THEOREM CarrierHolds == Spec => []CarrierStaysCurrent
<1>1. EpochInv => CarrierStaysCurrent
  BY DEF EpochInv
<1> QED
  BY <1>1, EpochsAligned, PTL

(* A ring of two or more whose newest epoch is the send epoch can stage. *)
LEMMA IdleNeverEvicts ==
  ASSUME Capacity >= 2, TypeInv, EpochInv, NEW n \in Node, sm[n].phase = "idle"
  PROVE  ~WouldEvict(n, sendEpoch[n])
<1> SUFFICES ASSUME Len(ring[n]) = Capacity PROVE ring[n][1].epoch # sendEpoch[n]
  BY DEF WouldEvict
<1>1. /\ Increasing(ring[n])
      /\ ring[n][Len(ring[n])].epoch = epochCounter[n]
      /\ epochCounter[n] = sendEpoch[n]
  BY NodeNumbers
<1> DEFINE r == ring[n]
<1>2. r \in Seq(Entry) /\ 1 \in DOMAIN r /\ Len(r) \in DOMAIN r /\ 1 < Len(r)
  BY NodeTypes, BoundsAssumption
<1>3. \A i \in DOMAIN r : r[i].epoch \in Nat
  <2>1. \A i \in DOMAIN r : r[i] \in Entry
    BY <1>2
  <2> QED
    BY <2>1 DEF Entry
<1>4. r[1].epoch < r[Len(r)].epoch
  BY <1>1, <1>2 DEF Increasing
<1> QED
  BY <1>1, <1>2, <1>3, <1>4

(* With room for two epochs, the ring never refuses to stage one that the  *)
(* state machine allows.                                                   *)
THEOREM StagingHolds ==
  ASSUME Capacity >= 2
  PROVE  Spec => []StagingNeverRefused
<1>1. TypeInv /\ EpochInv => StagingNeverRefused
  BY IdleNeverEvicts DEF StagingNeverRefused
<1> QED
  BY <1>1, TypesHold, EpochsAligned, PTL

(* The send epoch of either end moves up by one at a time and never back.  *)
THEOREM SendEpochsAdvance == Spec => SendEpochAdvances
<1>1. TypeInv /\ EpochInv /\ [Next]_vars
        => [\A n \in Node : sendEpoch'[n] \in {sendEpoch[n], sendEpoch[n] + 1}]_vars
  <2> SUFFICES ASSUME TypeInv, EpochInv, Next
               PROVE  \A n \in Node : sendEpoch'[n] \in {sendEpoch[n], sendEpoch[n] + 1}
    OBVIOUS
  <2>0. /\ sendEpoch \in [Node -> Nat]
        /\ "client" \in Node /\ "server" \in Node
    BY DEF TypeInv, TypeOK, Node
  <2>1. CASE UNCHANGED sendEpoch
    BY <2>1
  <2>2. ASSUME NEW m \in net, ServerAuthenticates(m)
        PROVE  \A n \in Node : sendEpoch'[n] \in {sendEpoch[n], sendEpoch[n] + 1}
    <3>1. /\ sendEpoch' = [sendEpoch EXCEPT !["server"] = PromotedTo("server", m.epoch)]
          /\ PromotedTo("server", m.epoch) \in {sendEpoch["server"], sendEpoch["server"] + 1}
      BY <2>2, ServerSees
    <3> QED
      BY <2>0, <3>1
  <2>3. ASSUME NEW m \in net, \/ ClientReceive(m) \/ ClientReceiveExhausted(m)
                              \/ ClientHandleAck(m) /\ ~AckInstalls(m)
        PROVE  \A n \in Node : sendEpoch'[n] \in {sendEpoch[n], sendEpoch[n] + 1}
    <3>1. PromotedTo("client", m.epoch) = sendEpoch["client"]
      BY <2>0, SeenType, ClientSees
    <3>2. sendEpoch' = [sendEpoch EXCEPT !["client"] = PromotedTo("client", m.epoch)]
      BY <2>3 DEF ClientReceive, ClientReceiveExhausted, ClientHandleAck
    <3> QED
      BY <2>0, <3>1, <3>2
  <2>4. ASSUME NEW m \in net, ClientHandleAck(m), AckInstalls(m)
        PROVE  \A n \in Node : sendEpoch'[n] \in {sendEpoch[n], sendEpoch[n] + 1}
    <3>1. sendEpoch' = [sendEpoch EXCEPT !["client"] = epochCounter["client"] + 1]
      BY <2>4 DEF ClientHandleAck
    <3>2. epochCounter["client"] = sendEpoch["client"]
      BY <2>0, NodeNumbers DEF EpochInv, Roles
    <3> QED
      BY <2>0, <3>1, <3>2
  <2>5. CASE (\E n \in Node : TunRead(n) \/ TunSeal(n)) \/ BuildRekeyInit \/ SendRekeyInit
             \/ SendPing \/ SendReply
    BY <2>1, <2>5 DEF TunRead, TunSeal, BuildRekeyInit, SendRekeyInit, SendPing, SendReply, control
  <2> QED
    BY <2>2, <2>3, <2>4, <2>5
       DEF Next, Deliver, ServerReceive, ServerResendAck, ServerStartRekey, ServerDeclineInit
<1> QED
  BY <1>1, TypesHold, EpochsAligned, PTL DEF Spec, SendEpochAdvances

-----------------------------------------------------------------------------
(* What a TUN thread has read outlives its Encrypt call. *)

(* Insert leaves no gap, and drops an epoch only from a full ring. *)
LEMMA InsertContiguous ==
  ASSUME NEW r \in Seq(Entry), r # << >>, Contiguous(r),
         NEW key \in Key, NEW e \in Nat, e = r[Len(r)].epoch + 1
  PROVE  Contiguous(Insert(r, e, key))
<1> DEFINE new == [epoch |-> e, key |-> key]
           kept == IF Len(r) = Capacity THEN Tail(r) ELSE r
           s == Append(kept, new)
<1>1. new \in Entry /\ new.epoch = e
  BY DEF Entry
<1>2. /\ kept \in Seq(Entry)
      /\ Len(r) = Capacity => /\ Len(kept) = Len(r) - 1
                              /\ \A i \in 1 .. Len(kept) : kept[i] = r[i + 1]
      /\ Len(r) # Capacity => kept = r
  OBVIOUS
<1>3. /\ DOMAIN r = 1 .. Len(r) /\ Len(r) \in Nat \ {0}
      /\ \A i \in DOMAIN r : r[i].epoch \in Nat
      /\ \A i \in DOMAIN r : r[i].epoch + Len(r) = r[Len(r)].epoch + i
      /\ Len(r) = Capacity \/ r[1].epoch = 0
  <2>1. \A i \in DOMAIN r : r[i] \in Entry
    OBVIOUS
  <2> QED
    BY <2>1 DEF Contiguous, Entry
<1> HIDE DEF new, kept
<1>4. /\ Len(s) = Len(kept) + 1
      /\ s[Len(s)] = new
      /\ \A i \in 1 .. Len(kept) : s[i] = kept[i]
      /\ DOMAIN s = 1 .. Len(kept) + 1
      /\ Len(kept) \in Nat
  BY <1>1, <1>2
<1> HIDE DEF s
<1>5. s[Len(s)].epoch = e
  BY <1>1, <1>4
<1>6. CASE Len(r) = Capacity
  <2>1. Len(s) = Capacity
    BY <1>2, <1>3, <1>4, <1>6
  <2>2. ASSUME NEW i \in DOMAIN s PROVE s[i].epoch + Len(s) = e + i
    <3>1. CASE i = Len(s)
      BY <1>5, <3>1
    <3>2. CASE i \in 1 .. Len(kept)
      <4>1. s[i] = r[i + 1] /\ i + 1 \in DOMAIN r
        BY <1>2, <1>3, <1>4, <1>6, <3>2
      <4>2. r[i + 1].epoch + Len(r) = r[Len(r)].epoch + (i + 1)
        BY <1>3, <4>1
      <4>3. s[i].epoch \in Nat /\ r[Len(r)].epoch \in Nat /\ Len(r) \in Nat /\ i \in Nat
        BY <1>3, <1>4, <3>2, <4>1
      <4>4. s[i].epoch + Len(r) = r[Len(r)].epoch + (i + 1) /\ Len(s) = Len(r)
        BY <1>6, <2>1, <4>1, <4>2
      <4> DEFINE x == s[i].epoch
                 len == Len(r)
                 last == r[Len(r)].epoch
      <4>5. /\ x \in Nat /\ len \in Nat /\ last \in Nat /\ i \in Nat
            /\ x + len = last + (i + 1) /\ e = last + 1
        BY <4>3, <4>4
      <4> HIDE DEF x, len, last
      <4>6. x + len = e + i
        BY <4>5
      <4> QED
        BY <4>4, <4>6 DEF x, len
    <3> QED
      BY <1>4, <3>1, <3>2
  <2> QED
    BY <1>5, <2>1, <2>2 DEF Contiguous, Insert, s, kept, new
<1>7. CASE Len(r) # Capacity
  <2>1. kept = r /\ Len(s) = Len(r) + 1 /\ r[1].epoch = 0
    BY <1>2, <1>3, <1>4, <1>7
  <2>2. ASSUME NEW i \in DOMAIN s PROVE s[i].epoch + Len(s) = e + i
    <3>1. CASE i = Len(s)
      BY <1>5, <3>1
    <3>2. CASE i \in 1 .. Len(kept)
      <4>1. s[i] = r[i] /\ i \in DOMAIN r /\ Len(r) \in DOMAIN r
        BY <1>3, <1>4, <2>1, <3>2
      <4>2. r[i].epoch + Len(r) = r[Len(r)].epoch + i
        BY <1>3, <4>1
      <4>3. s[i].epoch \in Nat /\ r[Len(r)].epoch \in Nat /\ Len(r) \in Nat /\ i \in Nat
        BY <1>3, <1>4, <3>2, <4>1
      <4>4. s[i].epoch + Len(r) = r[Len(r)].epoch + i /\ Len(s) = Len(r) + 1
        BY <2>1, <4>1, <4>2
      <4> QED
        BY <4>3, <4>4, SMTT(30)
    <3> QED
      BY <1>4, <3>1, <3>2
  <2>3. s[1].epoch = 0
    BY <1>3, <1>4, <2>1
  <2> QED
    BY <1>5, <2>2, <2>3 DEF Contiguous, Insert, s, kept, new
<1> QED
  BY <1>6, <1>7

(* A ring of three or more still holds the two epochs before the newest. *)
LEMMA RecentResolvable ==
  ASSUME Capacity >= 3,
         NEW r \in Seq(Entry), r # << >>, Contiguous(r),
         NEW e \in Nat, e <= r[Len(r)].epoch, r[Len(r)].epoch <= e + 2
  PROVE  Resolvable(r, e)
<1> DEFINE last == r[Len(r)].epoch
           i == e + Len(r) - last
<1>1. /\ DOMAIN r = 1 .. Len(r) /\ Len(r) \in Nat \ {0}
      /\ \A k \in DOMAIN r : r[k].epoch \in Nat
      /\ \A k \in DOMAIN r : r[k].epoch + Len(r) = last + k
      /\ Len(r) = Capacity \/ r[1].epoch = 0
  <2>1. \A k \in DOMAIN r : r[k] \in Entry
    OBVIOUS
  <2> QED
    BY <2>1 DEF Contiguous, Entry
<1>2. last \in Nat /\ 1 \in DOMAIN r
  BY <1>1
<1> HIDE DEF last
<1>3. e <= last /\ last <= e + 2
  BY DEF last
<1>4. r[1].epoch + Len(r) = last + 1
  BY <1>1, <1>2
<1>5. i \in 1 .. Len(r)
  <2> DEFINE len == Len(r)
             first == r[1].epoch
  <2>1. len \in Nat \ {0} /\ first \in Nat /\ first + len = last + 1
    BY <1>1, <1>2, <1>4
  <2>2. len >= 3 \/ first = 0
    BY <1>1
  <2> HIDE DEF len, first
  <2>3. e + len - last \in 1 .. len
    BY <1>2, <1>3, <2>1, <2>2
  <2> QED
    BY <2>3 DEF len
<1>6. i \in DOMAIN r /\ i = e + Len(r) - last
  BY <1>1, <1>5
<1> HIDE DEF i
<1>7. r[i].epoch = e
  <2>1. r[i].epoch + Len(r) = last + i /\ r[i].epoch \in Nat /\ Len(r) \in Nat
    BY <1>1, <1>6
  <2> QED
    BY <1>2, <1>6, <2>1
<1> QED
  BY <1>6, <1>7 DEF Resolvable

(* What a step that stages nothing must keep. *)
LEMMA SealFrame ==
  ASSUME TypeInv, EpochInv, SealInv,
         UNCHANGED <<ring, epochCounter>>,
         tun' = tun \/ \E n \in Node : tun' = [tun EXCEPT ![n] = TunIdle],
         pending' = pending \/ pending' = None,
         tun["server"].pc = "sealing" /\ reply # None => reply' # None
  PROVE  SealInv'
<1>1. /\ tun \in [Node -> TunState]
      /\ TunIdle.pc = "idle"
  BY DEF TypeInv, TypeOK, TunIdle
<1>2. \A n \in Node : tun'[n].pc = "sealing" => tun'[n] = tun[n]
  BY <1>1
<1>3. \A n \in Node : Contiguous(ring'[n])
  BY DEF SealInv
<1>4. SealsRecent'
  BY <1>2 DEF SealInv, SealsRecent, Node
<1> QED
  BY <1>3, <1>4 DEF SealInv, Contiguous

(* Every ring is full or complete when the session begins. *)
LEMMA InitSeals == Init => SealInv
<1> SUFFICES ASSUME Init PROVE SealInv
  OBVIOUS
<1>1. \A n \in Node : /\ ring[n] = << [epoch |-> 0, key |-> InitialKey] >>
                      /\ tun[n] = TunIdle
  BY DEF Init
<1>2. \A n \in Node : Contiguous(ring[n])
  BY <1>1 DEF Contiguous
<1>3. SealsRecent
  BY <1>1 DEF SealsRecent, TunIdle, Node
<1> QED
  BY <1>2, <1>3 DEF SealInv

(* No step lets an end run away from a TUN thread inside Encrypt. *)
LEMMA SealStep == TypeInv /\ EpochInv /\ SealInv /\ [Next]_vars => SealInv'
<1> SUFFICES ASSUME TypeInv, EpochInv, SealInv, [Next]_vars PROVE SealInv'
  OBVIOUS
<1>n. "client" \in Node /\ "server" \in Node
  BY DEF Node
<1>t. /\ tun \in [Node -> TunState]
      /\ \A n \in Node : sendEpoch[n] \in Nat /\ epochCounter[n] \in Nat /\ tun[n].epoch \in Nat
  BY DEF TypeInv, TypeOK, TunState
<1>c. epochCounter["client"] = sendEpoch["client"]
  BY <1>n, NodeNumbers DEF EpochInv, Roles
<1>s. /\ sendEpoch["server"] <= epochCounter["server"]
      /\ epochCounter["server"] <= sendEpoch["server"] + 1
  BY <1>n, <1>t, NodeNumbers
<1>r. \A n \in Node : Contiguous(ring[n])
  BY DEF SealInv
<1>1. ASSUME NEW n \in Node, TunRead(n) PROVE SealInv'
  <2>1. /\ UNCHANGED <<ring, epochCounter, pending, reply>>
        /\ \A k \in Node : k # n => tun'[k] = tun[k]
        /\ tun'[n].epoch = sendEpoch[n]
    BY <1>1, <1>t DEF TunRead, control, exchange
  <2>2. SealsRecent'
    BY <1>c, <1>n, <1>s, <1>t, <2>1 DEF SealInv, SealsRecent, Node
  <2> QED
    BY <1>r, <2>1, <2>2 DEF SealInv, Contiguous
<1>2. ASSUME BuildRekeyInit PROVE SealInv'
  <2>1. /\ UNCHANGED <<ring, epochCounter, reply>>
        /\ tun'["server"] = tun["server"]
        /\ tun'["client"].pc = "built"
    BY <1>2, <1>n, <1>t DEF BuildRekeyInit, control
  <2>2. SealsRecent'
    BY <2>1 DEF SealInv, SealsRecent
  <2> QED
    BY <1>r, <2>1, <2>2 DEF SealInv, Contiguous
<1>3. ASSUME SendRekeyInit PROVE SealInv'
  <2>1. /\ UNCHANGED <<ring, epochCounter, pending, reply>>
        /\ tun'["server"] = tun["server"]
        /\ tun'["client"].epoch = sendEpoch["client"]
    BY <1>3, <1>n, <1>t DEF SendRekeyInit, control, exchange, TunState
  <2>2. SealsRecent'
    BY <1>c, <1>n, <1>t, <2>1 DEF SealInv, SealsRecent
  <2> QED
    BY <1>r, <2>1, <2>2 DEF SealInv, Contiguous
<1>4. ASSUME \/ \E n \in Node : TunSeal(n)
             \/ SendPing
             \/ SendReply
             \/ \E m \in net : ClientReceive(m) \/ ClientReceiveExhausted(m)
             \/ \E m \in net : ClientHandleAck(m) /\ ~AckInstalls(m)
             \/ \E m \in net : ServerReceive(m) \/ ServerResendAck(m) \/ ServerDeclineInit(m)
             \/ UNCHANGED vars
      PROVE  SealInv'
  <2>1. UNCHANGED <<ring, epochCounter>>
    BY <1>4 DEF TunSeal, SendPing, SendReply, ClientReceive, ClientReceiveExhausted,
                ClientHandleAck, ServerReceive, ServerResendAck, ServerDeclineInit, control, vars
  <2>2. tun' = tun \/ \E n \in Node : tun' = [tun EXCEPT ![n] = TunIdle]
    BY <1>4 DEF TunSeal, SendPing, SendReply, ClientReceive, ClientReceiveExhausted,
                ClientHandleAck, ServerReceive, ServerResendAck, ServerDeclineInit, vars
  <2>3. pending' = pending \/ pending' = None
    BY <1>4 DEF TunSeal, SendPing, SendReply, ClientReceive, ClientReceiveExhausted,
                ClientHandleAck, ServerReceive, ServerResendAck, ServerDeclineInit, exchange, vars
  <2>4. tun["server"].pc = "sealing" /\ reply # None => reply' # None
    BY <1>4 DEF TunSeal, SendPing, SendReply, ClientReceive, ClientReceiveExhausted, LockFree,
                ClientHandleAck, ServerReceive, ServerResendAck, ServerDeclineInit,
                ServerAuthenticates, vars
  <2> QED
    BY <2>1, <2>2, <2>3, <2>4, SealFrame
<1>5. ASSUME NEW m \in net, ClientHandleAck(m), AckInstalls(m) PROVE SealInv'
  <2> DEFINE epoch == epochCounter["client"] + 1
             key == Derive(ObservedActivated(sm["client"], m.epoch).current.key,
                           pending.eph, m.body.pub)
  <2>1. pending \in Pending /\ pending # None
    BY <1>5 DEF ClientHandleAck, AckConsidered, TypeInv, TypeOK
  <2>2. key \in Key /\ epoch \in Nat
    <3>1. pending.eph \in Nat
      BY <2>1 DEF Pending
    <3>2. epoch \in Nat
      BY <1>n, <1>t
    <3>3. m.body.pub \in Nat /\ ObservedActivated(sm["client"], m.epoch).current.key \in Key
      BY <1>n, SeenType
    <3> QED
      BY <3>1, <3>2, <3>3, DeriveType
  <2>3. /\ ring' = [ring EXCEPT !["client"] = Insert(ring["client"], epoch, key)]
        /\ epochCounter' = [epochCounter EXCEPT !["client"] = epoch]
        /\ pending' = None /\ UNCHANGED <<tun, reply>>
    BY <1>5 DEF ClientHandleAck
  <2> HIDE DEF key
  <2>4. Contiguous(Insert(ring["client"], epoch, key))
    <3>1. ring["client"][Len(ring["client"])].epoch + 1 = epoch
      BY <1>n, NodeNumbers
    <3> QED
      BY <1>n, <1>r, <2>2, <3>1, NodeTypes, InsertContiguous
  <2>5. \A n \in Node : Contiguous(ring'[n])
    BY <1>r, <2>3, <2>4 DEF TypeInv, TypeOK
  <2>6. /\ epochCounter'["client"] = epochCounter["client"] + 1
        /\ epochCounter'["server"] = epochCounter["server"]
    BY <1>n, <2>3 DEF TypeInv, TypeOK
  <2>7. SealsRecent'
    BY <1>n, <1>t, <2>1, <2>3, <2>6 DEF SealInv, SealsRecent
  <2> QED
    BY <2>5, <2>7 DEF SealInv, Contiguous
<1>6. ASSUME NEW m \in net, ServerStartRekey(m) PROVE SealInv'
  <2> DEFINE epoch == epochCounter["server"] + 1
             ack == RekeyAck(m.body.eph, freshEph["server"])
             key == Derive(SeenSm(m).current.key, m.body.eph, freshEph["server"])
  <2>1. key \in Key /\ epoch \in Nat /\ ack # None
    <3>1. /\ epoch \in Nat /\ freshEph["server"] \in Nat /\ m.body.eph \in Nat
          /\ SeenSm(m).current.key \in Key
      BY <1>n, NodeTypes, SeenType DEF SeenSm
    <3>2. ack \in Payload
      BY <3>1, PayloadTypes
    <3> QED
      BY <3>1, <3>2, DeriveType, NoneAssumption
  <2>2. /\ ring' = [ring EXCEPT !["server"] = Insert(ring["server"], epoch, key)]
        /\ epochCounter' = [epochCounter EXCEPT !["server"] = epoch]
        /\ reply = None /\ reply' = ack
        /\ UNCHANGED <<tun, pending>>
    BY <1>6 DEF ServerStartRekey, ServerAuthenticates
  <2> HIDE DEF key, ack
  <2>3. Contiguous(Insert(ring["server"], epoch, key))
    <3>1. ring["server"][Len(ring["server"])].epoch + 1 = epoch
      BY <1>n, NodeNumbers
    <3> QED
      BY <1>n, <1>r, <2>1, <3>1, NodeTypes, InsertContiguous
  <2>4. \A n \in Node : Contiguous(ring'[n])
    BY <1>r, <2>2, <2>3 DEF TypeInv, TypeOK
  <2>5. /\ epochCounter'["server"] = epochCounter["server"] + 1
        /\ epochCounter'["client"] = epochCounter["client"]
    BY <1>n, <2>2 DEF TypeInv, TypeOK
  <2>6. SealsRecent'
    BY <1>n, <1>t, <2>1, <2>2, <2>5 DEF SealInv, SealsRecent
  <2> QED
    BY <2>4, <2>6 DEF SealInv, Contiguous
<1> QED
  BY <1>1, <1>2, <1>3, <1>4, <1>5, <1>6 DEF Next, Deliver

(* With room for three epochs, Encrypt always finds the epoch it has read: *)
(* the mutex of the sender keeps the receiving thread of that end from     *)
(* turning the ring over in between.                                       *)
THEOREM EncryptNeverFallsBackHolds ==
  ASSUME Capacity >= 3
  PROVE  Spec => []EncryptNeverFallsBack
<1>1. TypeInv /\ EpochInv /\ SealInv => EncryptNeverFallsBack
  <2> SUFFICES ASSUME TypeInv, EpochInv, SealInv, NEW n \in Node, tun[n].pc = "sealing"
               PROVE  Resolvable(ring[n], tun[n].epoch)
    BY DEF EncryptNeverFallsBack
  <2>1. /\ ring[n] \in Seq(Entry) /\ ring[n] # << >> /\ Contiguous(ring[n])
        /\ ring[n][Len(ring[n])].epoch = epochCounter[n]
        /\ tun[n].epoch \in Nat /\ epochCounter[n] \in Nat
    BY NodeTypes, NodeNumbers DEF SealInv, TunState
  <2>2. tun[n].epoch <= epochCounter[n] /\ epochCounter[n] <= tun[n].epoch + 2
    <3>1. CASE n = "client"
      BY <2>1, <3>1 DEF SealInv, SealsRecent
    <3>2. CASE n = "server"
      BY <2>1, <3>2 DEF SealInv, SealsRecent
    <3> QED
      BY <3>1, <3>2 DEF Node
  <2> QED
    BY <2>1, <2>2, RecentResolvable
<1>2. Spec => []SealInv
  BY InitSeals, SealStep, TypesHold, EpochsAligned, PTL DEF Spec
<1> QED
  BY <1>1, <1>2, TypesHold, EpochsAligned, PTL

-----------------------------------------------------------------------------
(* Keys. *)

(* The ephemeral an exchange was asked for with can be read off the keys. *)
LEMMA RequestedFacts ==
  /\ \A key \in Key : key # InitialKey => Requested(key) \in Nat
  /\ \A base \in Key, eph, pub \in Nat :
       Derive(base, eph, pub) # InitialKey /\ Requested(Derive(base, eph, pub)) = eph
<1>1. ASSUME NEW key \in Key, key # InitialKey PROVE Requested(key) \in Nat
  <2>1. key \in Seq(Nat \X Nat) /\ key # << >>
    BY <1>1 DEF Key, InitialKey
  <2>2. key[Len(key)] \in Nat \X Nat
    BY <2>1
  <2> QED
    BY <2>2 DEF Requested
<1>2. ASSUME NEW base \in Key, NEW eph \in Nat, NEW pub \in Nat
      PROVE  Derive(base, eph, pub) # InitialKey /\ Requested(Derive(base, eph, pub)) = eph
  <2> DEFINE pair == <<eph, pub>>
  <2>1. pair \in Nat \X Nat /\ pair[1] = eph
    OBVIOUS
  <2> HIDE DEF pair
  <2>2. /\ Append(base, pair) # << >>
        /\ Append(base, pair)[Len(Append(base, pair))] = pair
    <3>1. base \in Seq(Nat \X Nat) /\ Len(base) \in Nat
      BY DEF Key
    <3>2. Len(Append(base, pair)) = Len(base) + 1 /\ Append(base, pair)[Len(base) + 1] = pair
      BY <2>1, <3>1
    <3>3. Append(base, pair) # << >>
      BY <3>1, <3>2
    <3> QED
      BY <3>2, <3>3
  <2>3. /\ << pair >> # << >>
        /\ << pair >>[Len(<< pair >>)] = pair
    BY <2>1
  <2>4. Derive(base, eph, pub) = << pair >> \/ Derive(base, eph, pub) = Append(base, pair)
    BY DEF Derive, pair
  <2> QED
    BY <2>1, <2>2, <2>3, <2>4 DEF Requested, InitialKey
<1> QED
  BY <1>1, <1>2

(* Insert shifts the old entries by one or not at all. *)
LEMMA InsertEntries ==
  ASSUME NEW r \in Seq(Entry), r # << >>, NEW e \in Nat, NEW key \in Key
  PROVE  LET s == Insert(r, e, key)
         IN  /\ s \in Seq(Entry) /\ s # << >>
             /\ s[Len(s)] = [epoch |-> e, key |-> key]
             /\ \E d \in {0, 1} :
                  \A i \in DOMAIN s : i # Len(s) => i + d \in DOMAIN r /\ s[i] = r[i + d]
<1> DEFINE new == [epoch |-> e, key |-> key]
           kept == IF Len(r) = Capacity THEN Tail(r) ELSE r
           s == Append(kept, new)
<1>1. new \in Entry
  BY DEF Entry
<1>2. /\ kept \in Seq(Entry)
      /\ Len(r) = Capacity => /\ Len(kept) = Len(r) - 1
                              /\ \A i \in 1 .. Len(kept) : kept[i] = r[i + 1]
      /\ Len(r) # Capacity => kept = r
  OBVIOUS
<1>3. DOMAIN r = 1 .. Len(r) /\ Len(r) \in Nat
  OBVIOUS
<1> HIDE DEF new, kept
<1>4. /\ s \in Seq(Entry) /\ s # << >>
      /\ Len(s) = Len(kept) + 1
      /\ s[Len(s)] = new
      /\ \A i \in 1 .. Len(kept) : s[i] = kept[i]
      /\ DOMAIN s = 1 .. Len(kept) + 1
      /\ Len(kept) \in Nat
  BY <1>1, <1>2
<1> HIDE DEF s
<1>5. \E d \in {0, 1} :
        \A i \in DOMAIN s : i # Len(s) => i + d \in DOMAIN r /\ s[i] = r[i + d]
  <2>1. CASE Len(r) = Capacity
    <3>1. \A i \in DOMAIN s : i # Len(s) => i + 1 \in DOMAIN r /\ s[i] = r[i + 1]
      BY <1>2, <1>3, <1>4, <2>1
    <3> QED
      BY <3>1
  <2>2. CASE Len(r) # Capacity
    <3>1. ASSUME NEW i \in DOMAIN s, i # Len(s)
          PROVE  i \in DOMAIN r /\ s[i] = r[i]
      <4>1. i \in 1 .. Len(kept)
        BY <1>4, <3>1
      <4>2. kept = r /\ s[i] = kept[i]
        BY <1>2, <1>4, <2>2, <4>1
      <4> QED
        BY <1>3, <4>1, <4>2
    <3>2. \A i \in DOMAIN s : i + 0 = i
      BY <1>4
    <3>3. ASSUME NEW i \in DOMAIN s, i # Len(s)
          PROVE  i + 0 \in DOMAIN r /\ s[i] = r[i + 0]
      <4>1. i + 0 = i
        BY <3>2
      <4>2. i \in DOMAIN r /\ s[i] = r[i]
        BY <3>1, <3>3
      <4> QED
        BY <4>1, <4>2, Zenon
    <3> QED
      BY <3>3
  <2> QED
    BY <2>1, <2>2
<1>6. s = Insert(r, e, key)
  BY DEF Insert, new, kept, s
<1> QED
  BY <1>4, <1>5, <1>6 DEF new

(* The newest entry of either ring. *)
LEMMA NewestFacts ==
  ASSUME TypeInv, EpochInv, NEW n \in Node
  PROVE  /\ Len(ring[n]) \in DOMAIN ring[n]
         /\ ring[n][Len(ring[n])].epoch = epochCounter[n]
         /\ Newest(n) \in Key
         /\ \A i \in DOMAIN ring[n] : /\ ring[n][i] \in Entry
                                      /\ ring[n][i].epoch <= epochCounter[n]
         /\ \A i \in DOMAIN ring[n] :
              ring[n][i].epoch = epochCounter[n] => i = Len(ring[n])
<1>1. /\ ring[n] \in Seq(Entry) /\ ring[n] # << >>
      /\ Increasing(ring[n])
      /\ ring[n][Len(ring[n])].epoch = epochCounter[n]
      /\ \A i \in DOMAIN ring[n] : ring[n][i].epoch <= epochCounter[n]
  BY NodeTypes, NodeNumbers
<1>2. /\ Len(ring[n]) \in DOMAIN ring[n]
      /\ DOMAIN ring[n] = 1 .. Len(ring[n])
      /\ \A i \in DOMAIN ring[n] : ring[n][i] \in Entry
  BY <1>1
<1>3. Newest(n) \in Key
  BY <1>2 DEF Newest, Entry
<1>4. ASSUME NEW i \in DOMAIN ring[n], ring[n][i].epoch = epochCounter[n]
      PROVE  i = Len(ring[n])
  <2> SUFFICES ASSUME i # Len(ring[n]) PROVE FALSE
    OBVIOUS
  <2>1. i < Len(ring[n])
    BY <1>2
  <2>2. ring[n][i].epoch < ring[n][Len(ring[n])].epoch
    BY <1>1, <1>2, <2>1 DEF Increasing
  <2>3. epochCounter[n] \in Nat
    BY NodeTypes
  <2> QED
    BY <1>1, <1>4, <2>2, <2>3
<1> QED
  BY <1>1, <1>2, <1>3, <1>4

(* The counters of the two ends, one ahead of the other or equal. *)
LEMMA CounterFacts ==
  ASSUME TypeInv, EpochInv
  PROVE  /\ epochCounter["client"] \in Nat /\ epochCounter["server"] \in Nat
         /\ sendEpoch["client"] = epochCounter["client"]
         /\ sm["client"].current.epoch = epochCounter["client"]
         /\ ServerAhead => epochCounter["server"] = epochCounter["client"] + 1
         /\ ~ServerAhead => epochCounter["server"] = epochCounter["client"]
         /\ ServerAhead => /\ sm["server"].phase = "staged"
                           /\ tx # None
                           /\ sendEpoch["server"] = epochCounter["client"]
<1>1. /\ "client" \in Node /\ "server" \in Node
      /\ \A n \in Node : epochCounter[n] \in Nat /\ sendEpoch[n] \in Nat /\ SmOK(sm[n])
  BY NodeTypes DEF Node
<1>2. /\ sm["client"].phase # "staged" /\ sm["server"].phase # "retiring"
      /\ epochCounter["client"] <= epochCounter["server"]
      /\ epochCounter["server"] <= epochCounter["client"] + 1
      /\ sendEpoch["server"] <= sendEpoch["client"]
  BY DEF EpochInv, Roles, InStep, EpochLockStep
<1>3. sendEpoch["client"] = epochCounter["client"] /\ sm["client"].current.epoch = epochCounter["client"]
  BY <1>1, <1>2, NodeNumbers
<1>4. ASSUME ServerAhead
      PROVE  /\ epochCounter["server"] = epochCounter["client"] + 1
             /\ sm["server"].phase = "staged"
             /\ tx # None
             /\ sendEpoch["server"] = epochCounter["client"]
  <2>1. epochCounter["server"] = epochCounter["client"] + 1
    BY <1>1, <1>2, <1>4 DEF ServerAhead
  <2>2. sm["server"].phase = "staged"
    BY <1>1, <1>2, <1>3, <2>1, NodeNumbers
  <2>3. sendEpoch["server"] = epochCounter["client"]
    BY <1>1, <2>1, <2>2, NodeNumbers
  <2>4. tx # None
    BY <1>1, <2>1 DEF EpochInv, TransactionOpen
  <2> QED
    BY <2>1, <2>2, <2>3, <2>4
<1>5. ~ServerAhead => epochCounter["server"] = epochCounter["client"]
  BY <1>1, <1>2 DEF ServerAhead
<1> QED
  BY <1>1, <1>3, <1>4, <1>5

(* What a step that moves no epoch, no transaction and no keys must keep:  *)
(* what it sends, what the TUN thread holds, and a new exchange.           *)
LEMMA KeyFrame ==
  ASSUME TypeInv, EpochInv, KeyInv,
         UNCHANGED <<ring, epochCounter, tx>>,
         sm'["server"] = sm["server"],
         sm'["client"].current = sm["client"].current,
         reply' = reply \/ reply' = None,
         \/ net' = net
         \/ \E m \in Datagram :
              /\ net' = net \cup {m}
              /\ m.body.kind = "ack" => m.body = tx.response
              /\ m.to = "server" /\ m.body.kind = "init" => AsksFor(m.body),
         \/ pending' = pending /\ freshEph' = freshEph
         \/ /\ pending = None /\ pending' # None
            /\ pending'.eph = freshEph["client"]
            /\ V2 => pending'.base = Newest("client")
            /\ freshEph'["client"] = freshEph["client"] + 1,
         tun'["client"].body.kind = "init" =>
           /\ pending' # None => tun'["client"].body = InitOf(pending')
           /\ pending' = None => tx # None /\ tun'["client"].body = tx.request
  PROVE  KeyInv'
<1>0. freshEph["client"] \in Nat
  BY NodeTypes DEF Node
<1>1. KeyAgreement' /\ OneEpochPerRequest' /\ epochCounter'["server"] <= MaxEpoch
  BY DEF KeyInv, KeyAgreement, RequestsFresh, OneEpochPerRequest
<1>2. KeysInUse'
  BY DEF KeyInv, KeysInUse, Newest, ServerAhead
<1>3. AcksAnswer'
  BY DEF KeyInv, AcksAnswer
<1>4. RequestsCurrent'
  <2>1. pending # None => pending' = pending
    OBVIOUS
  <2>2. \A body : AsksFor(body) => AsksFor(body)'
    BY <2>1 DEF AsksFor, InitOf
  <2>3. ServerAhead' = ServerAhead
    BY DEF ServerAhead
  <2>4. ServerAhead' => pending' # None /\ tx'.request = InitOf(pending')
    BY <2>1, <2>3 DEF KeyInv, RequestsCurrent
  <2>5. ASSUME ~ServerAhead', NEW m \in net', m.to = "server", m.body.kind = "init",
               m.epoch = epochCounter'["client"]
        PROVE  AsksFor(m.body)'
    <3>1. AsksFor(m.body)
      BY <2>3, <2>5 DEF KeyInv, RequestsCurrent
    <3> QED
      BY <2>2, <3>1
  <2> QED
    BY <2>4, <2>5 DEF RequestsCurrent, InitOf
<1>5. RequestsFresh'
  <2>1. CASE pending' = pending /\ freshEph' = freshEph
    BY <1>1, <2>1 DEF KeyInv, RequestsFresh, Newest, ServerAhead
  <2>2. CASE /\ pending = None /\ pending' # None
             /\ pending'.eph = freshEph["client"]
             /\ V2 => pending'.base = Newest("client")
             /\ freshEph'["client"] = freshEph["client"] + 1
    <3>1. pending'.eph < freshEph'["client"] /\ (V2 => pending'.base = Newest("client")')
      BY <1>0, <2>2 DEF Newest
    <3>2. ASSUME NEW i \in DOMAIN ring["server"], ring["server"][i].key # InitialKey
          PROVE  /\ Requested(ring["server"][i].key) < freshEph'["client"]
                 /\ Requested(ring["server"][i].key) < pending'.eph
      <4>1. Requested(ring["server"][i].key) < freshEph["client"]
        BY <3>2 DEF KeyInv, RequestsFresh
      <4>2. Requested(ring["server"][i].key) \in Nat
        <5>1. ring["server"][i].key \in Key
          BY NewestFacts DEF Node, Entry
        <5> QED
          BY <3>2, <5>1, RequestedFacts
      <4> QED
        BY <1>0, <2>2, <4>1, <4>2
    <3> QED
      BY <1>1, <3>1, <3>2 DEF RequestsFresh
  <2> QED
    BY <2>1, <2>2
<1> QED
  BY <1>1, <1>2, <1>3, <1>4, <1>5 DEF KeyInv

(* An authenticated datagram leaves the server with the keys it had in use *)
(* or with those it had staged, and with the same request and response.    *)
LEMMA ServerSeesKeys ==
  ASSUME TypeInv, EpochInv, KeyInv, NEW m \in net, m.to = "server"
  PROVE  LET s == SeenSm(m)
         IN  /\ s.phase = "idle" =>
                  /\ s.current.key = Newest("server")
                  /\ ~ServerAhead
             /\ s.phase = "staged" =>
                  /\ s.staged.key = Newest("server")
                  /\ Newest("server") = Derive(s.current.key, tx.response.eph, tx.response.pub)
                  /\ ServerAhead => s.current.key = Newest("client")
             /\ SeenTx(m) = None <=> tx = None
             /\ tx # None => /\ SeenTx(m).request = tx.request
                             /\ SeenTx(m).response = tx.response
<1> DEFINE s == sm["server"]
           t == SeenSm(m)
<1>1. SmOK(s) /\ m.epoch \in Nat /\ tx \in Transaction \cup {None}
  BY SeenType, NodeTypes DEF Node, TypeInv, TypeOK
<1>2. /\ s.phase = "staged" /\ m.epoch = s.staged.epoch => t.current = s.staged /\ t.phase = "idle"
      /\ ~(s.phase = "staged" /\ m.epoch = s.staged.epoch)
           => /\ t.current = s.current /\ t.staged = s.staged
              /\ t.phase = IF s.phase = "retiring" /\ Larger(m.epoch, s.maxObserved) >= s.current.epoch
                             THEN "idle" ELSE s.phase
  BY <1>1, ObservedActivatedFacts DEF SeenSm
<1>3. /\ s.phase = "idle" => s.current.key = Newest("server")
      /\ s.phase = "staged" => /\ s.staged.key = Newest("server")
                               /\ Newest("server") = Derive(s.current.key, tx.response.eph, tx.response.pub)
      /\ ServerAhead => s.current.key = Newest("client")
      /\ s.phase # "retiring"
  BY DEF KeyInv, KeysInUse, EpochInv, Roles
<1>4. t.phase = "idle" => ~ServerAhead
  <2>1. t.phase = "idle" => epochCounter["server"] = epochCounter["client"]
    BY ServerObserves
  <2> QED
    BY <2>1, CounterFacts DEF ServerAhead
<1>5. /\ SeenTx(m) = None <=> tx = None
      /\ tx # None => /\ SeenTx(m).request = tx.request
                      /\ SeenTx(m).response = tx.response
  BY <1>1, TxTypes DEF SeenTx
<1> HIDE DEF s, t
<1>6. CASE s.phase = "staged" /\ m.epoch = s.staged.epoch
  BY <1>2, <1>3, <1>4, <1>5, <1>6 DEF t
<1>7. CASE ~(s.phase = "staged" /\ m.epoch = s.staged.epoch)
  BY <1>2, <1>3, <1>4, <1>5, <1>7 DEF t
<1> QED
  BY <1>6, <1>7

(* The server only sees a datagram, and may owe an ack it has sent before. *)
LEMMA ServerSeesKeepsKeys ==
  ASSUME TypeInv, EpochInv, KeyInv, NEW m \in net, ServerAuthenticates(m),
         UNCHANGED <<ring, epochCounter, pending, freshEph, tun, net>>,
         sm' = [sm EXCEPT !["server"] = SeenSm(m)],
         tx' = SeenTx(m),
         reply' # None /\ reply'.kind = "ack" => tx # None /\ reply' = SeenTx(m).response
  PROVE  KeyInv'
<1>0. m.to = "server" /\ SeenSm(m).phase \in {"idle", "staged"}
  BY ServerSees DEF ServerAuthenticates, Opens
<1>1. LET s == SeenSm(m)
      IN  /\ s.phase = "idle" =>
               /\ s.current.key = Newest("server")
               /\ ~ServerAhead
          /\ s.phase = "staged" =>
               /\ s.staged.key = Newest("server")
               /\ Newest("server") = Derive(s.current.key, tx.response.eph, tx.response.pub)
               /\ ServerAhead => s.current.key = Newest("client")
          /\ SeenTx(m) = None <=> tx = None
          /\ tx # None => /\ SeenTx(m).request = tx.request
                          /\ SeenTx(m).response = tx.response
  BY <1>0, ServerSeesKeys
<1>2. sm'["server"] = SeenSm(m) /\ sm'["client"] = sm["client"]
  BY DEF TypeInv, TypeOK, Node
<1>3. tx = None => epochCounter["server"] = 0
  BY DEF EpochInv, TransactionOpen
<1>4. tx = None => SeenSm(m).phase # "staged"
  <2>1. SeenSm(m).phase = "staged" =>
          /\ PromotedTo("server", m.epoch) \in Nat
          /\ epochCounter["server"] = PromotedTo("server", m.epoch) + 1
    BY ServerSees
  <2> QED
    BY <1>3, <2>1
<1>a. UNCHANGED <<ServerAhead, Newest("client"), Newest("server")>>
  BY DEF ServerAhead, Newest
<1>5. KeyAgreement' /\ RequestsFresh' /\ epochCounter'["server"] <= MaxEpoch
  BY <1>a DEF KeyInv, KeyAgreement, RequestsFresh, OneEpochPerRequest
<1>6. KeysInUse'
  BY <1>0, <1>1, <1>2, <1>4, <1>a DEF KeyInv, KeysInUse
<1>7. AcksAnswer'
  <2>1. ASSUME NEW k \in net, k.body.kind = "ack", k.epoch + 1 = epochCounter["server"]
        PROVE  k.body = tx'.response
    <3>1. k.epoch \in Nat
      BY DEF TypeInv, TypeOK, Datagram
    <3>2. tx # None
      BY <1>3, <2>1, <3>1
    <3> QED
      BY <1>1, <2>1, <3>2 DEF KeyInv, AcksAnswer
  <2>2. tx' # None => tx'.response.eph = tx'.request.eph
    BY <1>1 DEF KeyInv, AcksAnswer
  <2> QED
    BY <2>1, <2>2 DEF AcksAnswer
<1>8. RequestsCurrent'
  <2>1. \A body : AsksFor(body) => AsksFor(body)'
    BY <1>1 DEF AsksFor, InitOf
  <2>2. ServerAhead => tx'.request = InitOf(pending)
    BY <1>1, CounterFacts DEF KeyInv, RequestsCurrent
  <2>3. tx # None => tx' # None /\ tx'.request = tx.request
    BY <1>1
  <2> QED
    BY <1>a, <2>1, <2>2, <2>3 DEF KeyInv, RequestsCurrent, InitOf
<1> QED
  BY <1>5, <1>6, <1>7, <1>8 DEF KeyInv

(* A request the server may take up is the pending exchange of the client, *)
(* and both ends have the same keys in use.                                *)
LEMMA StartAnswersPending ==
  ASSUME TypeInv, EpochInv, KeyInv, NEW m \in net, m.to = "server", m.body.kind = "init",
         MayStart(SeenTx(m), m.body, m.epoch, SeenSm(m))
  PROVE  /\ pending # None /\ m.body = InitOf(pending)
         /\ m.body.eph = pending.eph /\ m.body.base = pending.base
         /\ ~ServerAhead
         /\ SeenSm(m).current.key = Newest("client")
         /\ SeenSm(m).current.key = Newest("server")
<1>1. SeenSm(m).phase = "idle"
  BY DEF MayStart, ReadyForRekey
<1>2. ~ServerAhead /\ SeenSm(m).current.key = Newest("server")
  BY <1>1, ServerSeesKeys
<1>3. epochCounter["server"] = epochCounter["client"] /\ epochCounter["client"] \in Nat
  BY <1>2, CounterFacts
<1>4. m.epoch = epochCounter["client"]
  <2>1. CASE SeenTx(m) = None
    <3>1. epochCounter["server"] = 0
      BY <2>1, ServerSeesTx
    <3>2. m.epoch \in Nat /\ m.epoch <= epochCounter["client"]
      <4>1. m.epoch \in Nat
        BY SeenType DEF Node
      <4>2. m.epoch <= sendEpoch["client"]
        BY DEF EpochInv, Awareness
      <4>3. sendEpoch["client"] = epochCounter["client"]
        BY CounterFacts
      <4> QED
        BY <4>1, <4>2, <4>3
    <3> QED
      BY <1>3, <3>1, <3>2
  <2>2. CASE SeenTx(m) # None
    <3>1. SeenTx(m).epoch = epochCounter["server"]
      BY <2>2, ServerSeesTx
    <3>2. m.epoch = SeenTx(m).epoch
      BY <2>2 DEF MayStart
    <3> QED
      BY <1>3, <3>1, <3>2
  <2> QED
    BY <2>1, <2>2
<1>5. AsksFor(m.body)
  BY <1>2, <1>4 DEF KeyInv, RequestsCurrent
<1>6. ~(tx # None /\ m.body = tx.request)
  BY ServerSeesKeys DEF MayStart, SameRequest
<1>7. pending # None /\ m.body = InitOf(pending)
  BY <1>5, <1>6 DEF AsksFor
<1>8. Newest("server") = Newest("client")
  BY <1>3, NewestFacts DEF KeyInv, KeyAgreement, Newest, Node
<1> QED
  BY <1>2, <1>7, <1>8 DEF InitOf, RekeyInit

(* A request that is taken up: the new keys are derived from those both    *)
(* ends have in use, with an ephemeral never answered before.              *)
LEMMA StartRekeyKeepsKeys ==
  ASSUME TypeInv, TypeInv', EpochInv, KeyInv, NEW m \in net, ServerStartRekey(m)
  PROVE  KeyInv'
<1> DEFINE s == SeenSm(m)
           epoch == epochCounter["server"] + 1
           pub == freshEph["server"]
           key == Derive(s.current.key, m.body.eph, pub)
           ack == RekeyAck(m.body.eph, pub)
           r == ring["server"]
           q == Insert(r, epoch, key)
<1>0. "server" \in Node /\ "client" \in Node
  BY DEF Node
<1>1. /\ m.to = "server" /\ m.body.kind = "init"
      /\ MayStart(SeenTx(m), m.body, m.epoch, s)
      /\ epochCounter["server"] < MaxEpoch
  <2>1. m.to = "server" /\ m.body.kind = "init" /\ MayStart(SeenTx(m), m.body, m.epoch, s)
    BY DEF ServerStartRekey, ServerAuthenticates, Opens
  <2>2. ~(epochCounter["server"] >= MaxEpoch)
    BY DEF ServerStartRekey, Stageable, EpochsExhausted
  <2>3. epochCounter["server"] \in Nat
    BY <1>0, NodeTypes
  <2> QED
    BY <2>1, <2>2, <2>3, BoundsAssumption
<1>2. /\ pending # None /\ m.body = InitOf(pending)
      /\ m.body.eph = pending.eph
      /\ ~ServerAhead
      /\ s.current.key = Newest("client")
      /\ s.current.key = Newest("server")
  BY <1>1, StartAnswersPending
<1>3. /\ epochCounter["server"] \in Nat /\ epochCounter["client"] = epochCounter["server"]
      /\ epoch \in Nat /\ pub \in Nat /\ m.body.eph \in Nat /\ s.current.key \in Key
      /\ r \in Seq(Entry) /\ r # << >> /\ SmOK(s)
  <2>1. epochCounter["server"] \in Nat /\ epochCounter["client"] = epochCounter["server"]
    BY <1>2, CounterFacts
  <2> QED
    BY <1>0, <2>1, SeenType, NodeTypes DEF SeenSm
<1>4. key \in Key /\ key # InitialKey /\ Requested(key) = pending.eph
  BY <1>2, <1>3, DeriveType, RequestedFacts
<1>5. /\ sm' = [sm EXCEPT !["server"] = RecordStaged(s, epoch, key)]
      /\ ring' = [ring EXCEPT !["server"] = q]
      /\ epochCounter' = [epochCounter EXCEPT !["server"] = epoch]
      /\ tx' = NewTransaction(m.body, ack, m.epoch, epoch)
      /\ freshEph' = [freshEph EXCEPT !["server"] = pub + 1]
      /\ reply' = ack
      /\ UNCHANGED <<pending, tun, net>>
  BY DEF ServerStartRekey
<1>6. /\ ring'["server"] = q /\ ring'["client"] = ring["client"]
      /\ epochCounter'["server"] = epoch /\ epochCounter'["client"] = epochCounter["client"]
      /\ freshEph'["client"] = freshEph["client"]
      /\ sm'["client"] = sm["client"]
      /\ sm'["server"].phase = "staged" /\ sm'["server"].staged.key = key
      /\ sm'["server"].current.key = s.current.key
  <2>1. /\ RecordStaged(s, epoch, key).phase = "staged"
        /\ RecordStaged(s, epoch, key).staged.key = key
        /\ RecordStaged(s, epoch, key).current = s.current
    <3> HIDE DEF s, epoch, key
    <3> QED
      BY <1>3, <1>4, StagedFacts, ZenonT(40)
  <2>2. sm'["server"] = RecordStaged(s, epoch, key)
    BY <1>5 DEF TypeInv, TypeOK, Node
  <2> QED
    BY <1>0, <1>5, <2>1, <2>2 DEF TypeInv, TypeOK
<1>7. /\ tx'.request = m.body /\ tx'.response = ack
      /\ ack.eph = m.body.eph /\ ack.pub = pub
      /\ tx' # None
  <2>1. /\ tx'.request = m.body /\ tx'.response = ack
        /\ ack.eph = m.body.eph /\ ack.pub = pub
    BY <1>5 DEF NewTransaction, RekeyAck
  <2>2. tx' # None
    <3>1. epochCounter'["server"] # 0
      BY <1>3, <1>6
    <3>2. EpochInv'
      BY StartRekeyKeepsEpochs
    <3> QED
      BY <3>1, <3>2 DEF EpochInv, TransactionOpen
  <2> QED
    BY <2>1, <2>2
<1>8. PICK d \in {0, 1} :
        \A i \in DOMAIN q : i # Len(q) => i + d \in DOMAIN r /\ q[i] = r[i + d]
  BY <1>3, <1>4, InsertEntries
<1>9. q[Len(q)] = [epoch |-> epoch, key |-> key] /\ DOMAIN q = 1 .. Len(q)
  <2>1. q[Len(q)] = [epoch |-> epoch, key |-> key] /\ q \in Seq(Entry)
    BY <1>3, <1>4, InsertEntries
  <2> HIDE DEF q
  <2> QED
    BY <2>1
<1>10. q[Len(q)].epoch = epoch /\ q[Len(q)].key = key
  BY <1>9
<1>11. /\ \A i \in DOMAIN r : r[i] \in Entry
       /\ \A i \in DOMAIN ring["client"] : ring["client"][i] \in Entry
       /\ \A i \in DOMAIN ring["client"] : ring["client"][i].epoch <= epochCounter["client"]
  BY <1>0, NewestFacts
<1>12. ServerAhead'
  BY <1>3, <1>6 DEF ServerAhead
<1> HIDE DEF s, epoch, pub, key, ack, r, q
<1>20. KeyAgreement'
  <2> SUFFICES ASSUME NEW i \in DOMAIN ring["client"], NEW j \in DOMAIN q,
                      ring["client"][i].epoch = q[j].epoch
               PROVE  ring["client"][i].key = q[j].key
    BY <1>6 DEF KeyAgreement
  <2>1. j # Len(q)
    <3> SUFFICES ASSUME j = Len(q) PROVE FALSE
      OBVIOUS
    <3>1. ring["client"][i].epoch = epochCounter["server"] + 1
      BY <1>10 DEF epoch
    <3> QED
      BY <1>3, <1>11, <3>1
  <2>2. j + d \in DOMAIN ring["server"] /\ q[j] = ring["server"][j + d]
    BY <1>8, <2>1 DEF r
  <2> QED
    BY <2>2 DEF KeyInv, KeyAgreement
<1>21. KeysInUse'
  <2>1. Newest("server")' = key /\ Newest("client")' = Newest("client")
    BY <1>6, <1>10 DEF Newest
  <2>2. key = Derive(sm'["server"].current.key, tx'.response.eph, tx'.response.pub)
    BY <1>6, <1>7 DEF key
  <2> QED
    BY <1>2, <1>6, <2>1, <2>2 DEF KeyInv, KeysInUse
<1>22. AcksAnswer'
  <2>1. ASSUME NEW k \in net, k.body.kind = "ack" PROVE k.epoch + 1 # epoch
    <3>1. k.epoch < epochCounter["server"] /\ k.epoch \in Nat
      BY <2>1 DEF EpochInv, AckBound, TypeInv, TypeOK, Datagram
    <3> QED
      BY <1>3, <3>1 DEF epoch
  <2> QED
    BY <1>5, <1>6, <1>7, <2>1 DEF AcksAnswer
<1>23. RequestsCurrent'
  <2>1. pending' # None /\ tx'.request = InitOf(pending')
    BY <1>2, <1>5, <1>7 DEF InitOf
  <2>2. tun'["client"].body.kind = "init" => tun'["client"].body = InitOf(pending')
    BY <1>2, <1>5 DEF KeyInv, RequestsCurrent, InitOf
  <2> QED
    BY <1>12, <2>1, <2>2 DEF RequestsCurrent
<1>24. RequestsFresh'
  <2>1. /\ pending.eph < freshEph["client"]
        /\ V2 => pending.base = Newest("client")
        /\ \A i \in DOMAIN r : r[i].key # InitialKey => Requested(r[i].key) < pending.eph
        /\ pending.eph \in Nat /\ freshEph["client"] \in Nat
    BY <1>0, <1>2, NodeTypes DEF KeyInv, RequestsFresh, r, TypeInv, TypeOK, Pending
  <2>2. \A i \in DOMAIN r : r[i].key # InitialKey => Requested(r[i].key) \in Nat
    BY <1>11, RequestedFacts DEF Entry
  <2>3. \A i \in DOMAIN q : i # Len(q) /\ q[i].key # InitialKey
          => Requested(q[i].key) < pending.eph /\ Requested(q[i].key) \in Nat
    BY <1>8, <2>1, <2>2
  <2>4. \A i \in DOMAIN q : q[i].key # InitialKey => Requested(q[i].key) < freshEph["client"]
    BY <1>4, <1>10, <2>1, <2>3
  <2>5. ASSUME NEW i \in DOMAIN q, NEW j \in DOMAIN q,
               q[i].key # InitialKey, q[j].key # InitialKey,
               Requested(q[i].key) = Requested(q[j].key)
        PROVE  i = j
    <3>1. i # Len(q) /\ j = Len(q) => FALSE
      BY <1>4, <1>10, <2>1, <2>3, <2>5
    <3>2. j # Len(q) /\ i = Len(q) => FALSE
      BY <1>4, <1>10, <2>1, <2>3, <2>5
    <3>3. ASSUME i # Len(q), j # Len(q) PROVE i = j
      <4>1. /\ i + d \in DOMAIN r /\ q[i] = r[i + d]
            /\ j + d \in DOMAIN r /\ q[j] = r[j + d]
        BY <1>8, <3>3
      <4>2. i + d = j + d
        BY <2>5, <4>1 DEF KeyInv, RequestsFresh, OneEpochPerRequest, Requested, r
      <4> QED
        BY <1>9, <4>2
    <3> QED
      BY <3>1, <3>2, <3>3
  <2>6. OneEpochPerRequest'
    BY <1>6, <2>5 DEF OneEpochPerRequest, Requested
  <2>7. Newest("client")' = Newest("client")
    BY <1>6 DEF Newest
  <2> QED
    BY <1>5, <1>6, <1>12, <2>1, <2>4, <2>6, <2>7 DEF RequestsFresh
<1>25. epochCounter'["server"] <= MaxEpoch
  BY <1>1, <1>3, <1>6, BoundsAssumption DEF epoch
<1> QED
  BY <1>20, <1>21, <1>22, <1>23, <1>24, <1>25 DEF KeyInv

(* An ack the client considers is the answer to its pending exchange: it   *)
(* travelled under the client's epoch, so the server is one ahead.         *)
LEMMA AckAnswersPending ==
  ASSUME TypeInv, EpochInv, KeyInv, NEW m \in net, ClientHandleAck(m)
  PROVE  /\ ServerAhead
         /\ pending # None /\ m.body = tx.response
         /\ m.body.eph = pending.eph
         /\ tx.response.eph = pending.eph
         /\ sm["client"].phase = "idle"
<1>1. pending # None /\ pending.carrier = m.epoch /\ m.body.kind = "ack"
  BY DEF ClientHandleAck, AckConsidered
<1>2. m.epoch \in Nat /\ m.epoch = epochCounter["client"] /\ sm["client"].phase = "idle"
  BY <1>1, SeenType, CounterFacts DEF EpochInv, CarrierStaysCurrent, Node
<1>3. m.epoch < epochCounter["server"]
  BY <1>1 DEF EpochInv, AckBound
<1>4. ServerAhead
  BY <1>2, <1>3 DEF ServerAhead
<1>5. epochCounter["server"] = m.epoch + 1 /\ tx # None
  BY <1>2, <1>4, CounterFacts
<1>6. m.body = tx.response /\ tx.response.eph = tx.request.eph
  BY <1>1, <1>5 DEF KeyInv, AcksAnswer
<1>7. tx.request = InitOf(pending)
  BY <1>4 DEF KeyInv, RequestsCurrent
<1>8. tx.request.eph = pending.eph
  BY <1>7 DEF InitOf, RekeyInit
<1> QED
  BY <1>1, <1>2, <1>4, <1>6, <1>8

(* With room for two epochs such an ack always installs. *)
LEMMA ConsideredAckInstalls ==
  ASSUME Capacity >= 2, TypeInv, EpochInv, KeyInv, NEW m \in net, ClientHandleAck(m)
  PROVE  AckInstalls(m)
<1>1. AckAuthentic(pending, m.body)
  BY AckAnswersPending DEF AckAuthentic
<1>2. /\ ReadyForRekey(ObservedActivated(sm["client"], m.epoch))
      /\ PromotedTo("client", m.epoch) = sendEpoch["client"]
  BY AckAnswersPending, SeenType, ClientSees DEF ReadyForRekey, Node
<1>3. ~EpochsExhausted("client")
  <2>1. /\ epochCounter["client"] \in Nat
        /\ epochCounter["server"] = epochCounter["client"] + 1
    BY AckAnswersPending, CounterFacts
  <2>2. epochCounter["server"] <= MaxEpoch
    BY DEF KeyInv
  <2> QED
    BY <2>1, <2>2, BoundsAssumption DEF EpochsExhausted
<1>4. ~WouldEvict("client", sendEpoch["client"])
  BY AckAnswersPending, IdleNeverEvicts DEF Node
<1> QED
  BY <1>1, <1>2, <1>3, <1>4 DEF AckInstalls, Stageable

(* What the client installs is what the server staged. *)
LEMMA InstallKeepsKeys ==
  ASSUME TypeInv, EpochInv, KeyInv, NEW m \in net, ClientHandleAck(m), AckInstalls(m)
  PROVE  KeyInv'
<1> DEFINE s == ObservedActivated(sm["client"], m.epoch)
           epoch == epochCounter["client"] + 1
           key == Derive(s.current.key, pending.eph, m.body.pub)
           r == ring["client"]
           u == Activated(RecordStaged(s, epoch, key), epoch)
           q == Insert(r, epoch, key)
<1>0. "server" \in Node /\ "client" \in Node
  BY DEF Node
<1>1. /\ ServerAhead
      /\ pending # None /\ m.body = tx.response
      /\ tx.response.eph = pending.eph
  BY AckAnswersPending
<1>2. /\ epochCounter["client"] \in Nat /\ epochCounter["server"] = epoch
      /\ sm["server"].phase = "staged" /\ tx # None
      /\ sendEpoch["client"] = epochCounter["client"]
  BY <1>1, CounterFacts
<1>3. /\ SmOK(s) /\ s.current = sm["client"].current
      /\ m.body.pub \in Nat /\ epoch \in Nat /\ s.current.key \in Key
      /\ r \in Seq(Entry) /\ r # << >>
  BY <1>0, <1>2, SeenType, NodeTypes, ClientSees
<1>4. key \in Key
  <2>1. pending.eph \in Nat
    BY <1>1 DEF TypeInv, TypeOK, Pending
  <2> QED
    BY <1>3, <2>1, DeriveType
<1>5. key = Newest("server")
  <2>1. /\ Newest("server") = Derive(sm["server"].current.key, tx.response.eph, tx.response.pub)
        /\ sm["server"].current.key = Newest("client")
        /\ sm["client"].current.key = Newest("client")
    BY <1>1, <1>2 DEF KeyInv, KeysInUse
  <2> QED
    BY <1>1, <1>3, <2>1
<1>6. /\ sm' = [sm EXCEPT !["client"] = u]
      /\ ring' = [ring EXCEPT !["client"] = q]
      /\ epochCounter' = [epochCounter EXCEPT !["client"] = epoch]
      /\ pending' = None
      /\ UNCHANGED <<tx, freshEph, tun, reply, net>>
  BY DEF ClientHandleAck
<1>7. u.current.key = key
  <2> HIDE DEF s, epoch, key
  <2>1. SmOK(s) /\ epoch \in Nat /\ key \in Key
    BY <1>3, <1>4
  <2> QED
    BY <2>1, StagedActivatedFacts
<1>8. /\ sm'["client"] = u /\ sm'["server"] = sm["server"]
      /\ ring'["client"] = q /\ ring'["server"] = ring["server"]
      /\ epochCounter'["client"] = epoch /\ epochCounter'["server"] = epochCounter["server"]
  BY <1>0, <1>6 DEF TypeInv, TypeOK
<1>9. PICK d \in {0, 1} :
        \A i \in DOMAIN q : i # Len(q) => i + d \in DOMAIN r /\ q[i] = r[i + d]
  BY <1>3, <1>4, InsertEntries
<1>10. q[Len(q)].epoch = epoch /\ q[Len(q)].key = key
  <2>1. q[Len(q)] = [epoch |-> epoch, key |-> key]
    BY <1>3, <1>4, InsertEntries
  <2> QED
    BY <2>1
<1>11. /\ ~ServerAhead'
       /\ Newest("server")' = Newest("server") /\ Newest("client")' = key
  BY <1>2, <1>3, <1>8, <1>10 DEF ServerAhead, Newest
<1> HIDE DEF s, epoch, key, r, u, q
<1>20. KeyAgreement'
  <2> SUFFICES ASSUME NEW i \in DOMAIN q, NEW j \in DOMAIN ring["server"],
                      q[i].epoch = ring["server"][j].epoch
               PROVE  q[i].key = ring["server"][j].key
    BY <1>8 DEF KeyAgreement
  <2>1. CASE i = Len(q)
    <3>1. ring["server"][j].epoch = epochCounter["server"]
      BY <1>2, <1>10, <2>1
    <3>2. j = Len(ring["server"])
      BY <1>0, <3>1, NewestFacts
    <3> QED
      BY <1>5, <1>10, <2>1, <3>2 DEF Newest
  <2>2. CASE i # Len(q)
    <3>1. i + d \in DOMAIN ring["client"] /\ q[i] = ring["client"][i + d]
      BY <1>9, <2>2 DEF r
    <3> QED
      BY <3>1 DEF KeyInv, KeyAgreement
  <2> QED
    BY <2>1, <2>2
<1>21. KeysInUse'
  BY <1>6, <1>7, <1>8, <1>11 DEF KeyInv, KeysInUse
<1>22. AcksAnswer'
  BY <1>6, <1>8 DEF KeyInv, AcksAnswer
<1>23. RequestsCurrent'
  <2>1. ASSUME NEW k \in net, k.to = "server" PROVE k.epoch # epoch
    <3>1. k.epoch <= sendEpoch["client"] /\ k.epoch \in Nat
      BY <2>1 DEF EpochInv, Awareness, TypeInv, TypeOK, Datagram
    <3> QED
      BY <1>2, <3>1 DEF epoch
  <2>2. tun["client"].body.kind = "init" => tun["client"].body = tx.request
    BY <1>1 DEF KeyInv, RequestsCurrent
  <2> QED
    BY <1>2, <1>6, <1>8, <1>11, <2>1, <2>2 DEF RequestsCurrent
<1>24. RequestsFresh'
  BY <1>6, <1>8 DEF KeyInv, RequestsFresh, OneEpochPerRequest
<1>25. epochCounter'["server"] <= MaxEpoch
  BY <1>8 DEF KeyInv
<1> QED
  BY <1>20, <1>21, <1>22, <1>23, <1>24, <1>25 DEF KeyInv

(* Both ends hold the keys of the handshake when the session begins. *)
LEMMA InitKeys == Init => KeyInv
<1> SUFFICES ASSUME Init PROVE KeyInv
  OBVIOUS
<1>1. /\ \A n \in Node : /\ ring[n] = << [epoch |-> 0, key |-> InitialKey] >>
                         /\ sm[n] = NewStateMachine /\ tun[n] = TunIdle
                         /\ epochCounter[n] = 0
      /\ pending = None /\ tx = None /\ reply = None /\ net = {}
      /\ "client" \in Node /\ "server" \in Node
  BY DEF Init, Node
<1>2. Newest("client") = InitialKey /\ Newest("server") = InitialKey
  BY <1>1 DEF Newest
<1>3. ~ServerAhead
  BY <1>1 DEF ServerAhead
<1>4. KeyAgreement
  BY <1>1 DEF KeyAgreement
<1>5. KeysInUse
  BY <1>1, <1>2, <1>3 DEF KeysInUse, NewStateMachine
<1>6. AcksAnswer
  BY <1>1 DEF AcksAnswer
<1>7. RequestsCurrent
  BY <1>1, <1>3 DEF RequestsCurrent, TunIdle, Plain
<1>8. RequestsFresh
  BY <1>1 DEF RequestsFresh, OneEpochPerRequest
<1> QED
  BY <1>1, <1>4, <1>5, <1>6, <1>7, <1>8, BoundsAssumption DEF KeyInv

(* Every step keeps the keys in agreement. *)
LEMMA KeyStep ==
  ASSUME Capacity >= 2
  PROVE  TypeInv /\ TypeInv' /\ EpochInv /\ KeyInv /\ [Next]_vars => KeyInv'
<1> SUFFICES ASSUME TypeInv, TypeInv', EpochInv, KeyInv, [Next]_vars PROVE KeyInv'
  OBVIOUS
<1>n. "client" \in Node /\ "server" \in Node
  BY DEF Node
<1>t. /\ tun \in [Node -> TunState]
      /\ sm \in [Node -> StateMachine]
      /\ \A n \in Node : tun[n].epoch \in Nat /\ tun[n].body \in Payload
  BY DEF TypeInv, TypeOK, TunState
<1>d. Plain("data").kind = "data" /\ Plain("ping").kind = "ping" /\ TunIdle.body.kind = "data"
  BY DEF TunIdle, Plain
<1>b. tun["client"].body.kind = "init" =>
        /\ pending # None => tun["client"].body = InitOf(pending)
        /\ pending = None => tx # None /\ tun["client"].body = tx.request
  BY DEF KeyInv, RequestsCurrent
<1>1. ASSUME NEW n \in Node, TunRead(n) PROVE KeyInv'
  <2>1. /\ UNCHANGED <<sm, ring, epochCounter, tx, pending, freshEph, reply, net>>
        /\ tun'["client"] = tun["client"] \/ tun'["client"].body.kind = "data"
    BY <1>1, <1>d, <1>n, <1>t DEF TunRead, control, exchange
  <2> QED
    BY <1>b, <2>1, KeyFrame
<1>2. ASSUME NEW n \in Node, TunSeal(n) PROVE KeyInv'
  <2> DEFINE k == Sealed(n, tun[n].epoch, tun[n].body)
  <2>1. /\ UNCHANGED <<sm, ring, epochCounter, tx, pending, freshEph, reply>>
        /\ tun'["client"] = tun["client"] \/ tun'["client"].body.kind = "data"
        /\ net' = net \cup {k}
    BY <1>2, <1>d, <1>n, <1>t DEF TunSeal, control, exchange
  <2>2. k \in Datagram /\ k.to = Peer(n) /\ k.body = tun[n].body
    BY <1>t, SealedType
  <2>3. k.body.kind # "ack"
    BY <2>2 DEF EpochInv, Roles, Node
  <2>4. k.to = "server" /\ k.body.kind = "init" => AsksFor(k.body)
    <3> SUFFICES ASSUME k.to = "server", k.body.kind = "init" PROVE AsksFor(k.body)
      OBVIOUS
    <3>1. n = "client"
      BY <2>2 DEF Node, Peer
    <3> QED
      BY <1>b, <2>2, <3>1 DEF AsksFor
  <2> HIDE DEF k
  <2> QED
    BY <1>b, <1>d, <2>1, <2>2, <2>3, <2>4, KeyFrame
<1>3. ASSUME BuildRekeyInit PROVE KeyInv'
  <2> DEFINE p == PendingForInit(pending, sm["client"], freshEph["client"])
  <2>1. /\ UNCHANGED <<sm, ring, epochCounter, tx, reply, net>>
        /\ pending' = p
        /\ tun'["client"].body = InitOf(p)
        /\ freshEph' = [freshEph EXCEPT !["client"] = IF pending = None THEN @ + 1 ELSE @]
    BY <1>3, <1>n, <1>t DEF BuildRekeyInit, control, InitOf
  <2>2. CASE pending # None
    <3>1. pending' = pending /\ freshEph' = freshEph
      BY <2>1, <2>2 DEF PendingForInit, TypeInv, TypeOK
    <3>2. tun'["client"].body = InitOf(pending')
      BY <2>1
    <3> QED
      BY <2>1, <2>2, <3>1, <3>2, KeyFrame
  <2>3. CASE pending = None
    <3>1. /\ p.eph = freshEph["client"]
          /\ V2 => p.base = sm["client"].current.key
          /\ p \in Pending
      <4>1. p = [eph |-> freshEph["client"], base |-> Prologue(sm["client"]),
                 carrier |-> sm["client"].current.epoch]
        BY <2>3 DEF PendingForInit
      <4>2. Prologue(sm["client"]) \in Key
        <5>1. InitialKey \in Key
          BY DEF InitialKey, Key
        <5> QED
          BY <1>n, <5>1, NodeTypes DEF Prologue, SmOK, StateMachine
      <4>3. freshEph["client"] \in Nat /\ sm["client"].current.epoch \in Nat
        BY <1>n, NodeTypes DEF SmOK, StateMachine
      <4>4. p \in Pending
        BY <4>1, <4>2, <4>3 DEF Pending
      <4> QED
        BY <4>1, <4>4 DEF Prologue
    <3>2. p # None
      BY <3>1, NoneAssumption
    <3>3. V2 => pending'.base = Newest("client")
      BY <2>1, <3>1 DEF KeyInv, KeysInUse
    <3>4. freshEph'["client"] = freshEph["client"] + 1
      BY <1>n, <2>1, <2>3 DEF TypeInv, TypeOK
    <3> HIDE DEF p
    <3>5. tun'["client"].body = InitOf(pending')
      BY <2>1
    <3> QED
      BY <2>1, <2>3, <3>1, <3>2, <3>3, <3>4, <3>5, KeyFrame
  <2> QED
    BY <2>2, <2>3
<1>4. ASSUME SendRekeyInit PROVE KeyInv'
  <2>1. /\ UNCHANGED <<sm, ring, epochCounter, tx, pending, freshEph, reply, net>>
        /\ tun'["client"].body = tun["client"].body
    BY <1>4, <1>n, <1>t DEF SendRekeyInit, control, exchange, TunState
  <2> QED
    BY <1>b, <2>1, KeyFrame
<1>5. ASSUME SendPing PROVE KeyInv'
  <2> DEFINE k == Sealed("client", sendEpoch["client"], Plain("ping"))
  <2>1. k \in Datagram /\ k.body = Plain("ping")
    BY <1>n, NodeTypes, PayloadTypes, SealedType
  <2>2. /\ UNCHANGED <<sm, ring, epochCounter, tx, pending, freshEph, reply, tun>>
        /\ net' = net \cup {k}
    BY <1>5 DEF SendPing, control, exchange
  <2>3. k.body.kind = "ping"
    BY <1>d, <2>1
  <2> HIDE DEF k
  <2> QED
    BY <1>b, <2>1, <2>2, <2>3, KeyFrame
<1>6. ASSUME SendReply PROVE KeyInv'
  <2> DEFINE k == Sealed("server", sendEpoch["server"], reply)
  <2>1. reply \in Payload /\ reply # None
    BY <1>6 DEF SendReply, TypeInv, TypeOK
  <2>2. k \in Datagram /\ k.to = "client" /\ k.body = reply
    BY <1>n, <2>1, NodeTypes, SealedType DEF Peer
  <2>3. /\ UNCHANGED <<sm, ring, epochCounter, tx, pending, freshEph, tun>>
        /\ net' = net \cup {k} /\ reply' = None
    BY <1>6 DEF SendReply, control, exchange
  <2>4. k.body.kind = "ack" => k.body = tx.response
    BY <2>1, <2>2 DEF KeyInv, AcksAnswer
  <2> HIDE DEF k
  <2> QED
    BY <1>b, <2>2, <2>3, <2>4, KeyFrame
<1>7. ASSUME NEW m \in net, ClientReceive(m) \/ ClientReceiveExhausted(m) PROVE KeyInv'
  <2>1. ObservedActivated(sm["client"], m.epoch).current = sm["client"].current
    BY <1>n, SeenType, ClientSees
  <2>2. /\ sm' = [sm EXCEPT !["client"] = ObservedActivated(@, m.epoch)]
        /\ UNCHANGED <<ring, epochCounter, tx, pending, freshEph, tun, reply, net>>
    BY <1>7 DEF ClientReceive, ClientReceiveExhausted, exchange
  <2>3. sm'["server"] = sm["server"] /\ sm'["client"].current = sm["client"].current
    BY <1>n, <1>t, <2>1, <2>2
  <2> QED
    BY <1>b, <2>2, <2>3, KeyFrame
<1>8. ASSUME NEW m \in net, ClientHandleAck(m) PROVE KeyInv'
  BY <1>8, ConsideredAckInstalls, InstallKeepsKeys
<1>9. ASSUME NEW m \in net, ServerReceive(m) PROVE KeyInv'
  <2>1. reply' # None => reply'.kind # "ack"
    BY <1>9, <1>d DEF ServerReceive
  <2> QED
    BY <1>9, <2>1, ServerSeesKeepsKeys DEF ServerReceive
<1>10. ASSUME NEW m \in net, ServerResendAck(m) PROVE KeyInv'
  <2>1. ServerAuthenticates(m) /\ SeenTx(m) # None /\ m.to = "server"
    BY <1>10 DEF ServerResendAck, MayResend, SameRequest, ServerAuthenticates, Opens
  <2>2. tx # None
    BY <2>1, ServerSeesKeys
  <2> QED
    BY <1>10, <2>1, <2>2, ServerSeesKeepsKeys DEF ServerResendAck
<1>11. ASSUME NEW m \in net, ServerStartRekey(m) PROVE KeyInv'
  BY <1>11, StartRekeyKeepsKeys
<1>12. ASSUME NEW m \in net, ServerDeclineInit(m) PROVE KeyInv'
  <2>1. reply' # None => reply'.kind # "ack"
    BY <1>12 DEF ServerDeclineInit, Plain
  <2> QED
    BY <1>12, <2>1, ServerSeesKeepsKeys DEF ServerDeclineInit
<1>13. CASE UNCHANGED vars
  BY <1>13, <1>b, KeyFrame DEF vars, control, exchange
<1> QED
  BY <1>1, <1>2, <1>3, <1>4, <1>5, <1>6, <1>7, <1>8, <1>9, <1>10, <1>11, <1>12, <1>13
     DEF Next, Deliver

(* With room for two epochs, what the keys of the two ends rest on holds   *)
(* whatever the network loses, repeats or reorders.                        *)
THEOREM KeyInvHolds ==
  ASSUME Capacity >= 2
  PROVE  Spec => []KeyInv
<1>1. Spec => []TypeInv /\ []EpochInv
  BY TypesHold, EpochsAligned, PTL
<1> QED
  BY <1>1, InitKeys, KeyStep, PTL DEF Spec

(* The two ends never hold different keys for one epoch number, although   *)
(* each numbers its epochs alone.                                          *)
THEOREM KeyAgreementHolds ==
  ASSUME Capacity >= 2
  PROVE  Spec => []KeyAgreement
<1>1. KeyInv => KeyAgreement
  BY DEF KeyInv
<1> QED
  BY <1>1, KeyInvHolds, PTL

(* The server stages at most one epoch for one request, however often the  *)
(* request arrives and under whatever epoch a late copy of it travels.     *)
THEOREM OneEpochPerRequestHolds ==
  ASSUME Capacity >= 2
  PROVE  Spec => []OneEpochPerRequest
<1>1. KeyInv => OneEpochPerRequest
  BY DEF KeyInv, RequestsFresh
<1> QED
  BY <1>1, KeyInvHolds, PTL

(* Under V2 an init the server may take up was built over the keys the     *)
(* server has in use when it arrives.                                      *)
THEOREM InitAnswerableHolds ==
  ASSUME Capacity >= 2
  PROVE  Spec => []InitAnswerable
<1>1. TypeInv /\ EpochInv /\ KeyInv => InitAnswerable
  <2> SUFFICES ASSUME TypeInv, EpochInv, KeyInv, NEW m \in net,
                      m.body.kind = "init", m.to = "server",
                      MayStart(SeenTx(m), m.body, m.epoch, SeenSm(m))
               PROVE  V2 => m.body.base = SeenSm(m).current.key
    BY DEF InitAnswerable, Answerable, Opens
  <2>1. /\ pending # None
        /\ m.body.base = pending.base
        /\ SeenSm(m).current.key = Newest("client")
    BY StartAnswersPending
  <2> QED
    BY <2>1 DEF KeyInv, RequestsFresh
<1> QED
  BY <1>1, TypesHold, EpochsAligned, KeyInvHolds, PTL
-----------------------------------------------------------------------------
(* The session implements EpochHandover. *)

(* The entry an end seals under is one both ends hold, and its newest when
   the send epoch is its newest; ends that count alike hold the same newest
   entry. *)
LEMMA HeldFacts ==
  TypeInv /\ EpochInv /\ KeyInv =>
    /\ \A n \in Node :
         /\ Latest[n] = [epoch |-> epochCounter[n], key |-> Newest(n)]
         /\ Latest[n] \in Held[n]
         /\ Sending[n] \in Held[n] /\ Sending[n] \in Held[Peer(n)]
         /\ sendEpoch[n] = epochCounter[n] => Sending[n] = Latest[n]
         /\ \A a \in Held[n] : a \in Entry
    /\ epochCounter["client"] = epochCounter["server"] => Latest["client"] = Latest["server"]
<1> SUFFICES ASSUME TypeInv, EpochInv, KeyInv
             PROVE  /\ \A n \in Node :
                         /\ Latest[n] = [epoch |-> epochCounter[n], key |-> Newest(n)]
                         /\ Latest[n] \in Held[n]
                         /\ Sending[n] \in Held[n] /\ Sending[n] \in Held[Peer(n)]
                         /\ sendEpoch[n] = epochCounter[n] => Sending[n] = Latest[n]
                         /\ \A a \in Held[n] : a \in Entry
                    /\ epochCounter["client"] = epochCounter["server"]
                         => Latest["client"] = Latest["server"]
  OBVIOUS
<1>n. "client" \in Node /\ "server" \in Node /\ \A n \in Node : Peer(n) \in Node
  BY DEF Node, Peer
<1>1. ASSUME NEW n \in Node
      PROVE  /\ Len(ring[n]) \in DOMAIN ring[n]
             /\ \A i \in DOMAIN ring[n] : ring[n][i] \in Entry
             /\ \A i \in DOMAIN ring[n] : ring[n][i].epoch = epochCounter[n] => i = Len(ring[n])
             /\ ring[n][Len(ring[n])].epoch = epochCounter[n]
  BY NewestFacts
<1>2. ASSUME NEW n \in Node PROVE Latest[n] = [epoch |-> epochCounter[n], key |-> Newest(n)]
  BY <1>1 DEF Latest, Newest, Entry
<1>3. ASSUME NEW n \in Node PROVE Latest[n] \in Held[n] /\ \A a \in Held[n] : a \in Entry
  BY <1>1 DEF Latest, Held
<1>4. ASSUME NEW n \in Node, NEW e, Resolvable(ring[n], e)
      PROVE  \E i \in DOMAIN ring[n] : /\ ring[n][i] = [epoch |-> e, key |-> KeyOf(ring[n], e)]
                                       /\ ring[n][i].epoch = e
  <2> DEFINE i == CHOOSE i \in DOMAIN ring[n] : ring[n][i].epoch = e
  <2>1. i \in DOMAIN ring[n] /\ ring[n][i].epoch = e
    BY <1>4 DEF Resolvable
  <2>2. KeyOf(ring[n], e) = ring[n][i].key
    BY DEF KeyOf
  <2> HIDE DEF i
  <2>3. ring[n][i] \in Entry
    BY <1>1, <2>1
  <2>4. ring[n][i] = [epoch |-> e, key |-> KeyOf(ring[n], e)]
    BY <2>1, <2>2, <2>3 DEF Entry
  <2> QED
    BY <2>1, <2>4
<1>5. ASSUME NEW n \in Node PROVE Sending[n] \in Held[n]
  BY <1>4, NodeNumbers DEF Sending, Held
<1>6. ASSUME NEW n \in Node PROVE Sending[n] \in Held[Peer(n)]
  <2>1. PICK i \in DOMAIN ring[n] : ring[n][i] = Sending[n] /\ ring[n][i].epoch = sendEpoch[n]
    BY <1>4, NodeNumbers DEF Sending
  <2>2. PICK j \in DOMAIN ring[Peer(n)] : ring[Peer(n)][j].epoch = sendEpoch[n]
    BY NodeNumbers DEF Resolvable
  <2>3. ring[Peer(n)][j].key = ring[n][i].key
    BY <2>1, <2>2 DEF KeyInv, KeyAgreement, Node, Peer
  <2>4. ring[Peer(n)][j] \in Entry /\ ring[n][i] \in Entry
    BY <1>1, <1>n, <2>1, <2>2
  <2>5. ring[Peer(n)][j] = ring[n][i]
    BY <2>1, <2>2, <2>3, <2>4 DEF Entry
  <2> QED
    BY <1>n, <2>1, <2>5 DEF Held
<1>7. ASSUME NEW n \in Node, sendEpoch[n] = epochCounter[n] PROVE Sending[n] = Latest[n]
  <2>1. PICK i \in DOMAIN ring[n] : ring[n][i] = Sending[n] /\ ring[n][i].epoch = sendEpoch[n]
    BY <1>4, NodeNumbers DEF Sending
  <2> QED
    BY <1>1, <1>7, <2>1 DEF Latest
<1>8. ASSUME epochCounter["client"] = epochCounter["server"] PROVE Latest["client"] = Latest["server"]
  <2>1. Newest("client") = Newest("server")
    BY <1>1, <1>8, <1>n DEF KeyInv, KeyAgreement, Newest
  <2> QED
    BY <1>2, <1>8, <1>n, <2>1
<1> QED
  BY <1>2, <1>3, <1>5, <1>6, <1>7, <1>8

(* What is in use at an end is in its ring. *)
LEMMA InUseIsHeld ==
  TypeInv /\ EpochInv /\ KeyInv => \A n \in Node : Handover!InUse(n) \subseteq Held[n]
<1> SUFFICES ASSUME TypeInv, EpochInv, KeyInv, NEW n \in Node
             PROVE  Handover!InUse(n) \subseteq Held[n]
  OBVIOUS
<1>1. Peer(n) \in Node /\ Peer(Peer(n)) = n /\ Handover!Other(n) = Peer(n)
  BY DEF Peer, Node, Handover!Other
<1>2. Latest[n] \in Held[n] /\ Sending[n] \in Held[n] /\ Sending[Peer(n)] \in Held[n]
  BY <1>1, HeldFacts
<1> QED
  BY <1>1, <1>2 DEF Handover!InUse

(* What a step may use of the state it leads to. *)
HandoverView ==
  /\ \A n \in Node : Handover!InUse(n) \subseteq Held[n]
  /\ \A n \in Node : /\ Sending[n] \in Held[n]
                     /\ sendEpoch[n] = epochCounter[n] => Sending[n] = Latest[n]
  /\ epochCounter["client"] = epochCounter["server"] => Latest["client"] = Latest["server"]

(* The invariants give that view. *)
LEMMA ViewHolds == TypeInv /\ EpochInv /\ KeyInv => HandoverView
BY HeldFacts, InUseIsHeld DEF HandoverView

(* So a step keeps what is in use when its rings do. *)
LEMMA RingKeeps ==
  ASSUME NEW n \in Node, NEW added, HandoverView',
         Held'[n] \subseteq Held[n] \cup added,
         Held'[Peer(n)] = Held[Peer(n)]
  PROVE  Handover!Keeps(n, added)
<1>1. Peer(n) \in Node /\ Handover!Other(n) = Peer(n)
  BY DEF Peer, Node, Handover!Other
<1>2. Handover!InUse(n)' \subseteq Held'[n]
  BY DEF HandoverView
<1> HIDE DEF Handover!InUse
<1> QED
  BY <1>1, <1>2 DEF Handover!Keeps

(* A ring after Insert: the new entry, and entries it had. *)
LEMMA InsertHeld ==
  ASSUME TypeInv, NEW n \in Node, NEW e \in Nat, NEW key \in Key,
         ring' = [ring EXCEPT ![n] = Insert(@, e, key)]
  PROVE  /\ Latest'[n] = [epoch |-> e, key |-> key]
         /\ Held'[n] \subseteq Held[n] \cup {Latest'[n]}
         /\ Held'[Peer(n)] = Held[Peer(n)] /\ Latest'[Peer(n)] = Latest[Peer(n)]
<1> DEFINE q == Insert(ring[n], e, key)
<1>1. ring[n] \in Seq(Entry) /\ ring[n] # << >>
  BY NodeTypes
<1>2. /\ q[Len(q)] = [epoch |-> e, key |-> key]
      /\ \E d \in {0, 1} :
           \A i \in DOMAIN q : i # Len(q) => i + d \in DOMAIN ring[n] /\ q[i] = ring[n][i + d]
  BY <1>1, InsertEntries
<1>3. /\ ring'[n] = q /\ ring'[Peer(n)] = ring[Peer(n)]
      /\ Peer(n) \in Node
  BY DEF TypeInv, TypeOK, Node, Peer
<1> HIDE DEF q
<1>4. \A i \in DOMAIN q : q[i] = q[Len(q)] \/ \E j \in DOMAIN ring[n] : q[i] = ring[n][j]
  BY <1>2
<1>5. /\ Latest'[n] = q[Len(q)]
      /\ Held'[n] = {q[i] : i \in DOMAIN q} /\ Held[n] = {ring[n][i] : i \in DOMAIN ring[n]}
  BY <1>3 DEF Latest, Held
<1>6. Held'[Peer(n)] = Held[Peer(n)] /\ Latest'[Peer(n)] = Latest[Peer(n)]
  BY <1>3 DEF Latest, Held
<1> QED
  BY <1>2, <1>4, <1>5, <1>6

(* A step that moves neither ring nor send epoch is none of the handover. *)
LEMMA HandoverRests ==
  ASSUME UNCHANGED <<ring, sendEpoch>>
  PROVE  UNCHANGED Handover!handoverVars
BY DEF Handover!handoverVars, Held, Latest, Sending

(* The server's receiving thread takes the staged epoch into use, or moves
   no epoch. *)
LEMMA ServerSwitchesOrRests ==
  ASSUME TypeInv, TypeInv', EpochInv, EpochInv', KeyInv, KeyInv', NEW m \in net, ServerAuthenticates(m),
         UNCHANGED <<ring, epochCounter>>, HandoverView'
  PROVE  Handover!ServerSwitches \/ UNCHANGED Handover!handoverVars
<1> DEFINE e == PromotedTo("server", m.epoch)
<1>n. "client" \in Node /\ "server" \in Node /\ Peer("server") = "client"
  BY DEF Node, Peer
<1>1. /\ sendEpoch' = [sendEpoch EXCEPT !["server"] = e] /\ e \in Nat
      /\ e \in {sendEpoch["server"], sendEpoch["server"] + 1}
      /\ SeenSm(m).phase \in {"idle", "staged"}
      /\ SeenSm(m).phase = "staged" => epochCounter["server"] = e + 1
      /\ SeenSm(m).phase = "idle" => epochCounter["server"] = e /\ epochCounter["client"] = e
  BY ServerSees
<1>2. /\ sendEpoch \in [Node -> Nat] /\ epochCounter["server"] \in Nat
      /\ epochCounter["server"] <= sendEpoch["server"] + 1
  <2>1. sendEpoch \in [Node -> Nat] /\ epochCounter["server"] \in Nat /\ sendEpoch["server"] \in Nat
    BY <1>n DEF TypeInv, TypeOK
  <2> QED
    BY <1>n, <2>1, NodeNumbers
<1> HIDE DEF e
<1>3. CASE e = sendEpoch["server"]
  <2>1. sendEpoch' = sendEpoch
    BY <1>1, <1>2, <1>3, <1>n
  <2> QED
    BY <2>1, HandoverRests
<1>4. CASE e = sendEpoch["server"] + 1
  <2>1. epochCounter["server"] = e /\ epochCounter["client"] = e
    BY <1>1, <1>2, <1>4, <1>n
  <2>2. sendEpoch'["server"] = e /\ sendEpoch'["client"] = sendEpoch["client"]
    BY <1>1, <1>2, <1>n
  <2>3. Held' = Held /\ Latest' = Latest /\ Sending'["client"] = Sending["client"]
    BY <1>n, <2>2 DEF Held, Latest, Sending
  <2>4. Sending'["server"] = Latest["server"]
    BY <1>n, <2>1, <2>2, <2>3 DEF HandoverView
  <2>5. Latest["client"] = Latest["server"]
    BY <2>1, HeldFacts
  <2>6. Sending["server"] # Latest["server"]
    <3>1. Latest["server"] = [epoch |-> epochCounter["server"], key |-> Newest("server")]
      BY <1>n, HeldFacts
    <3>2. Latest["server"].epoch = e
      BY <2>1, <3>1
    <3>3. Sending["server"].epoch = sendEpoch["server"]
      BY <1>n DEF Sending
    <3> QED
      BY <1>2, <1>4, <1>n, <3>2, <3>3
  <2>7. Sending' = [Sending EXCEPT !["server"] = Latest["server"]]
    BY <2>3, <2>4 DEF Sending, Node
  <2>8. Handover!Keeps("server", {})
    BY <1>n, <2>3, RingKeeps
  <2> QED
    BY <2>3, <2>5, <2>6, <2>7, <2>8 DEF Handover!ServerSwitches
<1> QED
  BY <1>1, <1>3, <1>4
(* A request that is taken up: the server installs the next entry, with a
   client that holds what it holds, and sends under the one before. *)
LEMMA StartInstalls ==
  ASSUME TypeInv, TypeInv', EpochInv, KeyInv, KeyInv', EpochInv', NEW m \in net, ServerStartRekey(m),
         HandoverView'
  PROVE  Handover!ServerInstalls
<1> DEFINE e == epochCounter["server"]
           base == SeenSm(m).current.key
           key == Derive(base, m.body.eph, freshEph["server"])
           new == [epoch |-> e + 1, key |-> key]
<1>n. "client" \in Node /\ "server" \in Node /\ Peer("server") = "client"
  BY DEF Node, Peer
<1>1. /\ ServerAuthenticates(m) /\ m.to = "server" /\ m.body.kind = "init"
      /\ MayStart(SeenTx(m), m.body, m.epoch, SeenSm(m))
      /\ SeenSm(m).phase = "idle"
      /\ ring' = [ring EXCEPT !["server"] = Insert(@, e + 1, key)]
  BY DEF ServerStartRekey, ServerAuthenticates, Opens, MayStart, ReadyForRekey
<1>2. /\ pending # None /\ m.body.eph = pending.eph /\ ~ServerAhead
      /\ m.body.eph \in Nat /\ freshEph["server"] \in Nat /\ e \in Nat
      /\ base \in Key
  BY <1>1, <1>n, StartAnswersPending, SeenType, NodeTypes DEF SmOK, StateMachine, SeenSm
<1>3. key \in Key /\ key # InitialKey /\ Requested(key) = pending.eph
  BY <1>2, DeriveType, RequestedFacts
<1>4. /\ sendEpoch' = [sendEpoch EXCEPT !["server"] = e]
      /\ epochCounter["client"] = e
  BY <1>1, ServerSees
<1> HIDE DEF e, base, key
<1>5. /\ Latest'["server"] = new
      /\ Held'["server"] \subseteq Held["server"] \cup {new}
      /\ Held'["client"] = Held["client"] /\ Latest'["client"] = Latest["client"]
  <2>1. e + 1 \in Nat
    BY <1>2
  <2>2. /\ Latest'["server"] = new
        /\ Held'["server"] \subseteq Held["server"] \cup {Latest'["server"]}
        /\ Held'[Peer("server")] = Held[Peer("server")]
        /\ Latest'[Peer("server")] = Latest[Peer("server")]
    BY <1>1, <1>3, <1>n, <2>1, InsertHeld
  <2> QED
    BY <1>n, <2>2
<1>6. /\ Latest["client"] = Latest["server"]
      /\ Latest["server"] = [epoch |-> e, key |-> Newest("server")]
  BY <1>4, <1>n, HeldFacts DEF e
<1>7. \A a \in Held["server"] : key # a.key
  <2> SUFFICES ASSUME NEW i \in DOMAIN ring["server"], ring["server"][i].key = key PROVE FALSE
    BY <1>n DEF Held
  <2>1. Requested(key) < pending.eph
    BY <1>2, <1>3 DEF KeyInv, RequestsFresh
  <2>2. pending.eph \in Nat
    BY <1>2
  <2> QED
    BY <1>3, <2>1, <2>2
<1>8. Sending' = [Sending EXCEPT !["server"] = Latest["server"]]
  <2>1. sendEpoch'["client"] = sendEpoch["client"] /\ ring'["client"] = ring["client"]
    BY <1>1, <1>4 DEF TypeInv, TypeOK, Node
  <2>2. Sending'["client"] = Sending["client"]
    BY <1>n, <2>1 DEF Sending
  <2>3. Sending'["server"].epoch = e
    BY <1>4, <1>n DEF Sending, TypeInv, TypeOK
  <2>4. Sending'["server"] \in Held["server"]
    <3>1. Sending'["server"] # new
      BY <1>2, <2>3
    <3> QED
      BY <1>5, <1>n, <3>1 DEF HandoverView
  <2>5. PICK i \in DOMAIN ring["server"] : Sending'["server"] = ring["server"][i]
    BY <1>n, <2>4 DEF Held
  <2>6. i = Len(ring["server"])
    BY <1>n, <2>3, <2>5, NewestFacts DEF e
  <2>7. Sending'["server"] = Latest["server"]
    BY <1>n, <2>5, <2>6 DEF Latest
  <2> QED
    BY <2>2, <2>7 DEF Sending, Node
<1>9. Latest' = [Latest EXCEPT !["server"] = Latest'["server"]]
  BY <1>5 DEF Latest, Node
<1>10. Handover!Keeps("server", {Latest'["server"]})
  BY <1>5, <1>n, RingKeeps
<1>11. /\ Latest'["server"].epoch = Latest["server"].epoch + 1
       /\ Latest'["server"].key = key
  BY <1>5, <1>6
<1> QED
  BY <1>6, <1>7, <1>8, <1>9, <1>10, <1>11 DEF Handover!ServerInstalls

(* The client installs what the server has staged. *)
LEMMA AckInstallsHandover ==
  ASSUME TypeInv, TypeInv', EpochInv, EpochInv', KeyInv, KeyInv', NEW m \in net,
         ClientHandleAck(m), AckInstalls(m), HandoverView'
  PROVE  Handover!ClientInstalls
<1> DEFINE e == epochCounter["client"] + 1
           base == ObservedActivated(sm["client"], m.epoch).current.key
           key == Derive(base, pending.eph, m.body.pub)
<1>n. "client" \in Node /\ "server" \in Node /\ Peer("client") = "server"
  BY DEF Node, Peer
<1>1. /\ ring' = [ring EXCEPT !["client"] = Insert(@, e, key)]
      /\ epochCounter' = [epochCounter EXCEPT !["client"] = e]
      /\ sendEpoch' = [sendEpoch EXCEPT !["client"] = e]
  BY DEF ClientHandleAck
<1>2. /\ ServerAhead /\ pending # None
      /\ epochCounter["client"] \in Nat /\ epochCounter["server"] = e
  BY AckAnswersPending, CounterFacts
<1>3. pending.eph \in Nat /\ m.body.pub \in Nat /\ base \in Key /\ e \in Nat
  <2>1. pending.eph \in Nat /\ e \in Nat
    BY <1>2 DEF TypeInv, TypeOK, Pending
  <2>2. m.epoch \in Nat /\ m.body.pub \in Nat
    BY <1>n, SeenType
  <2>3. SmOK(ObservedActivated(sm["client"], m.epoch))
    BY <2>2, ClientSees
  <2>4. base \in Key
    BY <2>3 DEF SmOK, StateMachine
  <2> QED
    BY <2>1, <2>2, <2>4
<1>4. key \in Key
  BY <1>3, DeriveType
<1> HIDE DEF e, base, key
<1>5. /\ Held'["client"] \subseteq Held["client"] \cup {Latest'["client"]}
      /\ Held'["server"] = Held["server"] /\ Latest'["server"] = Latest["server"]
  <2>1. /\ Held'["client"] \subseteq Held["client"] \cup {Latest'["client"]}
        /\ Held'[Peer("client")] = Held[Peer("client")]
        /\ Latest'[Peer("client")] = Latest[Peer("client")]
    BY <1>1, <1>3, <1>4, <1>n, InsertHeld
  <2> QED
    BY <1>n, <2>1
<1>6. /\ epochCounter'["client"] = e /\ epochCounter'["server"] = e
      /\ sendEpoch'["client"] = e /\ sendEpoch'["server"] = sendEpoch["server"]
      /\ ring'["server"] = ring["server"]
  BY <1>1, <1>2, <1>n DEF TypeInv, TypeOK
<1>7. Latest'["client"] = Latest["server"] /\ Sending'["client"] = Latest["server"]
  BY <1>5, <1>6, <1>n DEF HandoverView
<1>8. Latest["client"].epoch < Latest["server"].epoch
  <2>1. /\ Latest["client"] = [epoch |-> epochCounter["client"], key |-> Newest("client")]
        /\ Latest["server"] = [epoch |-> e, key |-> Newest("server")]
    BY <1>2, <1>n, HeldFacts
  <2> QED
    BY <1>2, <2>1 DEF e
<1>9. Latest' = [Latest EXCEPT !["client"] = Latest["server"]]
  BY <1>5, <1>7 DEF Latest, Node
<1>10. Sending' = [Sending EXCEPT !["client"] = Latest["server"]]
  <2>1. Sending'["server"] = Sending["server"]
    BY <1>6, <1>n DEF Sending
  <2> QED
    BY <1>7, <2>1 DEF Sending, Node
<1>11. Handover!Keeps("client", {Latest["server"]})
  BY <1>5, <1>7, <1>n, RingKeeps
<1> QED
  BY <1>8, <1>9, <1>10, <1>11 DEF Handover!ClientInstalls

(* With room for two epochs, the session is a handover of epochs: the      *)
(* server goes one epoch ahead under a key it does not hold, the client    *)
(* follows with that very entry, the server sends under it only then, and  *)
(* no entry in use is dropped.                                             *)
THEOREM HandoverImplemented ==
  ASSUME Capacity >= 2
  PROVE  Spec => ImplementsHandover
<1>1. Init => Handover!HandoverInit
  <2> SUFFICES ASSUME Init PROVE Handover!HandoverInit
    OBVIOUS
  <2> DEFINE first == [epoch |-> 0, key |-> InitialKey]
  <2>1. /\ ring = [n \in Node |-> << first >>] /\ sendEpoch = [n \in Node |-> 0]
    BY DEF Init
  <2>2. first.epoch = 0 /\ first.key = InitialKey
    OBVIOUS
  <2>3. KeyOf(<< first >>, 0) = InitialKey
    BY <2>2 DEF KeyOf
  <2> HIDE DEF first
  <2>4. DOMAIN << first >> = {1} /\ << first >>[1] = first /\ Len(<< first >>) = 1
    OBVIOUS
  <2>5. Held = [n \in Node |-> {first}]
    BY <2>1, <2>4 DEF Held
  <2>6. Latest = [n \in Node |-> first]
    BY <2>1, <2>4 DEF Latest
  <2>7. Sending = [n \in Node |-> first]
    BY <2>1, <2>3 DEF Sending, first
  <2> QED
    BY <2>5, <2>6, <2>7 DEF Handover!HandoverInit, Handover!End, Node, first
<1>2. TypeInv' /\ EpochInv' /\ KeyInv' => HandoverView'
  BY ViewHolds, PTL
<1>3. /\ TypeInv /\ EpochInv /\ KeyInv /\ TypeInv' /\ EpochInv' /\ KeyInv'
      /\ [Next]_vars
      => [Handover!HandoverNext]_Handover!handoverVars
  <2> SUFFICES ASSUME TypeInv, EpochInv, KeyInv, TypeInv', EpochInv', KeyInv', [Next]_vars
               PROVE  Handover!HandoverNext \/ UNCHANGED Handover!handoverVars
    OBVIOUS
  <2>1. CASE UNCHANGED <<ring, sendEpoch>>
    BY <2>1, HandoverRests
  <2>2. ASSUME NEW m \in net, ServerReceive(m) \/ ServerResendAck(m) \/ ServerDeclineInit(m)
        PROVE  Handover!HandoverNext \/ UNCHANGED Handover!handoverVars
    <3>1. ServerAuthenticates(m) /\ UNCHANGED <<ring, epochCounter>>
      BY <2>2 DEF ServerReceive, ServerResendAck, ServerDeclineInit
    <3> QED
      BY <1>2, <3>1, ServerSwitchesOrRests DEF Handover!HandoverNext
  <2>3. ASSUME NEW m \in net, ServerStartRekey(m) PROVE Handover!HandoverNext
    BY <1>2, <2>3, StartInstalls DEF Handover!HandoverNext
  <2>4. ASSUME NEW m \in net, ClientHandleAck(m) PROVE Handover!HandoverNext
    BY <1>2, <2>4, ConsideredAckInstalls, AckInstallsHandover DEF Handover!HandoverNext
  <2>5. ASSUME NEW m \in net, ClientReceive(m) \/ ClientReceiveExhausted(m)
        PROVE  UNCHANGED Handover!handoverVars
    <3>1. PromotedTo("client", m.epoch) = sendEpoch["client"]
      BY SeenType, ClientSees DEF Node
    <3>2. sendEpoch' = [sendEpoch EXCEPT !["client"] = PromotedTo("client", m.epoch)] /\ ring' = ring
      BY <2>5 DEF ClientReceive, ClientReceiveExhausted
    <3>3. sendEpoch' = sendEpoch
      BY <3>1, <3>2 DEF TypeInv, TypeOK
    <3> QED
      BY <3>2, <3>3, HandoverRests
  <2>6. CASE \/ \E n \in Node : TunRead(n) \/ TunSeal(n)
             \/ BuildRekeyInit \/ SendRekeyInit \/ SendPing \/ SendReply
             \/ UNCHANGED vars
    BY <2>1, <2>6
       DEF TunRead, TunSeal, BuildRekeyInit, SendRekeyInit, SendPing, SendReply, control, vars
  <2> QED
    BY <2>2, <2>3, <2>4, <2>5, <2>6 DEF Next, Deliver
<1>4. Spec => []TypeInv /\ []EpochInv /\ []KeyInv
  BY TypesHold, EpochsAligned, KeyInvHolds, PTL
<1> QED
  BY <1>1, <1>3, <1>4, PTL DEF Spec, ImplementsHandover, Handover!HandoverSpec
==============================================================================
