----------------------- MODULE RekeyCoordinatorProofs -----------------------
(***************************************************************************)
(* What the operations of the control plane return, for the proofs about   *)
(* sessions over UDP and over TCP.                                         *)
(***************************************************************************)
EXTENDS RekeyCoordinator, TLAPS

(* A control plane of the right type, with keys for its staged epoch. *)
SmOK(s) == s \in StateMachine /\ (s.phase = "staged" => s.staged.key \in Key)

(* The larger of two epochs. *)
Larger(a, b) == IF a > b THEN a ELSE b

(* What the ends send are payloads. *)
LEMMA PayloadTypes ==
  /\ \A k \in Kind : Plain(k) \in Payload
  /\ \A eph \in Nat, base \in Key : RekeyInit(eph, base) \in Payload
  /\ \A eph, pub \in Nat : RekeyAck(eph, pub) \in Payload
  /\ Plain("data") \in Payload /\ Plain("ping") \in Payload /\ Plain("exhausted") \in Payload
<1>1. InitialKey \in Key
  BY DEF InitialKey, Key
<1> QED
  BY <1>1 DEF Plain, RekeyInit, RekeyAck, Payload, Kind

(* A derived key is a key. *)
LEMMA DeriveType ==
  ASSUME NEW base \in Key, NEW eph \in Nat, NEW pub \in Nat
  PROVE  Derive(base, eph, pub) \in Key
<1>1. <<eph, pub>> \in Nat \X Nat
  OBVIOUS
<1>2. << <<eph, pub>> >> \in Seq(Nat \X Nat)
  BY <1>1
<1>3. Append(base, <<eph, pub>>) \in Seq(Nat \X Nat)
  BY <1>1 DEF Key
<1> QED
  BY <1>2, <1>3 DEF Derive, Key

(* StartRekey stages the epoch and keeps the rest. *)
LEMMA StagedFacts ==
  ASSUME NEW s, SmOK(s), NEW e \in Nat, NEW key \in Key
  PROVE  /\ SmOK(RecordStaged(s, e, key))
         /\ RecordStaged(s, e, key).phase = "staged"
         /\ RecordStaged(s, e, key).staged.epoch = e
         /\ RecordStaged(s, e, key).staged.key = key
         /\ RecordStaged(s, e, key).current = s.current
         /\ RecordStaged(s, e, key).maxObserved = s.maxObserved
BY DEF SmOK, StateMachine, RecordStaged, Phase

(* ObservePeerEpoch raises the highest epoch seen and keeps the rest. *)
LEMMA RecordObservedFacts ==
  ASSUME NEW s \in StateMachine, NEW e \in Nat
  PROVE  LET t == RecordObserved(s, e)
         IN  /\ t \in StateMachine
             /\ t.maxObserved = Larger(e, s.maxObserved)
             /\ t.current = s.current /\ t.staged = s.staged /\ t.phase = s.phase
BY DEF RecordObserved, StateMachine, Larger

(* ActivateSendEpoch makes the staged keys the current ones. *)
LEMMA RecordActivatedFacts ==
  ASSUME NEW s \in StateMachine, s.staged.key \in Key
  PROVE  LET t == RecordActivated(s)
         IN  /\ t \in StateMachine
             /\ t.current = s.staged /\ t.phase = "retiring" /\ t.maxObserved = s.maxObserved
BY DEF RecordActivated, StateMachine, Phase

(* retirePreviousEpochLocked ends the transition or leaves it alone. *)
LEMMA RetirePreviousFacts ==
  ASSUME NEW s \in StateMachine, NEW releases \in BOOLEAN
  PROVE  LET t == RetirePrevious(s, releases)
         IN  /\ t \in StateMachine
             /\ t.current = s.current /\ t.staged = s.staged /\ t.maxObserved = s.maxObserved
             /\ t.phase = IF DueForRetirement(s) /\ releases THEN "idle" ELSE s.phase
BY DEF RetirePrevious, StateMachine, Phase

(* The transaction keeps its type when an epoch is seen or activated. *)
LEMMA TxKeepsType ==
  ASSUME NEW t \in Transaction \cup {None}, NEW e \in Nat
  PROVE  /\ TxObserved(t, e) \in Transaction \cup {None}
         /\ TxActivated(t, e) \in Transaction \cup {None}
BY DEF TxObserved, TxActivated, Transaction
=============================================================================
