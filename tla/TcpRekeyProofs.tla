--------------------------- MODULE TcpRekeyProofs ---------------------------
(***************************************************************************)
(* A TCP session for every last epoch and any number of frames on the      *)
(* wire.  With answers of any delay: the control plane and the crypto      *)
(* agree (TcpInv), and a retired epoch is drained (WireInv).  Where an ack *)
(* that installs an epoch answers what was asked (OwnAck), which V2 checks *)
(* and a fast link sees to under V1 (FastInv): both ends hold the same     *)
(* keys (ExchangeInv, OneKeyPerEpoch), the session is a handover of epochs *)
(* (HandoverImplemented), and on the fast link every frame opens.          *)
(***************************************************************************)
EXTENDS TcpRekeyInv, RekeyCoordinatorProofs

(* The invariant is stronger than the property. *)
LEMMA TcpInvSuffices == TcpInv => ControlPlaneMatchesCrypto
BY DEF TcpInv, EndsInStep, EndInStep, ExchangeTypes, ControlPlaneMatchesCrypto, TypesMatch

(* ObservePeerEpoch at one end. *)
LEMMA SeesInStep ==
  ASSUME NEW n, NEW e \in Nat, EndInStep(sm[n], previous[n], send[n], newest[n])
  PROVE  EndInStep(ObservedSm(n, e), PreviousAfter(n, e), send[n], newest[n])
<1> DEFINE o == RecordObserved(sm[n], e)
           r == Releases(previous[n], send[n], newest[n])
<1>1. /\ o \in StateMachine
      /\ o.current = sm[n].current /\ o.staged = sm[n].staged /\ o.phase = sm[n].phase
  BY RecordObservedFacts DEF EndInStep
<1>2. r \in BOOLEAN
  BY DEF Releases
<1>3. ObservedSm(n, e) = RetirePrevious(o, r) /\ (RetiresNow(n, e) <=> DueForRetirement(o) /\ r)
  BY DEF ObservedSm, RetiresNow
<1> HIDE DEF o, r
<1>4. /\ ObservedSm(n, e) \in StateMachine
      /\ ObservedSm(n, e).current = sm[n].current /\ ObservedSm(n, e).staged = sm[n].staged
      /\ ObservedSm(n, e).phase = IF RetiresNow(n, e) THEN "idle" ELSE sm[n].phase
  <2>1. LET t == RetirePrevious(o, r)
        IN  /\ t \in StateMachine
            /\ t.current = o.current /\ t.staged = o.staged
            /\ t.phase = IF DueForRetirement(o) /\ r THEN "idle" ELSE o.phase
    BY <1>1, <1>2, RetirePreviousFacts
  <2> QED
    BY <1>1, <1>3, <2>1
<1>5. RetiresNow(n, e) => sm[n].phase = "retiring"
  BY <1>1, <1>3 DEF DueForRetirement
<1> QED
  BY <1>4, <1>5 DEF EndInStep, PreviousAfter

(* StageEpoch and StartRekey at an idle end. *)
LEMMA StagesInStep ==
  ASSUME NEW s, NEW snd, NEW new, EndInStep(s, None, snd, new), NEW e \in Nat, NEW k \in Key
  PROVE  EndInStep(RecordStaged(s, e, k), new, snd, [epoch |-> e, key |-> k])
<1>1. SmOK(s) /\ s.phase = "idle" /\ snd = new
  BY DEF EndInStep, SmOK
<1>2. /\ RecordStaged(s, e, k) \in StateMachine /\ RecordStaged(s, e, k).phase = "staged"
      /\ RecordStaged(s, e, k).staged = [epoch |-> e, key |-> k]
      /\ RecordStaged(s, e, k).current = s.current
  BY <1>1, StagedFacts DEF SmOK, RecordStaged, StateMachine
<1> QED
  BY <1>1, <1>2, NoEntryAssumption DEF EndInStep, Entry

(* ActivateSendEpoch at a staged end. *)
LEMMA ActivatesInStep ==
  ASSUME NEW s, NEW prev, NEW snd, NEW new, EndInStep(s, prev, snd, new), s.phase = "staged"
  PROVE  EndInStep(RetirePrevious(RecordActivated(s), TRUE),
                   IF DueForRetirement(RecordActivated(s)) THEN None ELSE prev, new, new)
<1> DEFINE a == RecordActivated(s)
<1>1. s \in StateMachine /\ s.staged = new /\ s.staged.key \in Key /\ prev \in Entry
  BY DEF EndInStep, Entry
<1>2. a \in StateMachine /\ a.current = new /\ a.phase = "retiring"
  BY <1>1, RecordActivatedFacts
<1> HIDE DEF a
<1>3. /\ RetirePrevious(a, TRUE) \in StateMachine /\ RetirePrevious(a, TRUE).current = new
      /\ RetirePrevious(a, TRUE).phase = IF DueForRetirement(a) THEN "idle" ELSE "retiring"
  BY <1>2, RetirePreviousFacts
<1> QED
  BY <1>1, <1>3, NoEntryAssumption DEF EndInStep, a

(* A step of one end leaves the other in step. *)
LEMMA OneEndMoves ==
  ASSUME EndsInStep, NEW n \in Node,
         sm' = [sm EXCEPT ![n] = sm'[n]], previous' = [previous EXCEPT ![n] = previous'[n]],
         send' = [send EXCEPT ![n] = send'[n]], newest' = [newest EXCEPT ![n] = newest'[n]],
         EndInStep(sm'[n], previous'[n], send'[n], newest'[n])
  PROVE  EndsInStep'
BY DEF EndsInStep, EndInStep

(* An end that only sees the peer's epoch. *)
LEMMA OneEndSees ==
  ASSUME EndsInStep, NEW n \in Node, NEW e \in Nat,
         sm' = [sm EXCEPT ![n] = ObservedSm(n, e)],
         previous' = [previous EXCEPT ![n] = PreviousAfter(n, e)],
         UNCHANGED <<newest, send>>
  PROVE  EndsInStep'
<1>1. EndInStep(ObservedSm(n, e), PreviousAfter(n, e), send[n], newest[n])
  BY SeesInStep DEF EndsInStep
<1>2. /\ sm' = [sm EXCEPT ![n] = sm'[n]] /\ previous' = [previous EXCEPT ![n] = previous'[n]]
      /\ send' = [send EXCEPT ![n] = send'[n]] /\ newest' = [newest EXCEPT ![n] = newest'[n]]
      /\ sm'[n] = ObservedSm(n, e) /\ previous'[n] = PreviousAfter(n, e)
      /\ send'[n] = send[n] /\ newest'[n] = newest[n]
  BY DEF EndsInStep
<1> QED
  BY <1>1, <1>2, OneEndMoves

(* A frame that is taken is a frame, and what remains are frames. *)
LEMMA Taken ==
  ASSUME ExchangeTypes, NEW n \in Node, Take(n)
  PROVE  /\ Head(wire[n]) \in Frame
         /\ wire' \in [Node -> Seq(Frame)]
<1>1. wire[n] \in Seq(Frame) /\ wire[n] # << >>
  BY DEF ExchangeTypes, Take
<1>2. Head(wire[n]) \in Frame /\ Tail(wire[n]) \in Seq(Frame)
  BY <1>1
<1> QED
  BY <1>2 DEF ExchangeTypes, Take

(* A frame that is written is a frame. *)
LEMMA Written ==
  ASSUME EndsInStep, ExchangeTypes, NEW n \in Node, NEW body \in Payload, Write(n, body)
  PROVE  wire' \in [Node -> Seq(Frame)]
<1>1. Sealed(n, body) \in Frame
  BY DEF EndsInStep, Sealed, Entry, Frame
<1>2. Peer(n) \in Node /\ wire[Peer(n)] \in Seq(Frame)
  BY DEF ExchangeTypes, Peer, Node
<1>3. Append(wire[Peer(n)], Sealed(n, body)) \in Seq(Frame)
  BY <1>1, <1>2
<1> QED
  BY <1>2, <1>3 DEF ExchangeTypes, Write

(* A new session is in step. *)
LEMMA InitInStep == Init => TcpInv
<1> SUFFICES ASSUME Init PROVE TcpInv
  OBVIOUS
<1> DEFINE first == [epoch |-> 0, key |-> InitialKey]
<1>1. InitialKey \in Key /\ first \in Entry
  BY DEF InitialKey, Key, Entry
<1>2. NewStateMachine \in StateMachine /\ NewStateMachine.current = first
      /\ NewStateMachine.phase = "idle"
  BY <1>1 DEF NewStateMachine, StateMachine, Phase
<1>3. EndInStep(NewStateMachine, None, first, first)
  BY <1>1, <1>2 DEF EndInStep
<1>4. EndsInStep
  <2> HIDE DEF first
  <2>1. /\ sm = [n \in Node |-> NewStateMachine] /\ newest = [n \in Node |-> first]
        /\ previous = [n \in Node |-> None] /\ send = [n \in Node |-> first]
    BY DEF Init, first
  <2> QED
    BY <1>1, <1>2, <1>3, <2>1 DEF EndsInStep
<1>5. wire \in [Node -> Seq(Frame)]
  BY DEF Init
<1> QED
  BY <1>4, <1>5 DEF Init, TcpInv, ExchangeTypes

(* What a frame brings keeps the threads' types. *)
LEMMA FrameTypes ==
  ASSUME NEW f \in Frame
  PROVE  /\ f.epoch \in Nat /\ f.body \in Payload
         /\ f.body.eph \in Nat /\ f.body.pub \in Nat /\ f.body.kind \in Kind
BY DEF Frame, Payload

(* The client's init and what it remembers of it. *)
LEMMA BuildInStep == TcpInv /\ BuildRekeyInit => TcpInv'
<1> SUFFICES ASSUME TcpInv, BuildRekeyInit PROVE TcpInv'
  OBVIOUS
<1> DEFINE p == PendingForInit(pending, sm["client"], freshEph["client"])
<1>1. EndsInStep' /\ "client" \in Node
  BY DEF TcpInv, EndsInStep, BuildRekeyInit, crypto, Node
<1>2. sm["client"].current.key \in Key /\ sm["client"].current.epoch \in Nat
      /\ freshEph["client"] \in Nat
  BY <1>1 DEF TcpInv, EndsInStep, ExchangeTypes, StateMachine
<1>3. Prologue(sm["client"]) \in Key
  BY <1>2 DEF Prologue, InitialKey, Key
<1>4. p \in Pending
  BY <1>2, <1>3 DEF PendingForInit, TcpInv, ExchangeTypes, Pending
<1>5. p.eph \in Nat /\ p.base \in Key
  BY <1>4 DEF Pending
<1>6. RekeyInit(p.eph, p.base) \in Payload
  BY <1>5, PayloadTypes
<1> HIDE DEF p
<1>7. freshEph' \in [Node -> Nat]
  BY <1>1, <1>2 DEF TcpInv, ExchangeTypes, BuildRekeyInit
<1>8. pending' = p /\ built' = RekeyInit(p.eph, p.base)
  BY DEF BuildRekeyInit, p
<1> QED
  BY <1>1, <1>4, <1>6, <1>7, <1>8 DEF TcpInv, ExchangeTypes, BuildRekeyInit

(* HandleRekeyAck: the new epoch is staged and activated in one step. *)
LEMMA AckInStep == TcpInv /\ ClientHandleAck => TcpInv'
<1> SUFFICES ASSUME TcpInv, ClientHandleAck PROVE TcpInv'
  OBVIOUS
<1> DEFINE f == Head(wire["client"])
           seen == ObservedSm("client", f.epoch)
           prev == PreviousAfter("client", f.epoch)
           e == newest["client"].epoch + 1
           k == Derive(seen.current.key, pending.eph, f.body.pub)
           entry == [epoch |-> e, key |-> k]
<1>1. EndsInStep /\ ExchangeTypes /\ "client" \in Node /\ Take("client")
  BY DEF TcpInv, ClientHandleAck, Node
<1>2. f \in Frame /\ wire' \in [Node -> Seq(Frame)]
  BY <1>1, Taken
<1>3. f.epoch \in Nat /\ f.body.pub \in Nat
  BY <1>2, FrameTypes
<1>4. EndInStep(seen, prev, send["client"], newest["client"])
  <2> HIDE DEF f
  <2> QED
    BY <1>1, <1>3, SeesInStep DEF EndsInStep
<1>5. pending \in Pending /\ pending.eph \in Nat
  BY <1>1 DEF ClientHandleAck, AckConsidered, ExchangeTypes, Pending
<1>6. CASE AckInstalls(f)
  <2>1. seen.phase = "idle" /\ prev = None
    BY <1>6 DEF AckInstalls, ReadyForRekey
  <2>2. seen \in StateMachine /\ seen.current.key \in Key /\ e \in Nat
    BY <1>1, <1>4 DEF EndsInStep, EndInStep, Entry, StateMachine
  <2>3. k \in Key
    <3> HIDE DEF seen, f
    <3> QED
      BY <1>3, <1>5, <2>2, DeriveType
  <2> DEFINE st == RecordStaged(seen, e, k)
             moved == RecordActivated(st)
             left == IF DueForRetirement(moved) THEN None ELSE newest["client"]
  <2>4. EndInStep(st, newest["client"], send["client"], entry)
    <3> HIDE DEF seen, prev, e, k
    <3> QED
      BY <1>4, <2>1, <2>2, <2>3, StagesInStep
  <2>5. st.phase = "staged" /\ st.maxObserved = seen.maxObserved /\ st.staged = entry
    <3> HIDE DEF seen, e, k
    <3> QED
      BY <2>2 DEF RecordStaged, StateMachine
  <2>6. EndInStep(RetirePrevious(moved, TRUE), left, entry, entry)
    <3> HIDE DEF st, entry
    <3> QED
      BY <2>4, <2>5, ActivatesInStep
  <2>7. moved.phase = "retiring" /\ moved.maxObserved = seen.maxObserved /\ moved.current = entry
    <3>0. entry.key \in Key
      BY <2>3
    <3> HIDE DEF st, entry, e, k
    <3>1. st \in StateMachine /\ st.staged.key \in Key
      BY <2>4, <2>5, <3>0 DEF EndInStep
    <3> HIDE DEF seen
    <3> QED
      BY <2>5, <3>1, RecordActivatedFacts
  <2>8. left = IF seen.maxObserved >= entry.epoch THEN None ELSE newest["client"]
    <3> HIDE DEF moved, entry, seen
    <3> QED
      BY <2>7 DEF DueForRetirement
  <2>9. /\ sm' = [sm EXCEPT !["client"] = RetirePrevious(moved, TRUE)]
        /\ previous' = [previous EXCEPT !["client"] = left]
        /\ newest' = [newest EXCEPT !["client"] = entry]
        /\ send' = [send EXCEPT !["client"] = entry]
        /\ pending' = None /\ up' = up
    <3>1. previous' = [previous EXCEPT !["client"] =
            IF seen.maxObserved >= entry.epoch THEN None ELSE newest["client"]]
      BY <1>6 DEF ClientHandleAck
    <3> QED
      BY <1>6, <2>8, <3>1 DEF ClientHandleAck
  <2>10. EndsInStep'
    <3> HIDE DEF moved, left, entry
    <3>1. /\ sm'["client"] = RetirePrevious(moved, TRUE) /\ previous'["client"] = left
          /\ newest'["client"] = entry /\ send'["client"] = entry
      BY <1>1, <2>9 DEF EndsInStep
    <3> QED
      BY <1>1, <2>6, <2>9, <3>1, OneEndMoves
  <2> QED
    BY <1>1, <1>2, <2>9, <2>10 DEF TcpInv, ExchangeTypes, ClientHandleAck
<1>7. CASE ~AckInstalls(f)
  <2>1. /\ sm' = [sm EXCEPT !["client"] = seen] /\ previous' = [previous EXCEPT !["client"] = prev]
        /\ pending' \in {None, pending} /\ up' \in BOOLEAN /\ UNCHANGED <<newest, send>>
    BY <1>7 DEF ClientHandleAck
  <2>2. EndsInStep'
    BY <1>1, <1>3, <2>1, OneEndSees
  <2> QED
    BY <1>1, <1>2, <2>1, <2>2 DEF TcpInv, ExchangeTypes, ClientHandleAck
<1> QED
  BY <1>6, <1>7

(* The client's other steps on a frame. *)
LEMMA ClientInStep == TcpInv /\ (ClientReceive \/ ClientReceiveExhausted) => TcpInv'
<1> SUFFICES ASSUME TcpInv, ClientReceive \/ ClientReceiveExhausted PROVE TcpInv'
  OBVIOUS
<1> DEFINE f == Head(wire["client"])
<1>1. EndsInStep /\ ExchangeTypes /\ "client" \in Node /\ Take("client")
  BY DEF TcpInv, ClientReceive, ClientReceiveExhausted, Node
<1>2. f \in Frame /\ wire' \in [Node -> Seq(Frame)] /\ f.epoch \in Nat
  BY <1>1, Taken, FrameTypes
<1>3. /\ sm' = [sm EXCEPT !["client"] = ObservedSm("client", f.epoch)]
      /\ previous' = [previous EXCEPT !["client"] = PreviousAfter("client", f.epoch)]
      /\ UNCHANGED <<newest, send>> /\ up' \in BOOLEAN
  BY <1>1 DEF ClientReceive, ClientReceiveExhausted, ExchangeTypes
<1>4. EndsInStep'
  <2> HIDE DEF f
  <2> QED
    BY <1>1, <1>2, <1>3, OneEndSees
<1> QED
  BY <1>1, <1>2, <1>3, <1>4
  DEF TcpInv, ExchangeTypes, ClientReceive, ClientReceiveExhausted, exchange

(* handleFrame, whatever the body: what the server saw, and its transaction. *)
LEMMA ServerSees ==
  ASSUME TcpInv, ServerTakes
  PROVE  LET f == Head(wire["server"])
         IN  /\ f \in Frame /\ f.epoch \in Nat
             /\ f.body \in Payload /\ f.body.eph \in Nat
             /\ wire' \in [Node -> Seq(Frame)]
             /\ SeenTx(f) \in Transaction \cup {None}
             /\ EndInStep(ObservedSm("server", f.epoch), PreviousAfter("server", f.epoch),
                          send["server"], newest["server"])
<1> DEFINE f == Head(wire["server"])
<1>1. EndsInStep /\ ExchangeTypes /\ "server" \in Node /\ Take("server")
  BY DEF TcpInv, ServerTakes, Node
<1>2. f \in Frame /\ wire' \in [Node -> Seq(Frame)]
  BY <1>1, Taken
<1> HIDE DEF f
<1>3. f.epoch \in Nat /\ f.body \in Payload /\ f.body.eph \in Nat
  BY <1>2, FrameTypes
<1>4. SeenTx(f) \in Transaction \cup {None}
  BY <1>1, <1>3, TxKeepsType DEF ExchangeTypes, SeenTx
<1>5. EndInStep(ObservedSm("server", f.epoch), PreviousAfter("server", f.epoch),
                send["server"], newest["server"])
  BY <1>1, <1>3, SeesInStep DEF EndsInStep
<1> QED
  BY <1>2, <1>3, <1>4, <1>5 DEF f

(* The server's steps that leave its crypto as the frame left it. *)
LEMMA ServerAnswersInStep ==
  TcpInv /\ (ServerReceive \/ ServerResendAck \/ ServerDeclineInit) => TcpInv'
<1> SUFFICES ASSUME TcpInv, ServerReceive \/ ServerResendAck \/ ServerDeclineInit PROVE TcpInv'
  OBVIOUS
<1> DEFINE f == Head(wire["server"])
<1>1. EndsInStep /\ ExchangeTypes /\ "server" \in Node /\ ServerTakes
  BY DEF TcpInv, ServerReceive, ServerResendAck, ServerDeclineInit, Node
<1>2. /\ f.epoch \in Nat /\ wire' \in [Node -> Seq(Frame)]
      /\ SeenTx(f) \in Transaction \cup {None}
  BY <1>1, ServerSees
<1>3. /\ sm' = [sm EXCEPT !["server"] = ObservedSm("server", f.epoch)]
      /\ previous' = [previous EXCEPT !["server"] = PreviousAfter("server", f.epoch)]
      /\ UNCHANGED <<newest, send, pending, freshEph, built, up>> /\ tx' = SeenTx(f)
  BY DEF ServerReceive, ServerResendAck, ServerDeclineInit
<1>4. reply' \in Payload \cup {None} /\ promote' \in Nat \cup {None}
  <2>1. CASE ServerReceive
    BY <1>1, <2>1, PayloadTypes DEF ServerReceive, ExchangeTypes
  <2>2. CASE ServerResendAck
    <3>1. SeenTx(f) # None
      BY <2>2 DEF ServerResendAck, MayResend, SameRequest
    <3>2. SeenTx(f) \in Transaction
      BY <1>2, <3>1
    <3>3. SeenTx(f).response \in Payload /\ SeenTx(f).epoch \in Nat
      BY <3>2 DEF Transaction
    <3> QED
      BY <2>2, <3>3 DEF ServerResendAck
  <2>3. CASE ServerDeclineInit
    BY <1>1, <2>3, PayloadTypes DEF ServerDeclineInit, ExchangeTypes
  <2> QED
    BY <2>1, <2>2, <2>3
<1>5. EndsInStep'
  <2> HIDE DEF f
  <2> QED
    BY <1>1, <1>2, <1>3, OneEndSees
<1> QED
  BY <1>1, <1>2, <1>3, <1>4, <1>5 DEF TcpInv, ExchangeTypes

(* StartRekey at the server: the epoch is staged, the ack not yet out. *)
LEMMA StartInStep == TcpInv /\ ServerStartRekey => TcpInv'
<1> SUFFICES ASSUME TcpInv, ServerStartRekey PROVE TcpInv'
  OBVIOUS
<1> DEFINE f == Head(wire["server"])
           seen == ObservedSm("server", f.epoch)
           pub == freshEph["server"]
           e == newest["server"].epoch + 1
           k == Derive(seen.current.key, f.body.eph, pub)
           entry == [epoch |-> e, key |-> k]
           ack == RekeyAck(f.body.eph, pub)
<1>1. EndsInStep /\ ExchangeTypes /\ "server" \in Node /\ ServerTakes
  BY DEF TcpInv, ServerStartRekey, Node
<1>2. /\ f.epoch \in Nat /\ f.body \in Payload /\ f.body.eph \in Nat
      /\ wire' \in [Node -> Seq(Frame)]
      /\ EndInStep(seen, PreviousAfter("server", f.epoch), send["server"], newest["server"])
  BY <1>1, ServerSees
<1>3. PreviousAfter("server", f.epoch) = None
  BY DEF ServerStartRekey
<1>4. pub \in Nat /\ e \in Nat /\ seen.current.key \in Key
  BY <1>1, <1>2 DEF EndsInStep, EndInStep, ExchangeTypes, Entry, StateMachine
<1>5. k \in Key
  <2> HIDE DEF seen, f, pub
  <2> QED
    BY <1>2, <1>4, DeriveType
<1>6. EndInStep(RecordStaged(seen, e, k), newest["server"], send["server"], entry)
  <2> HIDE DEF seen, f, e, k
  <2> QED
    BY <1>2, <1>3, <1>4, <1>5, StagesInStep
<1>7. ack \in Payload
  BY <1>2, <1>4, PayloadTypes
<1>8. NewTransaction(f.body, ack, f.epoch, e) \in Transaction
  <2> HIDE DEF f, ack, e
  <2> QED
    BY <1>2, <1>4, <1>7 DEF NewTransaction, Transaction
<1>9. /\ sm' = [sm EXCEPT !["server"] = RecordStaged(seen, e, k)]
      /\ previous' = [previous EXCEPT !["server"] = newest["server"]]
      /\ newest' = [newest EXCEPT !["server"] = entry]
      /\ tx' = NewTransaction(f.body, ack, f.epoch, e)
      /\ freshEph' = [freshEph EXCEPT !["server"] = @ + 1]
      /\ reply' = ack /\ promote' = e
      /\ UNCHANGED <<send, pending, built, up>>
  BY DEF ServerStartRekey
<1> HIDE DEF f, seen, e, k, entry, ack
<1>10. EndsInStep'
  <2>1. /\ sm'["server"] = RecordStaged(seen, e, k) /\ previous'["server"] = newest["server"]
        /\ newest'["server"] = entry /\ send'["server"] = send["server"]
        /\ send' = [send EXCEPT !["server"] = send["server"]]
    BY <1>1, <1>9 DEF EndsInStep
  <2> QED
    BY <1>1, <1>6, <1>9, <2>1, OneEndMoves
<1>11. freshEph' \in [Node -> Nat]
  BY <1>1, <1>9 DEF ExchangeTypes
<1> QED
  BY <1>1, <1>2, <1>4, <1>7, <1>8, <1>9, <1>10, <1>11 DEF TcpInv, ExchangeTypes

(* ActivateSendEpoch at the server, or nothing when the epoch went by. *)
LEMMA ActivateInStep == TcpInv /\ ServerActivate => TcpInv'
<1> SUFFICES ASSUME TcpInv, ServerActivate PROVE TcpInv'
  OBVIOUS
<1> DEFINE s == sm["server"]
           moved == RecordActivated(s)
           new == newest["server"]
           prev == previous["server"]
           left == IF DueForRetirement(moved) THEN None ELSE prev
<1>1. EndsInStep /\ ExchangeTypes /\ "server" \in Node
      /\ EndInStep(s, prev, send["server"], new)
  BY DEF TcpInv, EndsInStep, Node
<1>2. EndsInStep'
  <2>1. CASE CanActivate(s, promote)
    <3>1. s.phase = "staged" /\ promote = s.staged.epoch
      BY <2>1 DEF CanActivate
    <3>2. s.staged = new /\ prev = send["server"] /\ prev # None
      BY <1>1, <3>1, NoEntryAssumption DEF EndInStep
    <3>3. EndInStep(RetirePrevious(moved, TRUE), left, new, new)
      <4> HIDE DEF s, new, prev
      <4> QED
        BY <1>1, <3>1, ActivatesInStep
    <3>4. send' = [send EXCEPT !["server"] = new] /\ send'["server"] = new
      <4>1. send' = [send EXCEPT !["server"] = IF new.epoch = promote THEN new ELSE @]
        BY <2>1 DEF ServerActivate
      <4> QED
        BY <1>1, <3>1, <3>2, <4>1 DEF EndsInStep
    <3>5. Releases(prev, send'["server"], new) = TRUE
      BY <3>2, <3>4 DEF Releases
    <3>6. /\ sm' = [sm EXCEPT !["server"] = RetirePrevious(moved, Releases(prev, send'["server"], new))]
          /\ previous' = [previous EXCEPT !["server"] =
               IF DueForRetirement(moved) /\ send'["server"] = new THEN None ELSE @]
          /\ newest' = newest
      BY <2>1 DEF ServerActivate
    <3> HIDE DEF s, new, moved
    <3>7. sm' = [sm EXCEPT !["server"] = RetirePrevious(moved, TRUE)]
          /\ previous' = [previous EXCEPT !["server"] = left]
      BY <1>1, <3>4, <3>5, <3>6 DEF EndsInStep
    <3>8. /\ sm'["server"] = RetirePrevious(moved, TRUE) /\ previous'["server"] = left
          /\ newest'["server"] = new /\ newest' = [newest EXCEPT !["server"] = new]
      BY <1>1, <3>6, <3>7 DEF EndsInStep, new
    <3> QED
      BY <1>1, <3>3, <3>4, <3>7, <3>8, OneEndMoves
  <2>2. CASE ~CanActivate(s, promote)
    BY <1>1, <2>2 DEF ServerActivate, EndsInStep
  <2> QED
    BY <2>1, <2>2
<1>3. promote \in Nat
  BY <1>1 DEF ServerActivate, ExchangeTypes
<1>4. tx' \in Transaction \cup {None}
  BY <1>1, <1>3, TxKeepsType DEF ServerActivate, ExchangeTypes
<1> QED
  BY <1>1, <1>2, <1>4 DEF TcpInv, ExchangeTypes, ServerActivate

(* The threads that only write, end the session, or find it ended. *)
LEMMA WriteInStep ==
  TcpInv /\ ((\E n \in Node : TunSend(n) \/ DecryptFails(n)) \/ SendPing \/ SendRekeyInit
             \/ SendReply \/ UNCHANGED vars) => TcpInv'
<1> SUFFICES ASSUME TcpInv PROVE
      ((\E n \in Node : TunSend(n) \/ DecryptFails(n)) \/ SendPing \/ SendRekeyInit
       \/ SendReply \/ UNCHANGED vars) => TcpInv'
  OBVIOUS
<1>1. EndsInStep /\ ExchangeTypes /\ "client" \in Node /\ "server" \in Node
  BY DEF TcpInv, Node
<1>2. ASSUME NEW n \in Node, TunSend(n) PROVE TcpInv'
  <2>1. wire' \in [Node -> Seq(Frame)]
    BY <1>1, <1>2, PayloadTypes, Written DEF TunSend
  <2> QED
    BY <1>1, <1>2, <2>1 DEF TunSend, TcpInv, EndsInStep, ExchangeTypes, crypto, exchange
<1>3. ASSUME NEW n \in Node, DecryptFails(n) PROVE TcpInv'
  <2>1. wire' \in [Node -> Seq(Frame)]
    BY <1>1, <1>3, Taken DEF DecryptFails
  <2> QED
    BY <1>1, <1>3, <2>1 DEF DecryptFails, TcpInv, EndsInStep, ExchangeTypes, crypto, exchange
<1>4. ASSUME SendPing PROVE TcpInv'
  <2>1. wire' \in [Node -> Seq(Frame)]
    BY <1>1, <1>4, PayloadTypes, Written DEF SendPing
  <2> QED
    BY <1>1, <1>4, <2>1 DEF SendPing, TcpInv, EndsInStep, ExchangeTypes, crypto, exchange
<1>5. ASSUME SendRekeyInit PROVE TcpInv'
  <2>1. wire' \in [Node -> Seq(Frame)]
    <3>1. built \in Payload
      BY <1>1, <1>5 DEF SendRekeyInit, ExchangeTypes
    <3> QED
      BY <1>1, <1>5, <3>1, Written DEF SendRekeyInit
  <2> QED
    BY <1>1, <1>5, <2>1 DEF SendRekeyInit, TcpInv, EndsInStep, ExchangeTypes, crypto, exchange
<1>6. ASSUME SendReply PROVE TcpInv'
  <2>1. wire' \in [Node -> Seq(Frame)]
    <3>1. reply \in Payload
      BY <1>1, <1>6 DEF SendReply, ExchangeTypes
    <3> QED
      BY <1>1, <1>6, <3>1, Written DEF SendReply
  <2> QED
    BY <1>1, <1>6, <2>1 DEF SendReply, TcpInv, EndsInStep, ExchangeTypes, crypto, exchange
<1>7. ASSUME UNCHANGED vars PROVE TcpInv'
  BY <1>1, <1>7 DEF vars, TcpInv, EndsInStep, ExchangeTypes, crypto, exchange
<1> QED
  BY <1>2, <1>3, <1>4, <1>5, <1>6, <1>7

(* The types and the phases hold always. *)
LEMMA TcpInvHolds == Spec => []TcpInv
<1>1. TcpInv /\ [Next]_vars => TcpInv'
  BY BuildInStep, AckInStep, ClientInStep, ServerAnswersInStep, StartInStep, ActivateInStep,
     WriteInStep DEF Next, Ended
<1> QED
  BY <1>1, InitInStep, PTL DEF Spec

(* TypesMatch and the agreement of control plane and crypto at either end: *)
(* state_machine.go and tcp/crypto.go never differ on the send epoch.      *)
THEOREM ControlPlaneHolds == Spec => []ControlPlaneMatchesCrypto
BY TcpInvHolds, TcpInvSuffices, PTL

-----------------------------------------------------------------------------
(* The wire.  Each direction is a queue of frames; first what one frame    *)
(* less or more does to its order.                                         *)

LEMMA FramesOfQueue ==
  ASSUME NEW q \in Seq(Frame)
  PROVE  /\ Len(q) \in Nat /\ DOMAIN q = 1..Len(q)
         /\ \A i \in DOMAIN q : q[i] \in Frame /\ q[i].epoch \in Nat /\ q[i].body \in Payload
<1>1. \A i \in DOMAIN q : q[i] \in Frame
  OBVIOUS
<1> QED
  BY <1>1 DEF Frame

(* The oldest frame leaves: its epoch bounds the others from below. *)
LEMMA TailInOrder ==
  ASSUME NEW q \in Seq(Frame), q # << >>, NEW low \in Nat, NEW seen \in Nat, NEW sent \in Nat,
         InOrder(q, low, seen, sent)
  PROVE  /\ Head(q).epoch \in Nat
         /\ low <= Head(q).epoch /\ seen <= Head(q).epoch /\ Head(q).epoch <= sent
         /\ InOrder(Tail(q), low, Head(q).epoch, sent) /\ InOrder(Tail(q), low, seen, sent)
<1>1. /\ Head(q) = q[1] /\ Len(q) \in Nat /\ 1 \in DOMAIN q
      /\ DOMAIN Tail(q) = 1..(Len(q) - 1)
      /\ \A i \in DOMAIN Tail(q) : Tail(q)[i] = q[i + 1] /\ i + 1 \in DOMAIN q
  OBVIOUS
<1>2. \A i \in DOMAIN q : q[i].epoch \in Nat
  BY FramesOfQueue
<1> QED
  BY <1>1, <1>2 DEF InOrder

(* A frame under the epoch of the sender joins at the end. *)
LEMMA AppendInOrder ==
  ASSUME NEW q \in Seq(Frame), NEW f \in Frame, NEW low \in Nat, NEW seen \in Nat,
         InOrder(q, low, seen, f.epoch)
  PROVE  InOrder(Append(q, f), low, seen, f.epoch)
<1>1. /\ Len(q) \in Nat /\ DOMAIN q = 1..Len(q) /\ DOMAIN Append(q, f) = 1..(Len(q) + 1)
      /\ \A i \in DOMAIN q : Append(q, f)[i] = q[i]
      /\ Append(q, f)[Len(q) + 1] = f
  OBVIOUS
<1>2. f.epoch \in Nat /\ \A i \in DOMAIN q : q[i].epoch \in Nat
  BY FramesOfQueue DEF Frame
<1>3. \A i \in DOMAIN Append(q, f) :
        \/ i \in DOMAIN q /\ Append(q, f)[i] = q[i]
        \/ i = Len(q) + 1 /\ Append(q, f)[i] = f
  BY <1>1
<1>4. \A i \in DOMAIN Append(q, f) :
        low <= Append(q, f)[i].epoch /\ seen <= Append(q, f)[i].epoch
        /\ Append(q, f)[i].epoch <= f.epoch
  BY <1>2, <1>3 DEF InOrder
<1>5. ASSUME NEW i \in DOMAIN Append(q, f), NEW j \in DOMAIN Append(q, f), i <= j
      PROVE  Append(q, f)[i].epoch <= Append(q, f)[j].epoch
  <2>1. CASE j = Len(q) + 1
    BY <1>1, <1>4, <2>1
  <2>2. CASE j # Len(q) + 1
    BY <1>1, <1>3, <1>5, <2>2 DEF InOrder
  <2> QED
    BY <2>1, <2>2
<1> QED
  BY <1>4, <1>5 DEF InOrder

(* A receiver may forget what the sender was seen to have left, and the *)
(* sender may move on. *)
LEMMA BoundsMove ==
  ASSUME NEW q \in Seq(Frame), NEW low \in Nat, NEW seen \in Nat, NEW sent \in Nat,
         InOrder(q, low, seen, sent),
         NEW above \in Nat, above <= low \/ above <= seen,
         NEW later \in Nat, sent <= later
  PROVE  InOrder(q, above, seen, later)
<1>1. \A i \in DOMAIN q : q[i].epoch \in Nat
  BY FramesOfQueue
<1> QED
  BY <1>1 DEF InOrder

(* What the types say of one end, in numbers. *)
LEMMA EndNumbers ==
  ASSUME TcpInv, NEW n \in Node
  PROVE  /\ Peer(n) \in Node /\ Peer(Peer(n)) = n /\ Peer(n) # n
         /\ wire[n] \in Seq(Frame)
         /\ newest[n] \in Entry /\ send[n] \in Entry /\ previous[n] \in Entry \cup {None}
         /\ newest[n].epoch \in Nat /\ send[n].epoch \in Nat
         /\ previous[n] # None => previous[n].epoch \in Nat
         /\ Oldest(previous[n], newest[n]) \in Nat
         /\ sm[n] \in StateMachine /\ sm[n].maxObserved \in Nat
         /\ EndInStep(sm[n], previous[n], send[n], newest[n])
<1>1. Peer(n) \in Node /\ Peer(Peer(n)) = n /\ Peer(n) # n
  BY DEF Peer, Node
<1>2. /\ newest[n] \in Entry /\ send[n] \in Entry /\ previous[n] \in Entry \cup {None}
      /\ sm[n] \in StateMachine /\ wire[n] \in Seq(Frame)
      /\ EndInStep(sm[n], previous[n], send[n], newest[n])
  BY DEF TcpInv, EndsInStep, ExchangeTypes
<1>3. /\ newest[n].epoch \in Nat /\ send[n].epoch \in Nat
      /\ previous[n] # None => previous[n].epoch \in Nat
  BY <1>2 DEF Entry
<1>4. sm[n].maxObserved \in Nat
  BY <1>2 DEF StateMachine
<1> QED
  BY <1>1, <1>2, <1>3, <1>4 DEF Oldest

(* A step at one end: its own direction stays in order, and its send epoch *)
(* does not go back. *)
LEMMA OneDirectionMoves ==
  ASSUME TcpInv, WireInv, NEW n \in Node,
         Adjacent(previous'[n], newest'[n]),
         InOrder(wire'[n], Oldest(previous'[n], newest'[n]), sm'[n].maxObserved, send[Peer(n)].epoch),
         send'[n].epoch \in Nat, send[n].epoch <= send'[n].epoch,
         send'[Peer(n)] = send[Peer(n)], sm'[Peer(n)] = sm[Peer(n)],
         previous'[Peer(n)] = previous[Peer(n)], newest'[Peer(n)] = newest[Peer(n)],
         wire'[Peer(n)] = wire[Peer(n)]
  PROVE  WireInv'
<1> DEFINE p == Peer(n)
<1>1. p \in Node /\ Peer(p) = n /\ \A m \in Node : m = n \/ m = p
  BY DEF Peer, Node
<1> HIDE DEF p
<1>2. /\ Adjacent(previous[p], newest[p])
      /\ InOrder(wire[p], Oldest(previous[p], newest[p]), sm[p].maxObserved, send[n].epoch)
  BY <1>1 DEF WireInv
<1>3. InOrder(wire[p], Oldest(previous[p], newest[p]), sm[p].maxObserved, send'[n].epoch)
  BY <1>1, <1>2, EndNumbers, BoundsMove, SMTT(30)
<1> QED
  BY <1>1, <1>2, <1>3 DEF WireInv, p

(* A frame that an end takes and lets its control plane see. *)
LEMMA SeenInOrder ==
  ASSUME TcpInv, WireInv, NEW n \in Node, Take(n)
  PROVE  LET f == Head(wire[n])
         IN  /\ f.epoch \in Nat
             /\ ObservedSm(n, f.epoch).maxObserved = f.epoch
             /\ Adjacent(PreviousAfter(n, f.epoch), newest[n])
             /\ PreviousAfter(n, f.epoch) = None => newest[n].epoch <= f.epoch
             /\ InOrder(wire'[n], Oldest(PreviousAfter(n, f.epoch), newest[n]), f.epoch,
                        send[Peer(n)].epoch)
             /\ wire'[Peer(n)] = wire[Peer(n)]
<1> DEFINE f == Head(wire[n])
           e == f.epoch
           low == Oldest(previous[n], newest[n])
           after == PreviousAfter(n, e)
           sent == send[Peer(n)].epoch
<1>1. /\ wire[n] \in Seq(Frame) /\ wire[n] # << >> /\ low \in Nat /\ sm[n].maxObserved \in Nat
      /\ sent \in Nat /\ newest[n].epoch \in Nat /\ sm[n] \in StateMachine
      /\ EndInStep(sm[n], previous[n], send[n], newest[n])
  BY EndNumbers DEF Take
<1>2. /\ Adjacent(previous[n], newest[n])
      /\ InOrder(wire[n], low, sm[n].maxObserved, sent)
  BY DEF WireInv
<1>3. /\ e \in Nat /\ low <= e /\ sm[n].maxObserved <= e /\ e <= sent
      /\ InOrder(Tail(wire[n]), low, e, sent) /\ Tail(wire[n]) \in Seq(Frame)
  <2> HIDE DEF low, sent
  <2> QED
    BY <1>1, <1>2, TailInOrder
<1>4. /\ wire'[n] = Tail(wire[n]) /\ wire'[Peer(n)] = wire[Peer(n)]
  BY EndNumbers DEF Take, TcpInv, ExchangeTypes
<1>5. ObservedSm(n, e).maxObserved = e
  <2> HIDE DEF e
  <2>1. /\ RecordObserved(sm[n], e) \in StateMachine
        /\ RecordObserved(sm[n], e).maxObserved = Larger(e, sm[n].maxObserved)
    BY <1>1, <1>3, RecordObservedFacts
  <2>2. Releases(previous[n], send[n], newest[n]) \in BOOLEAN
    BY DEF Releases
  <2> QED
    BY <1>1, <1>3, <2>1, <2>2, RetirePreviousFacts DEF ObservedSm, Larger
<1>6. after # previous[n] => after = None /\ newest[n].epoch <= e
  <2> SUFFICES ASSUME after # previous[n] PROVE after = None /\ newest[n].epoch <= e
    OBVIOUS
  <2> HIDE DEF e
  <2>1. after = None /\ RetiresNow(n, e)
    BY DEF PreviousAfter
  <2>2. /\ RecordObserved(sm[n], e).maxObserved = Larger(e, sm[n].maxObserved)
        /\ RecordObserved(sm[n], e).current = sm[n].current
    BY <1>1, <1>3, RecordObservedFacts
  <2>3. /\ send[n] = newest[n] /\ sm[n].current = send[n]
        /\ RecordObserved(sm[n], e).maxObserved >= RecordObserved(sm[n], e).current.epoch
    BY <1>1, <2>1 DEF RetiresNow, Releases, DueForRetirement, EndInStep
  <2> QED
    BY <1>1, <1>3, <2>1, <2>2, <2>3 DEF Larger
<1>7. after = None => newest[n].epoch <= e
  BY <1>3, <1>6 DEF Oldest
<1>8. Adjacent(after, newest[n])
  BY <1>2, <1>6 DEF Adjacent
<1> DEFINE above == Oldest(after, newest[n])
<1>9. above \in Nat /\ (above <= low \/ above <= e)
  <2> HIDE DEF after, e
  <2>1. CASE after = previous[n]
    BY <1>1, <2>1
  <2>2. CASE after # previous[n]
    BY <1>1, <1>6, <2>2 DEF Oldest
  <2> QED
    BY <2>1, <2>2
<1>10. InOrder(wire'[n], above, e, sent)
  <2> HIDE DEF after, e, low, sent, above
  <2>1. sent <= sent
    BY <1>1
  <2>2. InOrder(Tail(wire[n]), above, e, sent)
    BY <1>1, <1>3, <1>9, <2>1, BoundsMove, Zenon
  <2> QED
    BY <1>4, <2>2
<1> QED
  BY <1>3, <1>4, <1>5, <1>7, <1>8, <1>10

(* A thread that writes: the frame joins under the sender's epoch. *)
LEMMA WritesInOrder ==
  ASSUME TcpInv, WireInv, NEW n \in Node, NEW body \in Payload, Write(n, body), UNCHANGED <<sm, crypto>>
  PROVE  WireInv'
<1> DEFINE p == Peer(n)
           f == Sealed(n, body)
           low == Oldest(previous[p], newest[p])
<1>1. /\ p \in Node /\ Peer(p) = n /\ p # n /\ wire[p] \in Seq(Frame) /\ low \in Nat
      /\ sm[p].maxObserved \in Nat /\ send[n] \in Entry /\ send[n].epoch \in Nat
      /\ send[p].epoch \in Nat
  BY EndNumbers
<1>2. f \in Frame /\ f.epoch = send[n].epoch
  BY <1>1 DEF Sealed, Frame, Entry
<1>3. Adjacent(previous[p], newest[p]) /\ InOrder(wire[p], low, sm[p].maxObserved, send[n].epoch)
  BY <1>1 DEF WireInv
<1>4. wire'[p] = Append(wire[p], f) /\ wire'[n] = wire[n]
  BY <1>1 DEF Write, TcpInv, ExchangeTypes
<1>5. InOrder(wire'[p], low, sm[p].maxObserved, send[n].epoch)
  <2> HIDE DEF f, low, p
  <2> QED
    BY <1>1, <1>2, <1>3, <1>4, AppendInOrder
<1>6. UNCHANGED <<sm, newest, previous, send>>
  BY DEF crypto
<1>7. send[p].epoch <= send'[p].epoch /\ send'[p].epoch \in Nat
  BY <1>1, <1>6
<1> HIDE DEF p
<1> QED
  BY <1>1, <1>3, <1>4, <1>5, <1>6, <1>7, OneDirectionMoves

(* A frame that does not open leaves everything but the wire alone. *)
LEMMA DropsInOrder ==
  ASSUME TcpInv, WireInv, NEW n \in Node, DecryptFails(n)
  PROVE  WireInv'
<1> DEFINE low == Oldest(previous[n], newest[n])
           sent == send[Peer(n)].epoch
<1>1. /\ Take(n) /\ wire[n] # << >> /\ UNCHANGED <<sm, newest, previous, send>>
  BY DEF DecryptFails, Take, crypto
<1>2. /\ Peer(n) \in Node /\ Peer(n) # n /\ wire[n] \in Seq(Frame) /\ low \in Nat
      /\ sm[n].maxObserved \in Nat /\ sent \in Nat /\ send[n].epoch \in Nat
  BY EndNumbers
<1>3. wire'[n] = Tail(wire[n]) /\ wire'[Peer(n)] = wire[Peer(n)]
  BY <1>1, <1>2 DEF Take, TcpInv, ExchangeTypes
<1>4. Adjacent(previous[n], newest[n]) /\ InOrder(wire[n], low, sm[n].maxObserved, sent)
  BY DEF WireInv
<1>5. InOrder(wire'[n], low, sm[n].maxObserved, sent)
  <2> HIDE DEF low, sent
  <2> QED
    BY <1>1, <1>2, <1>3, <1>4, TailInOrder
<1>6. send[n].epoch <= send'[n].epoch /\ send'[n].epoch \in Nat
  BY <1>1, <1>2
<1> QED
  BY <1>1, <1>3, <1>4, <1>5, <1>6, OneDirectionMoves

(* A frame that is seen and changes nothing else of the crypto. *)
LEMMA SeesInOrder ==
  ASSUME TcpInv, WireInv, NEW n \in Node, Take(n), UNCHANGED <<newest, send>>,
         sm' = [sm EXCEPT ![n] = ObservedSm(n, Head(wire[n]).epoch)],
         previous' = [previous EXCEPT ![n] = PreviousAfter(n, Head(wire[n]).epoch)]
  PROVE  WireInv'
<1> DEFINE e == Head(wire[n]).epoch
<1>1. /\ Peer(n) \in Node /\ Peer(n) # n /\ send[n].epoch \in Nat
  BY EndNumbers
<1>2. /\ ObservedSm(n, e).maxObserved = e
      /\ Adjacent(PreviousAfter(n, e), newest[n])
      /\ InOrder(wire'[n], Oldest(PreviousAfter(n, e), newest[n]), e, send[Peer(n)].epoch)
      /\ wire'[Peer(n)] = wire[Peer(n)]
  BY SeenInOrder
<1>3. /\ sm'[n] = ObservedSm(n, e) /\ previous'[n] = PreviousAfter(n, e)
      /\ sm'[Peer(n)] = sm[Peer(n)] /\ previous'[Peer(n)] = previous[Peer(n)]
      /\ newest'[n] = newest[n] /\ send'[n] = send[n]
      /\ newest'[Peer(n)] = newest[Peer(n)] /\ send'[Peer(n)] = send[Peer(n)]
  BY <1>1 DEF TcpInv, EndsInStep
<1>4. send[n].epoch <= send'[n].epoch /\ send'[n].epoch \in Nat
  BY <1>1, <1>3
<1> HIDE DEF e
<1> QED
  BY <1>2, <1>3, <1>4, OneDirectionMoves

(* HandleRekeyAck: the client goes on to the next epoch. *)
LEMMA AckInOrder == TcpInv /\ WireInv /\ ClientHandleAck => WireInv'
<1> SUFFICES ASSUME TcpInv, WireInv, ClientHandleAck PROVE WireInv'
  OBVIOUS
<1> DEFINE f == Head(wire["client"])
           seen == ObservedSm("client", f.epoch)
           e == newest["client"].epoch + 1
           entry == [epoch |-> e, key |-> Derive(seen.current.key, pending.eph, f.body.pub)]
           staged == RecordStaged(seen, e, entry.key)
           left == IF seen.maxObserved >= e THEN None ELSE newest["client"]
<1>1. "client" \in Node /\ Take("client") /\ Peer("client") = "server" /\ "server" \in Node
  BY DEF ClientHandleAck, Node, Peer
<1>2. CASE ~AckInstalls(f)
  <2>1. /\ sm' = [sm EXCEPT !["client"] = seen]
        /\ previous' = [previous EXCEPT !["client"] = PreviousAfter("client", f.epoch)]
        /\ UNCHANGED <<newest, send>>
    BY <1>2 DEF ClientHandleAck
  <2> QED
    BY <1>1, <2>1, SeesInOrder
<1>3. CASE AckInstalls(f)
  <2>1. /\ sm' = [sm EXCEPT !["client"] = RetirePrevious(RecordActivated(staged), TRUE)]
        /\ previous' = [previous EXCEPT !["client"] = left]
        /\ newest' = [newest EXCEPT !["client"] = entry]
        /\ send' = [send EXCEPT !["client"] = entry]
    BY <1>3 DEF ClientHandleAck
  <2>2. /\ f.epoch \in Nat /\ seen.maxObserved = f.epoch
        /\ PreviousAfter("client", f.epoch) = None /\ newest["client"].epoch <= f.epoch
        /\ InOrder(wire'["client"], newest["client"].epoch, f.epoch, send["server"].epoch)
        /\ wire'["server"] = wire["server"]
    <3>1. PreviousAfter("client", f.epoch) = None
      BY <1>3 DEF AckInstalls
    <3> HIDE DEF f
    <3> QED
      BY <1>1, <3>1, SeenInOrder DEF Oldest, f
  <2>3. /\ wire'["client"] \in Seq(Frame) /\ newest["client"].epoch \in Nat /\ e \in Nat
        /\ send["client"].epoch \in Nat /\ send["server"].epoch \in Nat
        /\ newest["client"] # None
    <3>1. wire'["client"] \in Seq(Frame)
      BY <1>1, Taken DEF TcpInv
    <3> QED
      BY <1>1, <3>1, EndNumbers, NoEntryAssumption
  <2>4. sm'["client"].maxObserved = f.epoch
    <3>1. EndInStep(seen, None, send["client"], newest["client"])
      BY <1>1, <2>2, SeesInStep, EndNumbers
    <3>2. seen \in StateMachine /\ seen.current.key \in Key /\ pending.eph \in Nat /\ f.body.pub \in Nat
      <4>1. f \in Frame
        BY <1>1, Taken DEF TcpInv
      <4>2. pending \in Pending
        BY DEF ClientHandleAck, AckConsidered, TcpInv, ExchangeTypes
      <4>3. pending.eph \in Nat
        BY <4>2 DEF Pending
      <4>4. seen \in StateMachine /\ seen.current.key \in Key
        BY <3>1 DEF EndInStep, Entry
      <4> HIDE DEF f, seen
      <4> QED
        BY <4>1, <4>3, <4>4, FrameTypes
    <3>3. entry.key \in Key
      <4> HIDE DEF seen, f
      <4> QED
        BY <3>2, DeriveType
    <3>4. staged \in StateMachine /\ staged.staged.key \in Key /\ staged.maxObserved = seen.maxObserved
      <4> DEFINE k == entry.key
      <4> HIDE DEF k, seen, e
      <4>1. RecordStaged(seen, e, k) \in StateMachine /\ RecordStaged(seen, e, k).staged.key \in Key
            /\ RecordStaged(seen, e, k).maxObserved = seen.maxObserved
        BY <2>3, <3>2, <3>3 DEF RecordStaged, StateMachine, Phase, k
      <4> QED
        BY <4>1 DEF k
    <3>5. LET m == RetirePrevious(RecordActivated(staged), TRUE)
          IN  m.maxObserved = staged.maxObserved
      <4> HIDE DEF staged
      <4> QED
        BY <3>4, RecordActivatedFacts, RetirePreviousFacts
    <3> HIDE DEF staged, seen, f
    <3> QED
      BY <1>1, <2>1, <2>2, <3>4, <3>5 DEF TcpInv, EndsInStep
  <2>5. /\ previous'["client"] = left /\ newest'["client"] = entry /\ send'["client"] = entry
        /\ sm'["server"] = sm["server"] /\ previous'["server"] = previous["server"]
        /\ newest'["server"] = newest["server"] /\ send'["server"] = send["server"]
    <3> HIDE DEF left, entry
    <3> QED
      BY <1>1, <2>1 DEF TcpInv, EndsInStep
  <2>6. entry.epoch = e /\ newest["client"].epoch + 1 = e
    OBVIOUS
  <2> DEFINE low == Oldest(left, entry)
  <2>7. Adjacent(left, entry) /\ low \in Nat /\ (low <= newest["client"].epoch \/ low <= f.epoch)
    <3> HIDE DEF entry, e
    <3>1. left = None \/ left = newest["client"]
      OBVIOUS
    <3>2. left = None => e <= f.epoch
      <4> HIDE DEF seen, f
      <4> QED
        BY <2>2, <2>3
    <3> HIDE DEF left, f
    <3> QED
      BY <2>2, <2>3, <2>6, <3>1, <3>2 DEF Adjacent, Oldest
  <2>8. InOrder(wire'["client"], low, f.epoch, send["server"].epoch)
    <3>1. send["server"].epoch <= send["server"].epoch
      BY <2>3
    <3> HIDE DEF f, low
    <3> QED
      BY <2>2, <2>3, <2>7, <3>1, BoundsMove, Zenon
  <2>9. send["client"].epoch <= send'["client"].epoch /\ send'["client"].epoch \in Nat
    <3>1. send["client"] = newest["client"]
      <4>1. seen.phase = "idle" /\ EndInStep(seen, None, send["client"], newest["client"])
        <5>1. seen.phase = "idle"
          BY <1>3 DEF AckInstalls, ReadyForRekey
        <5> QED
          BY <1>1, <2>2, <5>1, SeesInStep, EndNumbers
      <4> HIDE DEF seen
      <4> QED
        BY <4>1 DEF EndInStep
    <3> HIDE DEF entry
    <3> QED
      BY <2>3, <2>5, <2>6, <3>1
  <2> HIDE DEF f, left, entry, seen
  <2> QED
    BY <1>1, <2>2, <2>4, <2>5, <2>7, <2>8, <2>9, OneDirectionMoves
<1> QED
  BY <1>2, <1>3

(* StartRekey at the server: what was the newest session becomes the *)
(* previous one.                                                     *)
LEMMA StartInOrder == TcpInv /\ WireInv /\ ServerStartRekey => WireInv'
<1> SUFFICES ASSUME TcpInv, WireInv, ServerStartRekey PROVE WireInv'
  OBVIOUS
<1> DEFINE f == Head(wire["server"])
           seen == ObservedSm("server", f.epoch)
           e == newest["server"].epoch + 1
           entry == [epoch |-> e, key |-> Derive(seen.current.key, f.body.eph, freshEph["server"])]
           staged == RecordStaged(seen, e, entry.key)
<1>1. "server" \in Node /\ Take("server") /\ Peer("server") = "client" /\ "client" \in Node
  BY DEF ServerStartRekey, ServerTakes, Node, Peer
<1>2. /\ sm' = [sm EXCEPT !["server"] = staged]
      /\ previous' = [previous EXCEPT !["server"] = newest["server"]]
      /\ newest' = [newest EXCEPT !["server"] = entry]
      /\ send' = send /\ PreviousAfter("server", f.epoch) = None
  BY DEF ServerStartRekey
<1>3. /\ newest["server"].epoch \in Nat /\ newest["server"] # None /\ send["server"].epoch \in Nat
  BY <1>1, EndNumbers, NoEntryAssumption
<1>4. /\ seen.maxObserved = f.epoch
      /\ InOrder(wire'["server"], newest["server"].epoch, f.epoch, send["client"].epoch)
      /\ wire'["client"] = wire["client"]
  <2>1. PreviousAfter("server", f.epoch) = None
    BY <1>2
  <2> HIDE DEF f
  <2> QED
    BY <1>1, <2>1, SeenInOrder DEF Oldest, f
<1>5. /\ sm'["server"] = staged /\ previous'["server"] = newest["server"]
      /\ newest'["server"] = entry /\ send'["server"] = send["server"]
      /\ sm'["client"] = sm["client"] /\ previous'["client"] = previous["client"]
      /\ newest'["client"] = newest["client"] /\ send'["client"] = send["client"]
  <2> HIDE DEF staged, entry
  <2> QED
    BY <1>1, <1>2 DEF TcpInv, EndsInStep
<1>6. staged.maxObserved = f.epoch
  <2>1. EndInStep(seen, None, send["server"], newest["server"])
    <3>1. f.epoch \in Nat
      BY <1>1, SeenInOrder
    <3>2. EndInStep(seen, PreviousAfter("server", f.epoch), send["server"], newest["server"])
      <4> HIDE DEF f
      <4> QED
        BY <1>1, <3>1, SeesInStep, EndNumbers
    <3> QED
      BY <1>2, <3>2
  <2>2. seen \in StateMachine
    BY <2>1 DEF EndInStep
  <2> HIDE DEF seen, f, e
  <2> QED
    BY <1>4, <2>2 DEF RecordStaged, StateMachine
<1>7. Adjacent(newest["server"], entry) /\ Oldest(newest["server"], entry) = newest["server"].epoch
  BY <1>3 DEF Adjacent, Oldest
<1>8. send["server"].epoch <= send'["server"].epoch
  BY <1>3, <1>5
<1> HIDE DEF staged, entry, f
<1> QED
  BY <1>1, <1>3, <1>4, <1>5, <1>6, <1>7, <1>8, OneDirectionMoves

(* ActivateSendEpoch at the server, after the ack is out. *)
LEMMA ActivateInOrder == TcpInv /\ WireInv /\ ServerActivate => WireInv'
<1> SUFFICES ASSUME TcpInv, WireInv, ServerActivate PROVE WireInv'
  OBVIOUS
<1> DEFINE s == sm["server"]
           moved == RecordActivated(s)
           new == newest["server"]
           prev == previous["server"]
           left == IF DueForRetirement(moved) THEN None ELSE prev
<1>1. /\ "server" \in Node /\ "client" \in Node /\ Peer("server") = "client"
      /\ wire' = wire /\ newest' = newest
  BY DEF ServerActivate, Node, Peer
<1>2. CASE ~CanActivate(s, promote)
  BY <1>1, <1>2 DEF ServerActivate, WireInv
<1>3. CASE CanActivate(s, promote)
  <2>1. /\ s \in StateMachine /\ s.phase = "staged" /\ s.staged = new /\ promote = new.epoch
        /\ prev = send["server"] /\ new \in Entry /\ prev \in Entry /\ prev # None
        /\ new.epoch \in Nat /\ prev.epoch \in Nat /\ s.maxObserved \in Nat
        /\ s.staged.key \in Key
    <3>1. s.phase = "staged" /\ promote = s.staged.epoch
      BY <1>3 DEF CanActivate
    <3> QED
      BY <1>1, <3>1, EndNumbers, NoEntryAssumption DEF EndInStep, Entry
  <2>2. send' = [send EXCEPT !["server"] = new] /\ send'["server"] = new
        /\ send'["client"] = send["client"]
    <3>1. send' = [send EXCEPT !["server"] = IF new.epoch = promote THEN new ELSE @]
      BY <1>3 DEF ServerActivate
    <3> QED
      BY <1>1, <2>1, <3>1 DEF TcpInv, EndsInStep
  <2>3. /\ sm' = [sm EXCEPT !["server"] = RetirePrevious(moved, TRUE)]
        /\ previous' = [previous EXCEPT !["server"] = left]
    <3>1. Releases(prev, send'["server"], new) = TRUE
      BY <2>1, <2>2 DEF Releases
    <3>2. /\ sm' = [sm EXCEPT !["server"] =
                      RetirePrevious(moved, Releases(prev, send'["server"], new))]
          /\ previous' = [previous EXCEPT !["server"] =
               IF DueForRetirement(moved) /\ send'["server"] = new THEN None ELSE @]
      BY <1>3 DEF ServerActivate
    <3> HIDE DEF s, new, moved
    <3> QED
      BY <1>1, <2>2, <3>1, <3>2 DEF TcpInv, EndsInStep
  <2>4. /\ moved \in StateMachine /\ moved.current = new /\ moved.maxObserved = s.maxObserved
        /\ RetirePrevious(moved, TRUE).maxObserved = s.maxObserved
    <3>1. moved \in StateMachine /\ moved.current = new /\ moved.maxObserved = s.maxObserved
      <4> HIDE DEF s, new
      <4> QED
        BY <2>1, RecordActivatedFacts
    <3> HIDE DEF moved
    <3> QED
      BY <3>1, RetirePreviousFacts
  <2>5. /\ sm'["server"].maxObserved = s.maxObserved /\ previous'["server"] = left
        /\ sm'["client"] = sm["client"] /\ previous'["client"] = previous["client"]
    <3> HIDE DEF moved, s, left
    <3> QED
      BY <1>1, <2>3, <2>4 DEF TcpInv, EndsInStep
  <2>6. Adjacent(prev, new) /\ InOrder(wire["server"], prev.epoch, s.maxObserved, send["client"].epoch)
    BY <1>1, <2>1 DEF WireInv, Oldest
  <2>7. new.epoch = prev.epoch + 1
    BY <2>1, <2>6 DEF Adjacent
  <2> DEFINE low == Oldest(left, new)
  <2>8. Adjacent(left, new) /\ low \in Nat /\ (low <= prev.epoch \/ low <= s.maxObserved)
    <3>1. CASE DueForRetirement(moved)
      <4>1. left = None /\ new.epoch <= s.maxObserved
        <5> HIDE DEF moved, new, s
        <5> QED
          BY <2>1, <2>4, <3>1 DEF DueForRetirement
      <4> QED
        BY <2>1, <4>1 DEF Adjacent, Oldest
    <3>2. CASE ~DueForRetirement(moved)
      <4>1. left = prev
        BY <3>2
      <4> HIDE DEF left, prev, new, s
      <4> QED
        BY <2>1, <2>6, <4>1 DEF Oldest
    <3> QED
      BY <3>1, <3>2
  <2>9. InOrder(wire["server"], low, s.maxObserved, send["client"].epoch)
    <3>1. wire["server"] \in Seq(Frame) /\ send["client"].epoch \in Nat
          /\ send["client"].epoch <= send["client"].epoch
      BY <1>1, EndNumbers
    <3> HIDE DEF low, s, prev
    <3> QED
      BY <2>1, <2>6, <2>8, <3>1, BoundsMove, Zenon
  <2>10. send["server"].epoch <= send'["server"].epoch
    BY <2>1, <2>2, <2>7
  <2> HIDE DEF s, left
  <2> QED
    BY <1>1, <2>1, <2>2, <2>5, <2>8, <2>9, <2>10, OneDirectionMoves
<1> QED
  BY <1>2, <1>3

(* The wire of a new session is empty. *)
LEMMA InitInOrder == Init => WireInv
<1> SUFFICES ASSUME Init, NEW n \in Node
             PROVE  /\ Adjacent(previous[n], newest[n])
                    /\ InOrder(wire[n], Oldest(previous[n], newest[n]), sm[n].maxObserved,
                               send[Peer(n)].epoch)
  BY DEF WireInv
<1>1. /\ previous[n] = None /\ newest[n].epoch = 0 /\ send[Peer(n)].epoch = 0
      /\ sm[n].maxObserved = 0 /\ wire[n] = << >>
  BY DEF Init, NewStateMachine, Peer, Node
<1> QED
  BY <1>1 DEF Adjacent, InOrder, Oldest

LEMMA WireStep == TcpInv /\ WireInv /\ [Next]_vars => WireInv'
<1> SUFFICES ASSUME TcpInv, WireInv, [Next]_vars PROVE WireInv'
  OBVIOUS
<1>n. "client" \in Node /\ "server" \in Node
  BY DEF Node
<1>1. ASSUME UNCHANGED <<sm, crypto, wire>> PROVE WireInv'
  BY <1>1 DEF WireInv, crypto
<1>2. ASSUME NEW n \in Node, TunSend(n) PROVE WireInv'
  BY <1>2, PayloadTypes, WritesInOrder DEF TunSend
<1>3. ASSUME SendPing PROVE WireInv'
  BY <1>n, <1>3, PayloadTypes, WritesInOrder DEF SendPing
<1>4. ASSUME SendRekeyInit PROVE WireInv'
  <2>1. built \in Payload /\ Write("client", built) /\ UNCHANGED <<sm, crypto>>
    BY <1>4 DEF SendRekeyInit, TcpInv, ExchangeTypes
  <2> QED
    BY <1>n, <2>1, WritesInOrder
<1>5. ASSUME SendReply PROVE WireInv'
  <2>1. reply \in Payload /\ Write("server", reply) /\ UNCHANGED <<sm, crypto>>
    BY <1>5 DEF SendReply, TcpInv, ExchangeTypes
  <2> QED
    BY <1>n, <2>1, WritesInOrder
<1>6. ASSUME ClientReceive \/ ClientReceiveExhausted PROVE WireInv'
  BY <1>n, <1>6, SeesInOrder DEF ClientReceive, ClientReceiveExhausted
<1>7. ASSUME ServerReceive \/ ServerResendAck \/ ServerDeclineInit PROVE WireInv'
  BY <1>n, <1>7, SeesInOrder DEF ServerReceive, ServerResendAck, ServerDeclineInit, ServerTakes
<1>8. ASSUME BuildRekeyInit \/ Ended \/ UNCHANGED vars PROVE WireInv'
  BY <1>1, <1>8 DEF BuildRekeyInit, Ended, vars
<1> QED
  BY <1>2, <1>3, <1>4, <1>5, <1>6, <1>7, <1>8, DropsInOrder, AckInOrder, StartInOrder,
     ActivateInOrder DEF Next

LEMMA WireInvHolds == Spec => []WireInv
BY TcpInvHolds, InitInOrder, WireStep, PTL DEF Spec

(* An end forgets the keys of an epoch only after the last frame of that   *)
(* epoch: on either link, for any number of frames on the wire, none is    *)
(* still on its way when RetirePreviousEpoch drops the session.            *)
THEOREM RetiredEpochIsDrainedHolds == Spec => []RetiredEpochIsDrained
<1>1. TcpInv /\ WireInv => RetiredEpochIsDrained
  <2> SUFFICES ASSUME TcpInv, WireInv, NEW n \in Node, NEW i \in DOMAIN wire[n]
               PROVE  \/ wire[n][i].epoch >= newest[n].epoch
                      \/ previous[n] # None /\ wire[n][i].epoch = previous[n].epoch
    BY DEF RetiredEpochIsDrained
  <2>1. /\ wire[n] \in Seq(Frame) /\ newest[n].epoch \in Nat
        /\ previous[n] # None => previous[n].epoch \in Nat
    BY EndNumbers
  <2>2. wire[n][i].epoch \in Nat
    BY <2>1, FramesOfQueue
  <2>3. Oldest(previous[n], newest[n]) <= wire[n][i].epoch /\ Adjacent(previous[n], newest[n])
    BY DEF WireInv, InOrder
  <2> QED
    BY <2>1, <2>2, <2>3 DEF Oldest, Adjacent
<1> QED
  BY <1>1, TcpInvHolds, WireInvHolds, PTL

-----------------------------------------------------------------------------
(* Whose request an ack answers.  First the queues: the frames that are    *)
(* left, and the inits among them.                                         *)
LEMMA TailFrames ==
  ASSUME NEW q \in Seq(Frame), q # << >>
  PROVE  /\ Head(q) = q[1] /\ 1 \in DOMAIN q /\ Head(q) \in Frames(q) /\ Head(q) \in Frame
         /\ \A i \in DOMAIN Tail(q) : i \in Nat /\ i + 1 \in DOMAIN q /\ Tail(q)[i] = q[i + 1]
         /\ Frames(Tail(q)) \subseteq Frames(q)
<1>1. /\ Head(q) = q[1] /\ 1 \in DOMAIN q /\ Head(q) \in Frame
      /\ \A i \in DOMAIN Tail(q) : i \in Nat /\ i + 1 \in DOMAIN q /\ Tail(q)[i] = q[i + 1]
  OBVIOUS
<1> QED
  BY <1>1 DEF Frames

LEMMA AppendFrames ==
  ASSUME NEW q \in Seq(Frame), NEW f \in Frame
  PROVE  /\ Frames(Append(q, f)) = Frames(q) \cup {f}
         /\ \A i \in DOMAIN Append(q, f) :
              \/ i \in DOMAIN q /\ Append(q, f)[i] = q[i]
              \/ i = Len(q) + 1 /\ Append(q, f)[i] = f
         /\ \A i \in DOMAIN q : i \in Nat /\ i < Len(q) + 1 /\ i \in DOMAIN Append(q, f)
                                /\ Append(q, f)[i] = q[i]
         /\ Len(q) + 1 \in DOMAIN Append(q, f) /\ Append(q, f)[Len(q) + 1] = f
<1>1. /\ Len(q) \in Nat /\ DOMAIN q = 1..Len(q) /\ DOMAIN Append(q, f) = 1..(Len(q) + 1)
      /\ \A i \in DOMAIN q : Append(q, f)[i] = q[i]
      /\ Append(q, f)[Len(q) + 1] = f
  OBVIOUS
<1>2. \A i \in DOMAIN Append(q, f) :
        \/ i \in DOMAIN q /\ Append(q, f)[i] = q[i]
        \/ i = Len(q) + 1 /\ Append(q, f)[i] = f
  BY <1>1
<1>3. /\ \A i \in DOMAIN q : i \in Nat /\ i < Len(q) + 1 /\ i \in DOMAIN Append(q, f)
                             /\ Append(q, f)[i] = q[i]
      /\ Len(q) + 1 \in DOMAIN Append(q, f) /\ Append(q, f)[Len(q) + 1] = f
  BY <1>1
<1>4. Frames(Append(q, f)) = Frames(q) \cup {f}
  BY <1>2, <1>3 DEF Frames
<1> QED
  BY <1>2, <1>3, <1>4

(* The oldest frame leaves; the exchange may be given up. *)
LEMMA InitsTail ==
  ASSUME NEW q \in Seq(Frame), q # << >>, NEW t, NEW b, NEW p, NEW fresh,
         InitsInOrder(q, t, b, p, fresh)
  PROVE  InitsInOrder(Tail(q), t, b, p, fresh)
<1>1. \A i \in DOMAIN Tail(q) : i \in Nat /\ i + 1 \in DOMAIN q /\ Tail(q)[i] = q[i + 1]
  BY TailFrames
<1>2. \A i, j \in DOMAIN Tail(q) : i <= j => i + 1 <= j + 1
  BY <1>1
<1> QED
  BY <1>1, <1>2, Zenon DEF InitsInOrder

LEMMA InitsForget ==
  ASSUME NEW q, NEW t, NEW b, NEW p, NEW fresh, InitsInOrder(q, t, b, p, fresh)
  PROVE  InitsInOrder(q, t, b, None, fresh)
BY DEF InitsInOrder, AskedSoFar

(* A transaction that only notes what it has seen. *)
LEMMA InitsNoted ==
  ASSUME NEW q, NEW t, NEW b, NEW p, NEW fresh, InitsInOrder(q, t, b, p, fresh),
         NEW u, u # None => t # None /\ u.request = t.request
  PROVE  InitsInOrder(q, u, b, p, fresh)
BY DEF InitsInOrder

(* A frame that is no init, and what was built, join at the end. *)
LEMMA InitsAppend ==
  ASSUME NEW q \in Seq(Frame), NEW f \in Frame, NEW t, NEW b, NEW p, NEW fresh,
         InitsInOrder(q, t, b, p, fresh), f.body.kind # "init"
  PROVE  InitsInOrder(Append(q, f), t, b, p, fresh)
<1>1. \A i \in DOMAIN Append(q, f) :
        Append(q, f)[i].body.kind = "init" => i \in DOMAIN q /\ Append(q, f)[i] = q[i]
  BY AppendFrames
<1> QED
  BY <1>1 DEF InitsInOrder

LEMMA InitsAppendBuilt ==
  ASSUME NEW q \in Seq(Frame), NEW f \in Frame, NEW t, NEW p, NEW fresh,
         f.body # None, InitsInOrder(q, t, f.body, p, fresh)
  PROVE  InitsInOrder(Append(q, f), t, None, p, fresh)
<1>1. \A i \in DOMAIN Append(q, f) :
        \/ i \in DOMAIN q /\ Append(q, f)[i] = q[i]
        \/ i = Len(q) + 1 /\ Append(q, f)[i] = f
  BY AppendFrames
<1>2. /\ Len(q) \in Nat /\ \A i \in DOMAIN q : i \in Nat /\ i < Len(q) + 1
  BY AppendFrames
<1>3. NoLater(f.body, f.body)
  BY DEF Frame, Payload, NoLater
<1>4. ASSUME NEW i \in DOMAIN Append(q, f), Append(q, f)[i].body.kind = "init"
      PROVE  /\ AskedSoFar(Append(q, f)[i].body, p, fresh)
             /\ t # None => NoLater(t.request, Append(q, f)[i].body)
             /\ \A j \in DOMAIN Append(q, f) :
                  i <= j /\ Append(q, f)[j].body.kind = "init"
                    => NoLater(Append(q, f)[i].body, Append(q, f)[j].body)
  <2>1. CASE i = Len(q) + 1 /\ Append(q, f)[i] = f
    <3>1. \A j \in DOMAIN Append(q, f) : i <= j => Append(q, f)[j] = f
      BY <1>1, <1>2, <2>1
    <3> QED
      BY <1>3, <2>1, <3>1 DEF InitsInOrder
  <2>2. CASE i \in DOMAIN q /\ Append(q, f)[i] = q[i]
    BY <1>1, <1>4, <2>2 DEF InitsInOrder
  <2> QED
    BY <1>1, <2>1, <2>2
<1> QED
  BY <1>4 DEF InitsInOrder

(* MaybeBuildRekeyInit: a copy of what is pending, or a new exchange. *)
LEMMA InitsBuilt ==
  ASSUME NEW q \in Seq(Frame), NEW t \in Transaction \cup {None}, NEW p \in Pending, NEW fresh \in Nat,
         InitsInOrder(q, t, None, p, fresh), InitOf(p) # None
  PROVE  InitsInOrder(q, t, InitOf(p), p, fresh)
<1>1. /\ InitOf(p).kind = "init" /\ InitOf(p).eph = p.eph
      /\ NoLater(InitOf(p), InitOf(p)) /\ p # None
  BY NoneAssumption DEF InitOf, RekeyInit, NoLater, Pending
<1> HIDE DEF InitOf
<1> QED
  BY <1>1 DEF InitsInOrder, AskedSoFar

LEMMA InitsFresh ==
  ASSUME NEW q \in Seq(Frame), NEW t \in Transaction \cup {None}, NEW p \in Pending, NEW fresh \in Nat,
         InitsInOrder(q, t, None, None, fresh), p.eph = fresh
  PROVE  InitsInOrder(q, t, None, p, fresh + 1)
<1>1. \A a \in Payload : a.eph \in Nat
  BY DEF Payload
<1>2. ASSUME NEW a \in Payload, AskedSoFar(a, None, fresh)
      PROVE  AskedSoFar(a, p, fresh + 1)
  BY <1>1, <1>2 DEF AskedSoFar, NoLater, InitOf, RekeyInit
<1>3. /\ t # None => t.request \in Payload
      /\ \A i \in DOMAIN q : q[i].body \in Payload
  BY FramesOfQueue DEF Transaction
<1>4. t # None => AskedSoFar(t.request, p, fresh + 1)
  BY <1>2, <1>3 DEF InitsInOrder
<1>5. \A i \in DOMAIN q : q[i].body.kind = "init" => AskedSoFar(q[i].body, p, fresh + 1)
  BY <1>2, <1>3 DEF InitsInOrder
<1> QED
  BY <1>4, <1>5 DEF InitsInOrder

(* The server takes up the oldest init. *)
LEMMA InitsTakenUp ==
  ASSUME NEW q \in Seq(Frame), q # << >>, Head(q).body.kind = "init",
         NEW t, NEW b, NEW p, NEW fresh, InitsInOrder(q, t, b, p, fresh),
         NEW u, u.request = Head(q).body
  PROVE  InitsInOrder(Tail(q), u, b, p, fresh)
<1>1. /\ Head(q) = q[1] /\ 1 \in DOMAIN q
      /\ \A i \in DOMAIN Tail(q) : i \in Nat /\ i + 1 \in DOMAIN q /\ Tail(q)[i] = q[i + 1]
  BY TailFrames
<1>2. /\ \A i, j \in DOMAIN Tail(q) : i <= j => i + 1 <= j + 1
      /\ \A i \in DOMAIN Tail(q) : 1 <= i + 1
  BY <1>1
<1>3. /\ AskedSoFar(u.request, p, fresh)
      /\ b # None => NoLater(u.request, b)
      /\ \A j \in DOMAIN q : 1 <= j /\ q[j].body.kind = "init" => NoLater(u.request, q[j].body)
  BY <1>1 DEF InitsInOrder
<1> QED
  BY <1>1, <1>2, <1>3, Zenon DEF InitsInOrder

(* A transaction that notes an epoch stays the transaction it is. *)
SameExchange(t, u) ==
  /\ t # None <=> u # None
  /\ t # None => u.request = t.request /\ u.response = t.response /\ u.epoch = t.epoch

LEMMA TxNotes ==
  ASSUME NEW t \in Transaction \cup {None}, NEW e
  PROVE  SameExchange(t, TxObserved(t, e)) /\ SameExchange(t, TxActivated(t, e))
<1>1. CASE t = None
  BY <1>1 DEF SameExchange, TxObserved, TxActivated
<1>2. CASE t # None
  <2>1. t \in Transaction
    BY <1>2
  <2>2. [t EXCEPT !.peerObserved = TRUE] \in Transaction
        /\ [t EXCEPT !.sendActivated = TRUE] \in Transaction
    BY <2>1 DEF Transaction
  <2>3. [t EXCEPT !.peerObserved = TRUE] # None /\ [t EXCEPT !.sendActivated = TRUE] # None
    BY <2>2, NoneAssumption
  <2> QED
    BY <2>1, <2>3 DEF SameExchange, TxObserved, TxActivated, Transaction
<1> QED
  BY <1>1, <1>2

(* Observing an epoch never stages one, and leaves the keys in use. *)
LEMMA SeenPhase ==
  ASSUME TcpInv, NEW n \in Node, NEW e \in Nat
  PROVE  /\ ObservedSm(n, e).phase \in {"idle", sm[n].phase}
         /\ sm[n].phase = "idle" => ObservedSm(n, e).phase = "idle"
         /\ ObservedSm(n, e).current = send[n] /\ ObservedSm(n, e) \in StateMachine
         /\ EndInStep(ObservedSm(n, e), PreviousAfter(n, e), send[n], newest[n])
<1>1. /\ sm[n] \in StateMachine /\ EndInStep(sm[n], previous[n], send[n], newest[n])
  BY EndNumbers
<1>2. /\ RecordObserved(sm[n], e) \in StateMachine
      /\ RecordObserved(sm[n], e).phase = sm[n].phase
  BY <1>1, RecordObservedFacts
<1>3. Releases(previous[n], send[n], newest[n]) \in BOOLEAN
  BY DEF Releases
<1>4. ObservedSm(n, e).phase \in {"idle", sm[n].phase}
  BY <1>2, <1>3, RetirePreviousFacts DEF ObservedSm
<1>5. EndInStep(ObservedSm(n, e), PreviousAfter(n, e), send[n], newest[n])
  BY <1>1, SeesInStep
<1> QED
  BY <1>4, <1>5 DEF EndInStep

(* What the types say of the exchange. *)
LEMMA ExchangeNumbers ==
  ASSUME TcpInv
  PROVE  /\ wire["client"] \in Seq(Frame) /\ wire["server"] \in Seq(Frame)
         /\ tx \in Transaction \cup {None} /\ pending \in Pending \cup {None}
         /\ tx # None => /\ tx.request \in Payload /\ tx.response \in Payload
                         /\ tx.request.eph \in Nat /\ tx.response.eph \in Nat
                         /\ tx.response.pub \in Nat /\ tx.epoch \in Nat
         /\ pending # None => pending.eph \in Nat /\ pending.carrier \in Nat
         /\ freshEph["client"] \in Nat /\ freshEph["server"] \in Nat
         /\ reply \in Payload \cup {None} /\ built \in Payload \cup {None}
         /\ newest["client"] \in Entry /\ newest["server"] \in Entry
         /\ newest["client"].epoch \in Nat /\ newest["server"].epoch \in Nat
<1>1. "client" \in Node /\ "server" \in Node
  BY DEF Node
<1>2. /\ wire["client"] \in Seq(Frame) /\ wire["server"] \in Seq(Frame)
      /\ tx \in Transaction \cup {None} /\ pending \in Pending \cup {None}
      /\ freshEph["client"] \in Nat /\ freshEph["server"] \in Nat
      /\ reply \in Payload \cup {None} /\ built \in Payload \cup {None}
      /\ newest["client"] \in Entry /\ newest["server"] \in Entry
  BY <1>1 DEF TcpInv, ExchangeTypes, EndsInStep
<1>3. tx # None => /\ tx.request \in Payload /\ tx.response \in Payload /\ tx.epoch \in Nat
  BY <1>2 DEF Transaction
<1>4. tx # None => /\ tx.request.eph \in Nat /\ tx.response.eph \in Nat
                   /\ tx.response.pub \in Nat
  BY <1>3 DEF Payload
<1>5. pending # None => pending.eph \in Nat /\ pending.carrier \in Nat
  BY <1>2 DEF Pending
<1> QED
  BY <1>2, <1>3, <1>4, <1>5 DEF Entry

(* A step that stages nothing: frames may leave the wire, the exchange may *)
(* be given up, the transaction may note an epoch and be answered again.   *)
LEMMA ExchangeKept ==
  ASSUME TcpInv, ExchangeInv, sm'["client"].phase # "staged",
         newest' = newest, freshEph' = freshEph, built' = built, pending' \in {pending, None},
         SameExchange(tx, tx'),
         \/ reply' \in {reply, None} \/ reply'.kind # "ack"
         \/ tx # None /\ reply' = tx.response,
         \/ wire'["client"] = wire["client"]
         \/ wire["client"] # << >> /\ wire'["client"] = Tail(wire["client"]),
         \/ wire'["server"] = wire["server"]
         \/ wire["server"] # << >> /\ wire'["server"] = Tail(wire["server"])
  PROVE  ExchangeInv'
<1>1. ClientNeverStaged'
  BY DEF ClientNeverStaged
<1>2. TransactionNames'
  BY DEF ExchangeInv, TransactionNames, SameExchange
<1>3. ServerLeads' /\ (ServerAhead' <=> ServerAhead)
  BY DEF ExchangeInv, ServerLeads, ServerAhead, SameExchange
<1>4. \A ack : Answers(ack, tx) => Answers(ack, tx')
  BY DEF Answers, SameExchange
<1>5. AcksInOrder'
  <2>1. Frames(wire'["client"]) \subseteq Frames(wire["client"])
    BY ExchangeNumbers, TailFrames
  <2>2. tx # None => Answers(tx.response, tx)
    BY ExchangeNumbers DEF ExchangeInv, TransactionNames, Answers
  <2>3. reply' # None /\ reply'.kind = "ack" => Answers(reply', tx)
    BY <2>2 DEF ExchangeInv, AcksInOrder
  <2>4. \A f \in Frames(wire'["client"]) : f.body.kind = "ack" => Answers(f.body, tx)
    BY <2>1 DEF ExchangeInv, AcksInOrder
  <2> QED
    BY <1>4, <2>3, <2>4 DEF AcksInOrder
<1>6. RequestsInOrder'
  <2>1. InitsInOrder(wire["server"], tx, built, pending, freshEph["client"])
    BY DEF ExchangeInv, RequestsInOrder
  <2>2. InitsInOrder(wire'["server"], tx, built, pending, freshEph["client"])
    BY <2>1, ExchangeNumbers, InitsTail
  <2>3. InitsInOrder(wire'["server"], tx', built, pending, freshEph["client"])
    BY <2>2, InitsNoted DEF SameExchange
  <2>4. InitsInOrder(wire'["server"], tx', built, pending', freshEph["client"])
    BY <2>3, InitsForget
  <2>5. pending' # None /\ tx' # None /\ ~ServerAhead' => tx'.request.eph < pending'.eph
    BY <1>3 DEF ExchangeInv, RequestsInOrder, SameExchange
  <2> QED
    BY <2>4, <2>5 DEF RequestsInOrder
<1> QED
  BY <1>1, <1>2, <1>3, <1>5, <1>6 DEF ExchangeInv

(* A thread that writes. *)
LEMMA ExchangeWrites ==
  ASSUME TcpInv, ExchangeInv, NEW n \in Node, NEW body \in Payload, Write(n, body),
         UNCHANGED <<sm, crypto, exchange>>,
         \/ body.kind \notin {"init", "ack"} /\ built' = built /\ reply' \in {reply, None}
         \/ n = "client" /\ built = body /\ built' = None /\ reply' = reply
         \/ n = "server" /\ reply = body /\ reply' = None /\ built' = built
  PROVE  ExchangeInv'
<1> DEFINE f == Sealed(n, body)
<1>1. /\ sm' = sm /\ newest' = newest /\ tx' = tx /\ pending' = pending /\ freshEph' = freshEph
      /\ built' \in {built, None} /\ reply' \in {reply, None}
  BY DEF crypto, exchange
<1>2. f \in Frame /\ f.body = body
  BY EndNumbers DEF Sealed, Frame, Entry
<1>3. /\ n = "client" => /\ wire'["server"] = Append(wire["server"], f)
                         /\ wire'["client"] = wire["client"]
      /\ n = "server" => /\ wire'["client"] = Append(wire["client"], f)
                         /\ wire'["server"] = wire["server"]
      /\ n = "client" \/ n = "server"
  BY DEF Write, Peer, Node, TcpInv, ExchangeTypes
<1> HIDE DEF f
<1>4. AcksInOrder'
  <2>1. /\ n = "client" => Frames(wire'["client"]) = Frames(wire["client"])
        /\ n = "server" => Frames(wire'["client"]) = Frames(wire["client"]) \cup {f}
    <3>1. wire["client"] \in Seq(Frame)
      BY ExchangeNumbers
    <3>2. Frames(Append(wire["client"], f)) = Frames(wire["client"]) \cup {f}
      BY <1>2, <3>1, AppendFrames
    <3> QED
      BY <1>3, <3>2
  <2>2. n = "server" /\ body.kind = "ack" => Answers(body, tx)
    BY NoneAssumption DEF ExchangeInv, AcksInOrder
  <2>3. \A g \in Frames(wire'["client"]) : g.body.kind = "ack" => Answers(g.body, tx)
    BY <1>2, <1>3, <2>1, <2>2 DEF ExchangeInv, AcksInOrder
  <2> QED
    BY <1>1, <2>3 DEF ExchangeInv, AcksInOrder
<1>5. InitsInOrder(wire'["server"], tx, built', pending, freshEph["client"])
  <2>1. InitsInOrder(wire["server"], tx, built, pending, freshEph["client"])
    BY DEF ExchangeInv, RequestsInOrder
  <2>2. CASE n = "server"
    <3>1. built' = built \/ built' = None
      BY <1>1
    <3>2. InitsInOrder(wire["server"], tx, built', pending, freshEph["client"])
      BY <2>1, <3>1 DEF InitsInOrder
    <3> QED
      BY <1>3, <2>2, <3>2
  <2>3. CASE n = "client" /\ built = body /\ built' = None
    BY <1>2, <1>3, <2>1, <2>3, ExchangeNumbers, InitsAppendBuilt, NoneAssumption
  <2>4. CASE n = "client" /\ body.kind # "init" /\ built' = built
    BY <1>2, <1>3, <2>1, <2>4, ExchangeNumbers, InitsAppend
  <2> QED
    BY <1>3, <2>2, <2>3, <2>4
<1> QED
  BY <1>1, <1>4, <1>5
  DEF ExchangeInv, ClientNeverStaged, TransactionNames, ServerLeads, ServerAhead, RequestsInOrder

(* MaybeBuildRekeyInit. *)
LEMMA ExchangeBuilds == TcpInv /\ ExchangeInv /\ BuildRekeyInit => ExchangeInv'
<1> SUFFICES ASSUME TcpInv, ExchangeInv, BuildRekeyInit PROVE ExchangeInv'
  OBVIOUS
<1> DEFINE p == PendingForInit(pending, sm["client"], freshEph["client"])
           fresh == freshEph["client"]
<1>1. /\ built = None /\ pending' = p /\ built' = InitOf(p)
      /\ freshEph'["client"] = IF pending = None THEN fresh + 1 ELSE fresh
      /\ UNCHANGED <<sm, newest, tx, reply, wire>>
  BY DEF BuildRekeyInit, InitOf, crypto, TcpInv, ExchangeTypes, Node
<1>2. TcpInv'
  BY BuildInStep
<1>3. p \in Pending
  <2>1. pending' \in Pending \cup {None}
    BY <1>2 DEF TcpInv, ExchangeTypes
  <2>2. p # None
    <3>1. pending = None => p \in Pending
      <4>1. /\ sm["client"].current.key \in Key /\ sm["client"].current.epoch \in Nat
            /\ fresh \in Nat
        BY DEF TcpInv, EndsInStep, ExchangeTypes, StateMachine, Node
      <4>2. Prologue(sm["client"]) \in Key
        BY <4>1 DEF Prologue, InitialKey, Key
      <4> QED
        BY <4>1, <4>2 DEF PendingForInit, Pending
    <3> QED
      BY <3>1, NoneAssumption DEF PendingForInit
  <2> QED
    BY <1>1, <2>1, <2>2
<1>4. /\ pending # None => p = pending
      /\ pending = None => p.eph = fresh
  BY DEF PendingForInit
<1>5. /\ fresh \in Nat /\ wire["server"] \in Seq(Frame) /\ tx \in Transaction \cup {None}
      /\ tx # None => tx.request.eph \in Nat
  BY ExchangeNumbers
<1> HIDE DEF p, fresh
<1>6. InitsInOrder(wire["server"], tx, None, pending, fresh)
  BY <1>1 DEF ExchangeInv, RequestsInOrder, fresh
<1>7. InitsInOrder(wire["server"], tx, None, p, freshEph'["client"])
  <2>1. CASE pending # None
    BY <1>1, <1>4, <1>6, <2>1
  <2>2. CASE pending = None
    <3>1. InitsInOrder(wire["server"], tx, None, p, fresh + 1)
      BY <1>3, <1>4, <1>5, <1>6, <2>2, InitsFresh
    <3> QED
      BY <1>1, <2>2, <3>1
  <2> QED
    BY <2>1, <2>2
<1>8. InitsInOrder(wire["server"], tx, InitOf(p), p, freshEph'["client"])
  <2>1. p.eph \in Nat /\ p.base \in Key
    BY <1>3 DEF Pending
  <2>2. InitOf(p) \in Payload
    BY <2>1, PayloadTypes DEF InitOf
  <2>3. InitOf(p) # None /\ freshEph'["client"] \in Nat
    BY <1>1, <1>5, <2>2, NoneAssumption
  <2> QED
    BY <1>3, <1>5, <1>7, <2>3, InitsBuilt
<1>9. tx # None /\ ~ServerAhead => tx.request.eph < p.eph
  BY <1>4, <1>6 DEF ExchangeInv, RequestsInOrder, InitsInOrder, AskedSoFar
<1> QED
  BY <1>1, <1>8, <1>9
  DEF ExchangeInv, ClientNeverStaged, TransactionNames, ServerLeads, ServerAhead, AcksInOrder,
      RequestsInOrder

(* An ack for the pending exchange answers the latest request, and leads   *)
(* the client to the keys the server is ahead by.                          *)
LEMMA InstallsNewest ==
  ASSUME TcpInv, ExchangeInv, ClientHandleAck, AckInstalls(Head(wire["client"])),
         Head(wire["client"]).body.eph = pending.eph
  PROVE  /\ ServerAhead
         /\ newest' = [newest EXCEPT !["client"] = newest["server"]]
         /\ sm'["client"].phase # "staged"
         /\ pending' = None /\ UNCHANGED <<tx, freshEph, built, reply>>
         /\ wire["client"] # << >> /\ wire'["client"] = Tail(wire["client"])
         /\ wire'["server"] = wire["server"]
<1> DEFINE f == Head(wire["client"])
           seen == ObservedSm("client", f.epoch)
           k == Derive(seen.current.key, pending.eph, f.body.pub)
           entry == [epoch |-> newest["client"].epoch + 1, key |-> k]
           staged == RecordStaged(seen, entry.epoch, entry.key)
<1>1. /\ "client" \in Node /\ Take("client") /\ f.body.kind = "ack" /\ pending # None
      /\ newest' = [newest EXCEPT !["client"] = entry]
      /\ sm' = [sm EXCEPT !["client"] = RetirePrevious(RecordActivated(staged), TRUE)]
      /\ pending' = None /\ UNCHANGED <<tx, freshEph, built, reply>>
  BY DEF ClientHandleAck, AckConsidered, Node
<1>2. /\ wire["client"] # << >> /\ wire'["client"] = Tail(wire["client"])
      /\ wire'["server"] = wire["server"]
  BY <1>1 DEF Take, TcpInv, ExchangeTypes
<1>3. f \in Frames(wire["client"]) /\ f \in Frame /\ f.epoch \in Nat
  <2>1. f \in Frames(wire["client"]) /\ f \in Frame
    BY <1>2, ExchangeNumbers, TailFrames
  <2> QED
    BY <2>1, FrameTypes
<1>4. Answers(f.body, tx)
  <2> HIDE DEF f
  <2> QED
    BY <1>1, <1>3 DEF ExchangeInv, AcksInOrder
<1>5. tx # None /\ tx.request.eph = pending.eph /\ f.body = tx.response /\ ServerAhead
  <2>1. NoLater(tx.request, InitOf(pending)) /\ (~ServerAhead => tx.request.eph < pending.eph)
    BY <1>1, <1>4 DEF ExchangeInv, RequestsInOrder, InitsInOrder, AskedSoFar, Answers
  <2>2. InitOf(pending).eph = pending.eph
    BY DEF InitOf, RekeyInit
  <2> HIDE DEF f
  <2> QED
    BY <1>1, <1>4, <2>1, <2>2, ExchangeNumbers, SMTT(30) DEF Answers, NoLater, f
<1>6. seen.phase = "idle" /\ seen \in StateMachine /\ seen.current = newest["client"]
  <2>1. seen.phase = "idle"
    BY DEF AckInstalls, ReadyForRekey
  <2>2. EndInStep(seen, PreviousAfter("client", f.epoch), send["client"], newest["client"])
    BY <1>1, <1>3, SeenPhase
  <2> HIDE DEF seen
  <2> QED
    BY <2>1, <2>2 DEF EndInStep
<1>7. entry = newest["server"]
  <2>1. newest["server"] = [epoch |-> newest["client"].epoch + 1,
                            key |-> Derive(newest["client"].key, tx.request.eph, tx.response.pub)]
    BY <1>5 DEF ExchangeInv, ServerLeads
  <2> HIDE DEF seen, f
  <2> QED
    BY <1>5, <1>6, <2>1
<1>8. sm'["client"].phase # "staged"
  <2>1. k \in Key /\ entry.epoch \in Nat /\ entry.key = k
    <3>1. entry \in Entry
      BY <1>7, ExchangeNumbers
    <3> QED
      BY <3>1 DEF Entry
  <2> HIDE DEF k, seen, entry
  <2>2. staged \in StateMachine /\ staged.staged.key \in Key
    BY <1>6, <2>1 DEF RecordStaged, StateMachine, Phase
  <2> HIDE DEF staged
  <2>3. RecordActivated(staged) \in StateMachine /\ RecordActivated(staged).phase = "retiring"
    BY <2>2, RecordActivatedFacts
  <2>4. RetirePrevious(RecordActivated(staged), TRUE).phase \in {"idle", "retiring"}
    BY <2>3, RetirePreviousFacts
  <2> QED
    BY <1>1, <2>4 DEF TcpInv, EndsInStep
<1> HIDE DEF entry
<1> QED
  BY <1>1, <1>2, <1>5, <1>7, <1>8

LEMMA ExchangeInstalls ==
  ASSUME TcpInv, ExchangeInv, ClientHandleAck, AckInstalls(Head(wire["client"])),
         Head(wire["client"]).body.eph = pending.eph
  PROVE  ExchangeInv'
<1>1. /\ ServerAhead
      /\ newest' = [newest EXCEPT !["client"] = newest["server"]]
      /\ sm'["client"].phase # "staged"
      /\ pending' = None /\ UNCHANGED <<tx, freshEph, built, reply>>
      /\ wire["client"] # << >> /\ wire'["client"] = Tail(wire["client"])
      /\ wire'["server"] = wire["server"]
  BY InstallsNewest
<1>2. /\ newest'["client"] = newest["server"] /\ newest'["server"] = newest["server"]
      /\ newest["server"].epoch \in Nat
  BY <1>1, ExchangeNumbers DEF TcpInv, EndsInStep, Node
<1>3. ServerLeads' /\ ~ServerAhead'
  BY <1>2 DEF ServerLeads, ServerAhead
<1>4. TransactionNames' /\ ClientNeverStaged'
  BY <1>1, <1>2 DEF ExchangeInv, TransactionNames, ClientNeverStaged
<1>5. AcksInOrder'
  <2>1. Frames(wire'["client"]) \subseteq Frames(wire["client"])
    BY <1>1, ExchangeNumbers, TailFrames
  <2> QED
    BY <1>1, <2>1 DEF ExchangeInv, AcksInOrder
<1>6. RequestsInOrder'
  BY <1>1, InitsForget DEF ExchangeInv, RequestsInOrder
<1> QED
  BY <1>3, <1>4, <1>5, <1>6 DEF ExchangeInv

(* StartRekey: a request is only taken up when both ends are at the same   *)
(* epoch, and it is newer than the one before.                             *)
LEMMA TakesUpRequest ==
  ASSUME TcpInv, WireInv, ExchangeInv, ServerStartRekey
  PROVE  LET f == Head(wire["server"])
             key == Derive(newest["client"].key, f.body.eph, freshEph["server"])
         IN  /\ ~ServerAhead /\ newest["server"] = newest["client"]
             /\ newest' = [newest EXCEPT !["server"] =
                             [epoch |-> newest["client"].epoch + 1, key |-> key]]
             /\ tx' = NewTransaction(f.body, RekeyAck(f.body.eph, freshEph["server"]), f.epoch,
                                     newest["client"].epoch + 1)
             /\ tx # None => tx.request.eph < f.body.eph
             /\ f \in Frame /\ f.body \in Payload /\ f.body.kind = "init" /\ f.body.eph \in Nat
             /\ f.epoch = newest["client"].epoch \/ tx = None
             /\ wire["server"] # << >> /\ wire'["server"] = Tail(wire["server"])
             /\ wire'["client"] = wire["client"]
             /\ reply = None /\ reply' = RekeyAck(f.body.eph, freshEph["server"])
<1> DEFINE f == Head(wire["server"])
           seen == ObservedSm("server", f.epoch)
<1>1. /\ "server" \in Node /\ "client" \in Node /\ ServerTakes /\ Take("server") /\ reply = None
      /\ f.body.kind = "init" /\ MayStart(SeenTx(f), f.body, f.epoch, seen)
      /\ newest' = [newest EXCEPT !["server"] =
                      [epoch |-> newest["server"].epoch + 1,
                       key |-> Derive(seen.current.key, f.body.eph, freshEph["server"])]]
      /\ tx' = NewTransaction(f.body, RekeyAck(f.body.eph, freshEph["server"]), f.epoch,
                              newest["server"].epoch + 1)
      /\ reply' = RekeyAck(f.body.eph, freshEph["server"])
  BY DEF ServerStartRekey, ServerTakes, Node
<1>2. /\ wire["server"] # << >> /\ wire'["server"] = Tail(wire["server"])
      /\ wire'["client"] = wire["client"]
  BY <1>1 DEF Take, TcpInv, ExchangeTypes
<1>3. /\ f \in Frame /\ f.epoch \in Nat /\ f.body \in Payload /\ f.body.eph \in Nat
      /\ f = wire["server"][1] /\ 1 \in DOMAIN wire["server"]
  <2>1. f \in Frame /\ f = wire["server"][1] /\ 1 \in DOMAIN wire["server"]
    BY <1>2, ExchangeNumbers, TailFrames
  <2> QED
    BY <2>1, FrameTypes
<1>4. seen.phase = "idle" /\ seen.current = newest["server"]
  <2>1. seen.phase = "idle"
    BY <1>1 DEF MayStart, ReadyForRekey
  <2>2. EndInStep(seen, PreviousAfter("server", f.epoch), send["server"], newest["server"])
    BY <1>1, <1>3, SeenPhase
  <2> HIDE DEF seen
  <2> QED
    BY <2>1, <2>2 DEF EndInStep
<1>5. SameExchange(tx, SeenTx(f))
  BY ExchangeNumbers, TxNotes DEF SeenTx
<1>6. f.epoch <= newest["client"].epoch
  <2>1. send["client"] = newest["client"]
    BY <1>1, EndNumbers DEF ExchangeInv, ClientNeverStaged, EndInStep
  <2>2. f.epoch <= send["client"].epoch
    <3>1. Peer("server") = "client"
      BY DEF Peer
    <3> QED
      BY <1>1, <1>3, <3>1 DEF WireInv, InOrder
  <2> QED
    BY <2>1, <2>2
<1> HIDE DEF f, seen
<1>7. tx # None => /\ tx.request # f.body
                   /\ f.epoch = newest["server"].epoch
  BY <1>1, <1>5 DEF MayStart, SameRequest, SameExchange, ExchangeInv, TransactionNames
<1>8. ~ServerAhead
  <2>1. CASE tx = None
    BY <2>1, ExchangeNumbers DEF ExchangeInv, TransactionNames, ServerAhead
  <2>2. CASE tx # None
    BY <1>6, <1>7, <2>2, ExchangeNumbers DEF ServerAhead
  <2> QED
    BY <2>1, <2>2
<1>9. newest["server"] = newest["client"]
  BY <1>8 DEF ExchangeInv, ServerLeads
<1>10. tx # None => tx.request.eph < f.body.eph
  <2>1. tx # None => NoLater(tx.request, f.body)
    BY <1>1, <1>3 DEF ExchangeInv, RequestsInOrder, InitsInOrder
  <2> QED
    BY <1>3, <1>7, <2>1, ExchangeNumbers DEF NoLater
<1> QED
  BY <1>1, <1>2, <1>3, <1>4, <1>7, <1>8, <1>9, <1>10 DEF f

LEMMA ExchangeStarts == TcpInv /\ WireInv /\ ExchangeInv /\ ServerStartRekey => ExchangeInv'
<1> SUFFICES ASSUME TcpInv, WireInv, ExchangeInv, ServerStartRekey PROVE ExchangeInv'
  OBVIOUS
<1> DEFINE f == Head(wire["server"])
           pub == freshEph["server"]
           key == Derive(newest["client"].key, f.body.eph, pub)
           ack == RekeyAck(f.body.eph, pub)
           e == newest["client"].epoch + 1
<1>1. /\ ~ServerAhead /\ newest["server"] = newest["client"]
      /\ newest' = [newest EXCEPT !["server"] = [epoch |-> e, key |-> key]]
      /\ tx' = NewTransaction(f.body, ack, f.epoch, e)
      /\ tx # None => tx.request.eph < f.body.eph
      /\ f \in Frame /\ f.body \in Payload /\ f.body.kind = "init" /\ f.body.eph \in Nat
      /\ wire["server"] # << >> /\ wire'["server"] = Tail(wire["server"])
      /\ wire'["client"] = wire["client"]
      /\ reply = None /\ reply' = ack
  BY TakesUpRequest
<1>2. /\ sm'["client"] = sm["client"] /\ freshEph'["client"] = freshEph["client"]
      /\ pending' = pending /\ built' = built
  BY DEF ServerStartRekey, TcpInv, EndsInStep, ExchangeTypes, Node
<1>3. /\ newest'["client"] = newest["client"] /\ newest'["server"] = [epoch |-> e, key |-> key]
  <2> HIDE DEF e, key
  <2> QED
    BY <1>1 DEF TcpInv, EndsInStep, Node
<1>4. TcpInv'
  BY StartInStep
<1>5. /\ tx' # None /\ tx'.request = f.body /\ tx'.response = ack /\ tx'.epoch = e
      /\ ack.kind = "ack" /\ ack.eph = f.body.eph /\ ack.pub = pub
  <2>1. ack \in Payload /\ e \in Nat /\ f.epoch \in Nat
    BY <1>1, ExchangeNumbers, PayloadTypes, FrameTypes
  <2>2. ack.kind = "ack" /\ ack.eph = f.body.eph /\ ack.pub = pub
    BY DEF RekeyAck
  <2> HIDE DEF f, ack, e
  <2>3. tx' \in Transaction
    BY <1>1, <2>1 DEF NewTransaction, Transaction
  <2>4. tx' # None
    BY <2>3, NoneAssumption
  <2> QED
    BY <1>1, <2>2, <2>4 DEF NewTransaction
<1>6. newest["client"].epoch \in Nat
  BY ExchangeNumbers
<1> HIDE DEF f, ack, pub
<1>7. ServerLeads' /\ ServerAhead' /\ TransactionNames' /\ ClientNeverStaged'
  BY <1>1, <1>2, <1>3, <1>5, <1>6
  DEF ServerLeads, ServerAhead, TransactionNames, ClientNeverStaged, ExchangeInv
<1> HIDE DEF e, key
<1>8. AcksInOrder'
  <2>1. Answers(ack, tx')
    BY <1>1, <1>5 DEF Answers
  <2>2. ASSUME NEW g \in Frames(wire["client"]), g.body.kind = "ack"
        PROVE  Answers(g.body, tx')
    <3>1. g.body.eph \in Nat
      <4>1. g \in Frame
        BY ExchangeNumbers, FramesOfQueue DEF Frames
      <4> QED
        BY <4>1, FrameTypes
    <3>2. Answers(g.body, tx)
      BY <2>2 DEF ExchangeInv, AcksInOrder
    <3> QED
      BY <1>1, <1>5, <3>1, <3>2, ExchangeNumbers DEF Answers
  <2> QED
    BY <1>1, <2>1, <2>2 DEF AcksInOrder
<1>9. InitsInOrder(Tail(wire["server"]), tx', built, pending, freshEph["client"])
  <2>1. InitsInOrder(wire["server"], tx, built, pending, freshEph["client"])
    BY DEF ExchangeInv, RequestsInOrder
  <2> QED
    BY <1>1, <1>5, <2>1, ExchangeNumbers, InitsTakenUp DEF f
<1> QED
  BY <1>1, <1>2, <1>7, <1>8, <1>9 DEF ExchangeInv, RequestsInOrder

(* What is needed of the acks: one that installs an epoch answers the      *)
(* pending exchange.  V2 checks it; under V1 the fast link sees to it.     *)
OwnAck ==
  ClientHandleAck /\ AckInstalls(Head(wire["client"]))
    => Head(wire["client"]).body.eph = pending.eph

LEMMA OwnAckV2 == V2 => OwnAck
BY DEF OwnAck, AckInstalls, AckAuthentic

(* The client takes a frame that installs nothing. *)
LEMMA ExchangeClientTakes ==
  ASSUME TcpInv, ExchangeInv,
         \/ ClientReceive \/ ClientReceiveExhausted
         \/ ClientHandleAck /\ ~AckInstalls(Head(wire["client"]))
  PROVE  ExchangeInv'
<1> DEFINE f == Head(wire["client"])
<1>1. /\ "client" \in Node /\ Take("client")
      /\ sm' = [sm EXCEPT !["client"] = ObservedSm("client", f.epoch)]
      /\ UNCHANGED <<newest, tx, freshEph, built, reply>> /\ pending' \in {pending, None}
  BY DEF ClientReceive, ClientReceiveExhausted, ClientHandleAck, exchange, Node
<1>2. /\ wire["client"] # << >> /\ wire'["client"] = Tail(wire["client"])
      /\ wire'["server"] = wire["server"] /\ f.epoch \in Nat
  BY <1>1, Taken, FrameTypes DEF Take, TcpInv, ExchangeTypes
<1>3. sm'["client"].phase # "staged"
  <2>1. sm'["client"] = ObservedSm("client", f.epoch)
    BY <1>1 DEF TcpInv, EndsInStep
  <2> HIDE DEF f
  <2> QED
    BY <1>1, <1>2, <2>1, SeenPhase DEF ExchangeInv, ClientNeverStaged
<1>4. SameExchange(tx, tx')
  BY <1>1 DEF SameExchange
<1> QED
  BY <1>1, <1>2, <1>3, <1>4, ExchangeKept

(* The server takes a frame without taking up a request. *)
LEMMA ExchangeServerTakes ==
  ASSUME TcpInv, ExchangeInv, ServerReceive \/ ServerResendAck \/ ServerDeclineInit
  PROVE  ExchangeInv'
<1> DEFINE f == Head(wire["server"])
<1>1. /\ Take("server") /\ sm'["client"] = sm["client"]
      /\ UNCHANGED <<newest, pending, freshEph, built>> /\ tx' = SeenTx(f)
  BY DEF ServerReceive, ServerResendAck, ServerDeclineInit, ServerTakes, TcpInv, EndsInStep, Node
<1>2. /\ wire["server"] # << >> /\ wire'["server"] = Tail(wire["server"])
      /\ wire'["client"] = wire["client"]
  BY <1>1 DEF Take, TcpInv, ExchangeTypes, Node
<1>3. SameExchange(tx, tx')
  BY <1>1, ExchangeNumbers, TxNotes DEF SeenTx
<1>4. \/ reply' \in {reply, None} \/ reply'.kind # "ack"
      \/ tx # None /\ reply' = tx.response
  <2>1. CASE ServerReceive
    BY <2>1 DEF ServerReceive, Plain
  <2>2. CASE ServerResendAck
    <3>1. SeenTx(f) # None /\ reply' = SeenTx(f).response
      BY <2>2 DEF ServerResendAck, MayResend, SameRequest
    <3> QED
      BY <1>1, <1>3, <3>1 DEF SameExchange
  <2>3. CASE ServerDeclineInit
    BY <2>3 DEF ServerDeclineInit, Plain
  <2> QED
    BY <2>1, <2>2, <2>3
<1>5. sm'["client"].phase # "staged"
  BY <1>1 DEF ExchangeInv, ClientNeverStaged
<1> QED
  BY <1>1, <1>2, <1>3, <1>4, <1>5, ExchangeKept

LEMMA ExchangeStep ==
  TcpInv /\ WireInv /\ ExchangeInv /\ OwnAck /\ [Next]_vars => ExchangeInv'
<1> SUFFICES ASSUME TcpInv, WireInv, ExchangeInv, OwnAck, [Next]_vars PROVE ExchangeInv'
  OBVIOUS
<1>n. "client" \in Node /\ "server" \in Node
  BY DEF Node
<1>1. ASSUME NEW n \in Node, TunSend(n) PROVE ExchangeInv'
  <2>1. Plain("data").kind = "data"
    BY DEF Plain
  <2> QED
    BY <1>1, <2>1, PayloadTypes, ExchangeWrites DEF TunSend
<1>2. ASSUME SendPing PROVE ExchangeInv'
  <2>1. Plain("ping").kind = "ping"
    BY DEF Plain
  <2> QED
    BY <1>n, <1>2, <2>1, PayloadTypes, ExchangeWrites DEF SendPing
<1>3. ASSUME SendRekeyInit PROVE ExchangeInv'
  <2>1. built \in Payload
    BY <1>3 DEF SendRekeyInit, TcpInv, ExchangeTypes
  <2> QED
    BY <1>n, <1>3, <2>1, ExchangeWrites DEF SendRekeyInit
<1>4. ASSUME SendReply PROVE ExchangeInv'
  <2>1. reply \in Payload
    BY <1>4 DEF SendReply, TcpInv, ExchangeTypes
  <2> QED
    BY <1>n, <1>4, <2>1, ExchangeWrites DEF SendReply
<1>5. ASSUME NEW n \in Node, DecryptFails(n) PROVE ExchangeInv'
  <2>1. /\ UNCHANGED <<sm, newest, tx, pending, freshEph, built, reply>> /\ wire[n] # << >>
        /\ wire' = [wire EXCEPT ![n] = Tail(wire[n])]
    BY <1>5 DEF DecryptFails, Take, crypto, exchange
  <2>2. SameExchange(tx, tx')
    BY <2>1 DEF SameExchange
  <2>3. /\ \/ wire'["client"] = wire["client"]
           \/ wire["client"] # << >> /\ wire'["client"] = Tail(wire["client"])
        /\ \/ wire'["server"] = wire["server"]
           \/ wire["server"] # << >> /\ wire'["server"] = Tail(wire["server"])
    BY <1>n, <2>1 DEF TcpInv, ExchangeTypes
  <2>4. sm'["client"].phase # "staged"
    BY <2>1 DEF ExchangeInv, ClientNeverStaged
  <2> QED
    BY <2>1, <2>2, <2>3, <2>4, ExchangeKept
<1>6. ASSUME ServerActivate PROVE ExchangeInv'
  <2>1. /\ UNCHANGED <<newest, pending, freshEph, built, reply, wire>>
        /\ tx' = TxActivated(tx, promote)
    BY <1>6 DEF ServerActivate
  <2>2. SameExchange(tx, tx')
    BY <2>1, ExchangeNumbers, TxNotes
  <2>3. sm'["client"] = sm["client"]
    <3>1. sm' = sm \/ \E s : sm' = [sm EXCEPT !["server"] = s]
      BY <1>6, Zenon DEF ServerActivate
    <3> QED
      BY <1>n, <3>1 DEF TcpInv, EndsInStep
  <2>4. sm'["client"].phase # "staged"
    BY <2>3 DEF ExchangeInv, ClientNeverStaged
  <2> QED
    BY <2>1, <2>2, <2>4, ExchangeKept
<1>7. ASSUME UNCHANGED vars PROVE ExchangeInv'
  <2>1. /\ UNCHANGED <<sm, newest, tx, pending, freshEph, built, reply, wire>>
    BY <1>7 DEF vars, crypto, exchange
  <2>2. SameExchange(tx, tx') /\ sm'["client"].phase # "staged"
    BY <2>1 DEF SameExchange, ExchangeInv, ClientNeverStaged
  <2> QED
    BY <2>1, <2>2, ExchangeKept
<1>8. ASSUME ClientHandleAck PROVE ExchangeInv'
  BY <1>8, ExchangeClientTakes, ExchangeInstalls DEF OwnAck
<1>9. ASSUME ClientReceive \/ ClientReceiveExhausted PROVE ExchangeInv'
  BY <1>9, ExchangeClientTakes
<1>10. ASSUME ServerReceive \/ ServerResendAck \/ ServerDeclineInit PROVE ExchangeInv'
  BY <1>10, ExchangeServerTakes
<1> QED
  BY <1>1, <1>2, <1>3, <1>4, <1>5, <1>6, <1>7, <1>8, <1>9, <1>10, ExchangeBuilds, ExchangeStarts
  DEF Next, Ended

LEMMA InitExchange == Init => ExchangeInv
<1> SUFFICES ASSUME Init PROVE ExchangeInv
  OBVIOUS
<1>1. /\ tx = None /\ pending = None /\ built = None /\ reply = None
      /\ wire["client"] = << >> /\ wire["server"] = << >>
      /\ newest["client"] = newest["server"] /\ newest["server"].epoch = 0
      /\ sm["client"].phase = "idle"
  BY DEF Init, Node, NewStateMachine
<1>2. Frames(wire["client"]) = {} /\ DOMAIN wire["server"] = {}
  BY <1>1 DEF Frames
<1> QED
  BY <1>1, <1>2
  DEF ExchangeInv, ClientNeverStaged, TransactionNames, ServerLeads, ServerAhead, AcksInOrder,
      RequestsInOrder, InitsInOrder

-----------------------------------------------------------------------------
(* The keys.  The client only installs keys the server has; only the       *)
(* server begins an epoch, the one after all that are in use or on the     *)
(* wire.                                                                   *)
LEMMA HeldEpochs ==
  ASSUME TcpInv, WireInv, ExchangeInv, NEW a \in Material
  PROVE  a.epoch \in Nat /\ a.epoch <= newest["server"].epoch
<1>1. PICK n \in Node : a \in Held(n) \cup OnWire(n)
  BY DEF Material
<1>2. ASSUME NEW m \in Node
      PROVE  /\ newest[m].epoch \in Nat /\ newest[m].epoch <= newest["server"].epoch
             /\ send[m].epoch \in Nat /\ send[m].epoch <= newest[m].epoch
             /\ previous[m] # None => previous[m].epoch \in Nat
                                      /\ previous[m].epoch <= newest[m].epoch
  <2>1. /\ newest[m].epoch \in Nat /\ send[m].epoch \in Nat
        /\ previous[m] # None => previous[m].epoch \in Nat
        /\ EndInStep(sm[m], previous[m], send[m], newest[m])
    BY EndNumbers
  <2>2. Adjacent(previous[m], newest[m])
    BY DEF WireInv
  <2>3. newest[m].epoch <= newest["server"].epoch
    <3>1. newest["client"].epoch <= newest["server"].epoch
      BY ExchangeNumbers DEF ExchangeInv, ServerLeads, ServerAhead
    <3> QED
      BY <3>1, ExchangeNumbers DEF Node
  <2>4. send[m] = newest[m] \/ (previous[m] = send[m] /\ previous[m] # None)
    BY <2>1, NoEntryAssumption DEF EndInStep
  <2> QED
    BY <2>1, <2>2, <2>3, <2>4 DEF Adjacent
<1>3. CASE a \in Held(n)
  <2>1. a = newest[n] \/ a = send[n] \/ (a = previous[n] /\ previous[n] # None)
    BY <1>3 DEF Held
  <2> QED
    BY <1>2, <2>1, ExchangeNumbers
<1>4. CASE a \in OnWire(n)
  <2>1. PICK f \in Frames(wire[n]) : a = [epoch |-> f.epoch, key |-> f.key]
    BY <1>4 DEF OnWire
  <2>2. PICK i \in DOMAIN wire[n] : f = wire[n][i]
    BY DEF Frames
  <2>3. f.epoch \in Nat /\ f.epoch <= send[Peer(n)].epoch
    BY <2>2, EndNumbers, FramesOfQueue DEF WireInv, InOrder
  <2>4. Peer(n) \in Node
    BY EndNumbers
  <2> QED
    BY <1>2, <2>1, <2>3, <2>4, ExchangeNumbers
<1> QED
  BY <1>1, <1>3, <1>4

LEMMA NoNewKeys ==
  ASSUME OneKeyPerEpoch, Material' \subseteq Material
  PROVE  OneKeyPerEpoch'
BY DEF OneKeyPerEpoch

(* What an end holds and what is on its way to it. *)
LEMMA MaterialOf ==
  ASSUME NEW n \in Node
  PROVE  /\ Held(n) \subseteq Material /\ OnWire(n) \subseteq Material
         /\ newest[n] \in Material /\ send[n] \in Material
         /\ previous[n] # None => previous[n] \in Material
BY DEF Material, Held

LEMMA MaterialShrinks ==
  ASSUME NEW S, \A n \in Node : newest'[n] \in S /\ send'[n] \in S,
         \A n \in Node : previous'[n] # None => previous'[n] \in S,
         \A n \in Node : \A f \in Frames(wire'[n]) : [epoch |-> f.epoch, key |-> f.key] \in S
  PROVE  Material' \subseteq S
<1> SUFFICES ASSUME NEW a \in Material' PROVE a \in S
  OBVIOUS
<1>1. PICK n \in Node : a \in Held(n)' \cup OnWire(n)'
  BY DEF Material
<1>2. CASE a \in Held(n)'
  <2>1. a = newest'[n] \/ a = send'[n] \/ (a = previous'[n] /\ previous'[n] # None)
    BY <1>2 DEF Held
  <2> QED
    BY <2>1
<1>3. CASE a \in OnWire(n)'
  BY <1>3 DEF OnWire
<1> QED
  BY <1>1, <1>2, <1>3

(* A step that begins no epoch and writes nothing. *)
LEMMA KeysKept ==
  ASSUME TcpInv, OneKeyPerEpoch,
         \A n \in Node : newest'[n] \in Material /\ send'[n] \in Material,
         \A n \in Node : previous'[n] # None => previous'[n] \in Material,
         \A n \in Node : Frames(wire'[n]) \subseteq Frames(wire[n])
  PROVE  OneKeyPerEpoch'
<1>1. \A n \in Node : \A f \in Frames(wire'[n]) : [epoch |-> f.epoch, key |-> f.key] \in Material
  BY MaterialOf DEF OnWire
<1> QED
  BY <1>1, MaterialShrinks, NoNewKeys

(* A frame is sealed with a key in use. *)
LEMMA KeysWritten ==
  ASSUME TcpInv, OneKeyPerEpoch, NEW n \in Node, NEW body \in Payload, Write(n, body), UNCHANGED crypto
  PROVE  OneKeyPerEpoch'
<1> DEFINE f == Sealed(n, body)
<1>1. /\ send[n] \in Entry /\ Peer(n) \in Node /\ wire[Peer(n)] \in Seq(Frame)
  BY EndNumbers
<1>2. f \in Frame /\ [epoch |-> f.epoch, key |-> f.key] = send[n]
  BY <1>1 DEF Sealed, Frame, Entry
<1>3. ASSUME NEW m \in Node, NEW g \in Frames(wire'[m])
      PROVE  [epoch |-> g.epoch, key |-> g.key] \in Material
  <2>1. wire' = [wire EXCEPT ![Peer(n)] = Append(wire[Peer(n)], f)]
    BY DEF Write
  <2> HIDE DEF f
  <2>2. Frames(Append(wire[Peer(n)], f)) = Frames(wire[Peer(n)]) \cup {f}
    BY <1>1, <1>2, AppendFrames
  <2>3. wire'[m] = wire[m] \/ (m = Peer(n) /\ wire'[m] = Append(wire[Peer(n)], f))
    BY <1>1, <2>1 DEF TcpInv, ExchangeTypes
  <2>4. CASE wire'[m] = wire[m]
    <3>1. g \in Frames(wire[m])
      BY <1>3, <2>4
    <3> QED
      BY <3>1, MaterialOf DEF OnWire
  <2>5. CASE m = Peer(n) /\ wire'[m] = Append(wire[Peer(n)], f)
    <3>1. g \in Frames(wire[m]) \/ g = f
      BY <1>3, <2>2, <2>5
    <3> QED
      BY <1>2, <3>1, MaterialOf DEF OnWire
  <2> QED
    BY <2>3, <2>4, <2>5
<1>4. /\ \A m \in Node : newest'[m] \in Material /\ send'[m] \in Material
      /\ \A m \in Node : previous'[m] # None => previous'[m] \in Material
  BY MaterialOf DEF crypto
<1> QED
  BY <1>3, <1>4, MaterialShrinks, NoNewKeys

(* An end that takes a frame and forgets at most its previous session. *)
LEMMA KeysTaken ==
  ASSUME TcpInv, OneKeyPerEpoch, NEW n \in Node, Take(n), UNCHANGED <<newest, send>>,
         \A m \in Node : previous'[m] \in {previous[m], None}
  PROVE  OneKeyPerEpoch'
<1>1. \A m \in Node : Frames(wire'[m]) \subseteq Frames(wire[m])
  BY EndNumbers, TailFrames DEF Take, TcpInv, ExchangeTypes
<1>2. /\ \A m \in Node : newest'[m] \in Material /\ send'[m] \in Material
      /\ \A m \in Node : previous'[m] # None => previous'[m] \in Material
  BY MaterialOf
<1> QED
  BY <1>1, <1>2, KeysKept

LEMMA PreviousShrinks ==
  ASSUME TcpInv, NEW n \in Node, NEW e, previous' = [previous EXCEPT ![n] = PreviousAfter(n, e)]
  PROVE  \A m \in Node : previous'[m] \in {previous[m], None}
BY DEF PreviousAfter, TcpInv, EndsInStep

(* The client installs the newest session of the server. *)
LEMMA KeysInstalled ==
  ASSUME TcpInv, ExchangeInv, OneKeyPerEpoch, OwnAck, ClientHandleAck
  PROVE  OneKeyPerEpoch'
<1> DEFINE f == Head(wire["client"])
<1>1. "client" \in Node /\ "server" \in Node /\ Take("client")
  BY DEF ClientHandleAck, Node
<1>2. CASE ~AckInstalls(f)
  <2>1. /\ UNCHANGED <<newest, send>>
        /\ previous' = [previous EXCEPT !["client"] = PreviousAfter("client", f.epoch)]
    BY <1>2 DEF ClientHandleAck
  <2> HIDE DEF f
  <2> QED
    BY <1>1, <2>1, PreviousShrinks, KeysTaken
<1>3. CASE AckInstalls(f)
  <2>1. newest' = [newest EXCEPT !["client"] = newest["server"]]
    BY <1>3, InstallsNewest DEF OwnAck
  <2>2. \E entry : newest' = [newest EXCEPT !["client"] = entry]
                   /\ send' = [send EXCEPT !["client"] = entry]
    BY <1>3 DEF ClientHandleAck
  <2>3. newest'["client"] = newest["server"] /\ send'["client"] = newest["server"]
        /\ newest'["server"] = newest["server"] /\ send'["server"] = send["server"]
    BY <1>1, <2>1, <2>2 DEF TcpInv, EndsInStep
  <2>4. \E prev \in {None, newest["client"]} : previous' = [previous EXCEPT !["client"] = prev]
    BY <1>3 DEF ClientHandleAck
  <2>5. /\ previous'["client"] \in {None, newest["client"]}
        /\ previous'["server"] = previous["server"]
    BY <1>1, <2>4 DEF TcpInv, EndsInStep
  <2>6. \A m \in Node : m = "client" \/ m = "server"
    BY DEF Node
  <2>7. \A m \in Node : Frames(wire'[m]) \subseteq Frames(wire[m])
    <3>1. wire \in [Node -> Seq(Frame)]
      BY DEF TcpInv, ExchangeTypes
    <3>2. wire["client"] \in Seq(Frame) /\ wire["client"] # << >>
      BY <1>1, <3>1 DEF Take
    <3>3. Frames(Tail(wire["client"])) \subseteq Frames(wire["client"])
      BY <3>2, TailFrames
    <3> QED
      BY <1>1, <3>1, <3>3 DEF Take
  <2>8. /\ \A m \in Node : newest'[m] \in Material /\ send'[m] \in Material
        /\ \A m \in Node : previous'[m] # None => previous'[m] \in Material
    BY <1>1, <2>3, <2>5, <2>6, MaterialOf
  <2> QED
    BY <2>7, <2>8, KeysKept
<1> QED
  BY <1>2, <1>3

(* The server begins the epoch after all others. *)
LEMMA KeysBegun ==
  ASSUME TcpInv, WireInv, ExchangeInv, OneKeyPerEpoch, ServerStartRekey
  PROVE  OneKeyPerEpoch'
<1>1. PICK key : newest' = [newest EXCEPT !["server"] =
                              [epoch |-> newest["server"].epoch + 1, key |-> key]]
  BY DEF ServerStartRekey
<1> DEFINE entry == [epoch |-> newest["server"].epoch + 1, key |-> key]
           S == Material \cup {entry}
<1>2. /\ "client" \in Node /\ "server" \in Node /\ Take("server")
      /\ \A m \in Node : m = "client" \/ m = "server"
      /\ previous' = [previous EXCEPT !["server"] = newest["server"]] /\ send' = send
  BY DEF ServerStartRekey, ServerTakes, Node
<1>3. \A a \in Material : a.epoch # entry.epoch
  <2> SUFFICES ASSUME NEW a \in Material PROVE a.epoch # newest["server"].epoch + 1
    OBVIOUS
  <2> QED
    BY HeldEpochs, ExchangeNumbers
<1> HIDE DEF entry
<1>4. /\ newest'["server"] = entry /\ newest'["client"] = newest["client"]
      /\ previous'["server"] = newest["server"] /\ previous'["client"] = previous["client"]
  BY <1>1, <1>2 DEF TcpInv, EndsInStep, entry
<1>5. /\ \A m \in Node : newest'[m] \in S /\ send'[m] \in S
      /\ \A m \in Node : previous'[m] # None => previous'[m] \in S
  BY <1>2, <1>4, MaterialOf
<1>6. \A m \in Node : Frames(wire'[m]) \subseteq Frames(wire[m])
  BY <1>2, EndNumbers, TailFrames, SMTT(30) DEF Take, TcpInv, ExchangeTypes
<1>7. \A m \in Node : \A f \in Frames(wire'[m]) : [epoch |-> f.epoch, key |-> f.key] \in S
  BY <1>6, MaterialOf DEF OnWire
<1>8. Material' \subseteq S
  <2> HIDE DEF S
  <2> QED
    BY <1>5, <1>7, MaterialShrinks
<1> QED
  BY <1>3, <1>8 DEF OneKeyPerEpoch

(* The server goes on to its newest session. *)
LEMMA KeysActivated ==
  ASSUME TcpInv, OneKeyPerEpoch, ServerActivate
  PROVE  OneKeyPerEpoch'
<1>1. /\ wire' = wire /\ newest' = newest
      /\ send' = send \/ \E s \in {send["server"], newest["server"]} :
                           send' = [send EXCEPT !["server"] = s]
      /\ previous' = previous \/ \E p \in {None, previous["server"]} :
                                   previous' = [previous EXCEPT !["server"] = p]
  BY DEF ServerActivate
<1>2. \A m \in Node : send'[m] \in {send[m], newest[m]} /\ previous'[m] \in {previous[m], None}
  BY <1>1 DEF TcpInv, EndsInStep
<1>3. /\ \A m \in Node : newest'[m] \in Material /\ send'[m] \in Material
      /\ \A m \in Node : previous'[m] # None => previous'[m] \in Material
      /\ \A m \in Node : Frames(wire'[m]) \subseteq Frames(wire[m])
  BY <1>1, <1>2, MaterialOf
<1> QED
  BY <1>3, KeysKept

LEMMA KeysStep ==
  TcpInv /\ WireInv /\ ExchangeInv /\ OneKeyPerEpoch /\ OwnAck /\ [Next]_vars => OneKeyPerEpoch'
<1> SUFFICES ASSUME TcpInv, WireInv, ExchangeInv, OneKeyPerEpoch, OwnAck, [Next]_vars
             PROVE  OneKeyPerEpoch'
  OBVIOUS
<1>n. "client" \in Node /\ "server" \in Node
  BY DEF Node
<1>1. ASSUME NEW n \in Node, TunSend(n) PROVE OneKeyPerEpoch'
  BY <1>1, PayloadTypes, KeysWritten DEF TunSend
<1>2. ASSUME SendPing PROVE OneKeyPerEpoch'
  BY <1>n, <1>2, PayloadTypes, KeysWritten DEF SendPing
<1>3. ASSUME SendRekeyInit PROVE OneKeyPerEpoch'
  <2>1. built \in Payload /\ Write("client", built) /\ UNCHANGED crypto
    BY <1>3 DEF SendRekeyInit, TcpInv, ExchangeTypes
  <2> QED
    BY <1>n, <2>1, KeysWritten
<1>4. ASSUME SendReply PROVE OneKeyPerEpoch'
  <2>1. reply \in Payload /\ Write("server", reply) /\ UNCHANGED crypto
    BY <1>4 DEF SendReply, TcpInv, ExchangeTypes
  <2> QED
    BY <1>n, <2>1, KeysWritten
<1>5. ASSUME NEW n \in Node, DecryptFails(n) PROVE OneKeyPerEpoch'
  <2>1. Take(n) /\ UNCHANGED <<newest, send>> /\ \A m \in Node : previous'[m] \in {previous[m], None}
    BY <1>5 DEF DecryptFails, crypto
  <2> QED
    BY <2>1, KeysTaken
<1>6. ASSUME ClientReceive \/ ClientReceiveExhausted PROVE OneKeyPerEpoch'
  <2>1. /\ Take("client") /\ UNCHANGED <<newest, send>>
        /\ previous' = [previous EXCEPT !["client"] =
                          PreviousAfter("client", Head(wire["client"]).epoch)]
    BY <1>6 DEF ClientReceive, ClientReceiveExhausted
  <2> QED
    BY <1>n, <2>1, PreviousShrinks, KeysTaken
<1>7. ASSUME ServerReceive \/ ServerResendAck \/ ServerDeclineInit PROVE OneKeyPerEpoch'
  <2>1. /\ Take("server") /\ UNCHANGED <<newest, send>>
        /\ previous' = [previous EXCEPT !["server"] =
                          PreviousAfter("server", Head(wire["server"]).epoch)]
    BY <1>7 DEF ServerReceive, ServerResendAck, ServerDeclineInit, ServerTakes
  <2> QED
    BY <1>n, <2>1, PreviousShrinks, KeysTaken
<1>8. ASSUME BuildRekeyInit \/ UNCHANGED vars PROVE OneKeyPerEpoch'
  <2>1. UNCHANGED <<newest, send, previous, wire>>
    BY <1>8 DEF BuildRekeyInit, vars, crypto
  <2> QED
    BY <2>1, MaterialOf, KeysKept
<1> QED
  BY <1>1, <1>2, <1>3, <1>4, <1>5, <1>6, <1>7, <1>8, KeysInstalled, KeysBegun, KeysActivated
  DEF Next, Ended

LEMMA InitKeys == Init => OneKeyPerEpoch
<1> SUFFICES ASSUME Init PROVE OneKeyPerEpoch
  OBVIOUS
<1> DEFINE first == [epoch |-> 0, key |-> InitialKey]
<1>1. \A n \in Node : /\ newest[n] = first /\ send[n] = first /\ previous[n] = None
                      /\ wire[n] = << >>
  BY DEF Init
<1>2. \A n \in Node : Held(n) = {first} /\ OnWire(n) = {}
  BY <1>1 DEF Held, OnWire, Frames
<1> QED
  BY <1>2 DEF OneKeyPerEpoch, Material

LEMMA OneKeySuffices == OneKeyPerEpoch => KeyAgreement
BY DEF OneKeyPerEpoch, KeyAgreement, Material, Node

-----------------------------------------------------------------------------
(* The one message of an exchange on a fast link.  First a queue of which  *)
(* only the messages of some kinds matter.                                 *)
Messages(q, kinds) == {f \in Frames(q) : f.body.kind \in kinds}
SameMessages(q, r, kinds) ==
  Messages(r, kinds) = Messages(q, kinds) /\ (Once(q, kinds) => Once(r, kinds))

LEMMA TailKeepsMessages ==
  ASSUME NEW q \in Seq(Frame), q # << >>, NEW kinds, Head(q).body.kind \notin kinds
  PROVE  SameMessages(q, Tail(q), kinds)
<1>1. /\ Head(q) = q[1] /\ Frames(Tail(q)) \subseteq Frames(q)
      /\ \A i \in DOMAIN Tail(q) : i \in Nat /\ i + 1 \in DOMAIN q /\ Tail(q)[i] = q[i + 1]
  BY TailFrames
<1>2. ASSUME NEW i \in DOMAIN q, i # 1 PROVE q[i] \in Frames(Tail(q))
  <2>1. i - 1 \in DOMAIN Tail(q) /\ Tail(q)[i - 1] = q[i]
    BY <1>2
  <2> QED
    BY <2>1, Zenon DEF Frames
<1>3. Messages(Tail(q), kinds) = Messages(q, kinds)
  <2>1. ASSUME NEW f \in Frames(q), f.body.kind \in kinds PROVE f \in Frames(Tail(q))
    <3>1. PICK i \in DOMAIN q : f = q[i]
      BY DEF Frames
    <3>2. i # 1
      BY <1>1, <2>1, <3>1
    <3> QED
      BY <1>2, <3>1, <3>2
  <2> QED
    BY <1>1, <2>1 DEF Messages
<1>4. ASSUME Once(q, kinds), NEW i \in DOMAIN Tail(q), NEW j \in DOMAIN Tail(q),
             Tail(q)[i].body.kind \in kinds, Tail(q)[j].body.kind \in kinds
      PROVE  i = j
  <2>1. i + 1 = j + 1
    BY <1>1, <1>4 DEF Once
  <2> QED
    BY <1>1, <2>1
<1> QED
  BY <1>3, <1>4 DEF SameMessages, Once

LEMMA TailTakesMessage ==
  ASSUME NEW q \in Seq(Frame), q # << >>, NEW kinds, Head(q).body.kind \in kinds, Once(q, kinds)
  PROVE  Carries(q, kinds) /\ ~Carries(Tail(q), kinds) /\ Once(Tail(q), kinds)
<1>1. /\ Head(q) = q[1] /\ 1 \in DOMAIN q /\ Head(q) \in Frames(q)
      /\ \A i \in DOMAIN Tail(q) : i \in Nat /\ i + 1 \in DOMAIN q /\ Tail(q)[i] = q[i + 1]
  BY TailFrames
<1>2. ASSUME NEW i \in DOMAIN Tail(q) PROVE Tail(q)[i].body.kind \notin kinds
  <2>1. i # 0 /\ i \in Nat /\ i + 1 # 1
    OBVIOUS
  <2> QED
    BY <1>1, <2>1 DEF Once
<1> QED
  BY <1>1, <1>2 DEF Carries, Once, Frames

LEMMA AppendKeepsMessages ==
  ASSUME NEW q \in Seq(Frame), NEW f \in Frame, NEW kinds, f.body.kind \notin kinds
  PROVE  SameMessages(q, Append(q, f), kinds)
<1>1. /\ Frames(Append(q, f)) = Frames(q) \cup {f}
      /\ \A i \in DOMAIN Append(q, f) :
           \/ i \in DOMAIN q /\ Append(q, f)[i] = q[i]
           \/ i = Len(q) + 1 /\ Append(q, f)[i] = f
  BY AppendFrames
<1> QED
  BY <1>1 DEF SameMessages, Messages, Once

LEMMA AppendAddsMessage ==
  ASSUME NEW q \in Seq(Frame), NEW f \in Frame, NEW kinds, f.body.kind \in kinds, ~Carries(q, kinds)
  PROVE  Messages(Append(q, f), kinds) = {f} /\ Once(Append(q, f), kinds)
<1>1. /\ Frames(Append(q, f)) = Frames(q) \cup {f}
      /\ \A i \in DOMAIN Append(q, f) :
           \/ i \in DOMAIN q /\ Append(q, f)[i] = q[i]
           \/ i = Len(q) + 1 /\ Append(q, f)[i] = f
  BY AppendFrames
<1>2. \A i \in DOMAIN q : q[i].body.kind \notin kinds
  BY DEF Carries, Frames
<1>3. Messages(Append(q, f), kinds) = {f}
  BY <1>1 DEF Messages, Carries
<1>4. \A i \in DOMAIN Append(q, f) : Append(q, f)[i].body.kind \in kinds => i = Len(q) + 1
  BY <1>1, <1>2
<1> QED
  BY <1>3, <1>4, Zenon DEF Once

LEMMA CarriesMessages ==
  ASSUME NEW q, NEW kinds
  PROVE  /\ Carries(q, kinds) <=> Messages(q, kinds) # {}
         /\ \A f \in Frames(q) : f.body.kind \in kinds <=> f \in Messages(q, kinds)
BY DEF Carries, Messages

(* Acks are answers. *)
LEMMA AcksAnswer ==
  /\ AckAbout => Answered
  /\ \A q : Carries(q, AckKinds) => Carries(q, AnswerKinds)
  /\ \A q, r : Messages(q, AnswerKinds) = Messages(r, AnswerKinds)
                 => Messages(q, AckKinds) = Messages(r, AckKinds)
<1>1. \A q : Messages(q, AckKinds) = {f \in Messages(q, AnswerKinds) : f.body.kind \in AckKinds}
  BY DEF Messages, AckKinds, AnswerKinds
<1> QED
  BY <1>1 DEF AckAbout, Answered, Holds, Carries, AckKinds, AnswerKinds

(* A step that moves no message of the exchange. *)
LEMMA FastKept ==
  ASSUME up, FastInv, newest' = newest, pending' = pending, built' = built,
         sm["client"].phase = "idle" => sm'["client"].phase = "idle", SameExchange(tx, tx'),
         \/ reply' = reply /\ send'["server"] = send["server"]
         \/ ~Holds(AnswerKinds) /\ ~Holds(AnswerKinds)',
         SameMessages(wire["server"], wire'["server"], InitKinds),
         SameMessages(wire["client"], wire'["client"], AnswerKinds)
  PROVE  FastInv'
<1>1. OneMessage /\ AsksPending /\ AckLeads
  BY DEF FastInv
<1>2. /\ Carries(wire'["server"], InitKinds) <=> Carries(wire["server"], InitKinds)
      /\ Carries(wire'["client"], AnswerKinds) <=> Carries(wire["client"], AnswerKinds)
      /\ Carries(wire'["client"], AckKinds) <=> Carries(wire["client"], AckKinds)
      /\ Once(wire["server"], InitKinds) => Once(wire'["server"], InitKinds)
      /\ Once(wire["client"], AnswerKinds) => Once(wire'["client"], AnswerKinds)
  BY CarriesMessages, AcksAnswer DEF SameMessages
<1>3. /\ \A f \in Frames(wire'["server"]) : f.body.kind = "init" => f \in Frames(wire["server"])
      /\ \A f \in Frames(wire'["client"]) : f.body.kind = "ack" => f \in Frames(wire["client"])
  BY DEF SameMessages, Messages, InitKinds, AnswerKinds
<1>4. /\ Holds(AnswerKinds)' <=> Holds(AnswerKinds)
      /\ Holds(AckKinds)' <=> Holds(AckKinds)
      /\ Holds(AckKinds)' => reply' = reply /\ send'["server"] = send["server"]
  BY DEF Holds, AnswerKinds, AckKinds
<1>5. (Asked' <=> Asked) /\ (Answered' <=> Answered) /\ (AckAbout' <=> AckAbout)
      /\ (ServerAhead' <=> ServerAhead)
  BY <1>2, <1>4 DEF Asked, Answered, AckAbout, ServerAhead
<1>6. OneMessage'
  BY <1>1, <1>2, <1>4, <1>5 DEF OneMessage
<1>7. AsksPending'
  BY <1>1, <1>3, <1>5 DEF AsksPending, SameExchange
<1>8. AckLeads'
  BY <1>1, <1>3, <1>4, <1>5 DEF AckLeads
<1> QED
  BY <1>6, <1>7, <1>8 DEF FastInv

(* A thread that writes what is no message of the exchange. *)
LEMMA FastPlain ==
  ASSUME TcpInv, FastInv, NEW n \in Node, NEW body \in Payload, Write(n, body),
         body.kind \notin {"init", "ack", "exhausted"},
         UNCHANGED <<sm, crypto, exchange, built>>,
         reply' = reply \/ (~Holds(AnswerKinds) /\ ~Holds(AnswerKinds)')
  PROVE  FastInv'
<1> DEFINE f == Sealed(n, body)
<1>1. f \in Frame /\ f.body = body
  BY EndNumbers DEF Sealed, Frame, Entry
<1>2. /\ \/ wire'["server"] = Append(wire["server"], f)
         \/ wire'["server"] = wire["server"]
      /\ \/ wire'["client"] = Append(wire["client"], f)
         \/ wire'["client"] = wire["client"]
  BY DEF Write, Peer, Node, TcpInv, ExchangeTypes
<1> HIDE DEF f
<1>3. \A q, kinds : SameMessages(q, q, kinds)
  BY DEF SameMessages
<1>4. f.body.kind \notin InitKinds /\ f.body.kind \notin AnswerKinds
  BY <1>1 DEF InitKinds, AnswerKinds
<1>5. /\ SameMessages(wire["server"], wire'["server"], InitKinds)
      /\ SameMessages(wire["client"], wire'["client"], AnswerKinds)
  BY <1>1, <1>2, <1>3, <1>4, ExchangeNumbers, AppendKeepsMessages
<1>6. up /\ SameExchange(tx, tx') /\ UNCHANGED <<sm, newest, send, pending, built>>
  BY DEF Write, SameExchange, crypto, exchange
<1> QED
  BY <1>5, <1>6, FastKept

(* MaybeBuildRekeyInit: on a fast link only when nothing is pending. *)
LEMMA FastBuilds ==
  ASSUME ~SlowLink, TcpInv, ExchangeInv, FastInv, BuildRekeyInit
  PROVE  FastInv'
<1> DEFINE p == PendingForInit(pending, sm["client"], freshEph["client"])
<1>1. /\ up /\ up' /\ built = None /\ pending = None /\ sm["client"].phase = "idle"
      /\ pending' = p /\ built' = RekeyInit(p.eph, p.base)
      /\ p.eph = freshEph["client"] /\ p.carrier = sm["client"].current.epoch
      /\ UNCHANGED <<sm, newest, send, tx, reply, wire>>
  BY DEF BuildRekeyInit, ReadyForRekey, PendingForInit, crypto
<1> HIDE DEF p
<1>2. OneMessage /\ AsksPending /\ AckLeads
  BY <1>1 DEF FastInv
<1>3. ~Asked /\ ~Answered /\ ~AckAbout
  BY <1>1, <1>2, AcksAnswer DEF OneMessage
<1>4. pending' # None
  <2>1. "client" \in Node
    BY DEF Node
  <2>5. p \in Pending
    <3>1. sm["client"].current.key \in Key /\ sm["client"].current.epoch \in Nat
      BY <2>1 DEF TcpInv, EndsInStep, StateMachine
    <3>2. Prologue(sm["client"]) \in Key
      BY <3>1 DEF Prologue, InitialKey, Key
    <3> QED
      BY <1>1, <3>1, <3>2, ExchangeNumbers DEF p, PendingForInit, Pending
  <2> QED
    BY <1>1, <2>5, NoneAssumption
<1>5. /\ \A f \in Frames(wire["server"]) : f.body.kind # "init"
      /\ ~Carries(wire["server"], InitKinds) /\ ~Carries(wire["client"], AckKinds)
      /\ ~Carries(wire["client"], AnswerKinds)
      /\ ~Holds(AckKinds) /\ ~Holds(AnswerKinds)
  BY <1>3, AcksAnswer DEF Asked, Answered, Carries, InitKinds, AckAbout
<1>6. ~Answered' /\ ~AckAbout' /\ (ServerAhead' <=> ServerAhead) /\ ~Holds(AckKinds)'
      /\ ~Holds(AnswerKinds)'
  BY <1>1, <1>5 DEF Answered, AckAbout, Holds, ServerAhead
<1>7. OneMessage'
  BY <1>1, <1>2, <1>4, <1>5, <1>6 DEF OneMessage
<1>8. sm["client"].current.epoch = newest["client"].epoch
  BY <1>1, EndNumbers DEF EndInStep, Node
<1>9. tx # None => tx.request.eph < freshEph["client"]
  BY DEF ExchangeInv, RequestsInOrder, InitsInOrder, AskedSoFar
<1>10. AsksPending'
  <2>1. built'.eph = p.eph
    BY <1>1 DEF RekeyInit
  <2> QED
    BY <1>1, <1>5, <1>8, <1>9, <2>1 DEF AsksPending
<1>11. AckLeads'
  <2>1. ~AckAbout /\ ~ServerAhead
    BY <1>2, <1>3 DEF AckLeads
  <2>2. \A f \in Frames(wire["client"]) : f.body.kind # "ack"
    BY <1>5 DEF Carries, AckKinds
  <2> QED
    BY <1>1, <1>6, <2>1, <2>2 DEF AckLeads
<1> QED
  BY <1>7, <1>10, <1>11 DEF FastInv

(* The init goes on the wire. *)
LEMMA FastSendsInit ==
  ASSUME TcpInv, ExchangeInv, FastInv, SendRekeyInit
  PROVE  FastInv'
<1> DEFINE f == Sealed("client", built)
<1>1. /\ up /\ up' /\ built # None /\ built' = None /\ "client" \in Node
      /\ UNCHANGED <<sm, newest, send, pending, tx, reply>>
  BY DEF SendRekeyInit, Write, crypto, exchange, Node
<1>2. /\ wire'["server"] = Append(wire["server"], f) /\ wire'["client"] = wire["client"]
      /\ f \in Frame /\ f.body = built /\ built.kind = "init"
  <2>1. wire'["server"] = Append(wire["server"], f) /\ wire'["client"] = wire["client"]
    BY DEF SendRekeyInit, Write, Peer, Node, TcpInv, ExchangeTypes
  <2>2. built \in Payload
    BY <1>1, ExchangeNumbers
  <2>3. f \in Frame /\ f.body = built
    BY <1>1, <2>2, EndNumbers DEF Sealed, Frame, Entry
  <2>4. built.kind = "init"
    BY <1>1 DEF ExchangeInv, RequestsInOrder, InitsInOrder
  <2> QED
    BY <2>1, <2>3, <2>4
<1> HIDE DEF f
<1>3. OneMessage /\ AsksPending /\ AckLeads
  BY <1>1 DEF FastInv
<1>4. Asked /\ ~Answered /\ pending # None /\ ~Carries(wire["server"], InitKinds)
  BY <1>1, <1>3 DEF OneMessage, Asked
<1>5. Messages(wire'["server"], InitKinds) = {f} /\ Once(wire'["server"], InitKinds)
  <2>1. f.body.kind \in InitKinds
    BY <1>2 DEF InitKinds
  <2> QED
    BY <1>2, <1>4, <2>1, ExchangeNumbers, AppendAddsMessage
<1>6. Asked' /\ (Answered' <=> Answered) /\ (AckAbout' <=> AckAbout)
      /\ (ServerAhead' <=> ServerAhead)
      /\ (Holds(AnswerKinds)' <=> Holds(AnswerKinds)) /\ (Holds(AckKinds)' <=> Holds(AckKinds))
  <2>1. Carries(wire'["server"], InitKinds)
    BY <1>5, CarriesMessages
  <2> QED
    BY <1>1, <1>2, <2>1 DEF Asked, Answered, AckAbout, ServerAhead, Holds
<1>7. OneMessage'
  BY <1>1, <1>2, <1>3, <1>4, <1>5, <1>6 DEF OneMessage
<1>8. AsksPending'
  <2>1. \A g \in Frames(wire'["server"]) : g.body.kind = "init" => g = f
    BY <1>5 DEF Messages, InitKinds
  <2> QED
    BY <1>1, <1>2, <1>3, <1>4, <2>1 DEF AsksPending
<1>9. AckLeads'
  BY <1>1, <1>2, <1>3, <1>6 DEF AckLeads
<1> QED
  BY <1>7, <1>8, <1>9 DEF FastInv

(* The answer goes on the wire. *)
LEMMA FastSendsReply ==
  ASSUME TcpInv, FastInv, SendReply
  PROVE  FastInv'
<1> DEFINE f == Sealed("server", reply)
<1>1. /\ up /\ up' /\ reply # None /\ reply' = None /\ "server" \in Node /\ Write("server", reply)
      /\ UNCHANGED <<sm, newest, send, pending, tx, built>> /\ reply \in Payload
  BY ExchangeNumbers DEF SendReply, Write, crypto, exchange, Node
<1>2. ~Holds(AnswerKinds)' /\ ~Holds(AckKinds)'
  BY <1>1 DEF Holds
<1>3. CASE reply.kind \notin AnswerKinds
  <2>0. ~Holds(AnswerKinds)
    BY <1>3 DEF Holds
  <2>1. /\ wire'["client"] = Append(wire["client"], f) /\ wire'["server"] = wire["server"]
    BY <1>1 DEF Write, Peer, Node, TcpInv, ExchangeTypes
  <2>2. f \in Frame /\ f.body = reply
    BY <1>1, EndNumbers DEF Sealed, Frame, Entry
  <2> HIDE DEF f
  <2>3. SameMessages(wire["client"], wire'["client"], AnswerKinds)
    BY <1>3, <2>1, <2>2, ExchangeNumbers, AppendKeepsMessages
  <2>4. SameMessages(wire["server"], wire'["server"], InitKinds) /\ SameExchange(tx, tx')
    BY <1>1, <2>1 DEF SameMessages, SameExchange
  <2> QED
    BY <1>1, <1>2, <2>0, <2>3, <2>4, FastKept
<1>4. CASE reply.kind \in AnswerKinds
  <2>1. /\ wire'["client"] = Append(wire["client"], f) /\ wire'["server"] = wire["server"]
    BY <1>1 DEF Write, Peer, Node, TcpInv, ExchangeTypes
  <2>2. f \in Frame /\ f.body = reply /\ f.epoch = send["server"].epoch
    BY <1>1, EndNumbers DEF Sealed, Frame, Entry
  <2> HIDE DEF f
  <2>3. OneMessage /\ AsksPending /\ AckLeads
    BY <1>1 DEF FastInv
  <2>4. Holds(AnswerKinds) /\ Answered /\ ~Asked /\ pending # None
        /\ ~Carries(wire["client"], AnswerKinds) /\ ~Carries(wire["client"], AckKinds)
    BY <1>1, <1>4, <2>3, AcksAnswer DEF OneMessage, Holds, Answered
  <2>5. Messages(wire'["client"], AnswerKinds) = {f} /\ Once(wire'["client"], AnswerKinds)
    BY <1>4, <2>1, <2>2, <2>4, ExchangeNumbers, AppendAddsMessage
  <2>6. /\ Carries(wire'["client"], AckKinds) <=> Holds(AckKinds)
        /\ \A g \in Frames(wire'["client"]) : g.body.kind = "ack" => g = f
        /\ Carries(wire'["client"], AnswerKinds)
    BY <1>1, <2>2, <2>5 DEF Messages, AnswerKinds, AckKinds, Carries, Holds
  <2>7. /\ (Asked' <=> Asked) /\ Answered' /\ (AckAbout' <=> AckAbout)
        /\ (ServerAhead' <=> ServerAhead)
    BY <1>1, <1>2, <2>1, <2>4, <2>6 DEF Asked, Answered, AckAbout, ServerAhead
  <2>8. OneMessage'
    BY <1>1, <1>2, <2>1, <2>3, <2>4, <2>5, <2>7 DEF OneMessage
  <2>9. AsksPending'
    BY <1>1, <2>1, <2>3, <2>4, <2>7 DEF AsksPending
  <2>10. AckLeads'
    BY <1>1, <1>2, <2>2, <2>3, <2>6, <2>7 DEF AckLeads, Holds, AckKinds
  <2> QED
    BY <2>8, <2>9, <2>10 DEF FastInv
<1> QED
  BY <1>3, <1>4

(* An ack that the client considers answers what it asked, V1 or V2. *)
LEMMA OwnAckFast == TcpInv /\ FastInv => OwnAck
<1> SUFFICES ASSUME TcpInv, FastInv, ClientHandleAck
             PROVE  Head(wire["client"]).body.eph = pending.eph
  BY DEF OwnAck
<1>1. /\ up /\ wire["client"] # << >> /\ Head(wire["client"]).body.kind = "ack"
  BY DEF ClientHandleAck, Take
<1>2. Head(wire["client"]) \in Frames(wire["client"])
  BY <1>1, ExchangeNumbers, TailFrames
<1> QED
  BY <1>1, <1>2 DEF FastInv, AckLeads

(* The client takes an answer: the exchange is over, and so may be the     *)
(* session; no ack is left unconsidered.                                   *)
LEMMA FastClientTakes ==
  ASSUME TcpInv, ExchangeInv, FastInv, ClientReceive \/ ClientReceiveExhausted \/ ClientHandleAck
  PROVE  FastInv'
<1> DEFINE f == Head(wire["client"])
<1>1. /\ up /\ "client" \in Node /\ Take("client") /\ wire["client"] # << >>
      /\ UNCHANGED <<tx, built, reply>>
  BY DEF ClientReceive, ClientReceiveExhausted, ClientHandleAck, Take, exchange, Node
<1>2. /\ wire'["client"] = Tail(wire["client"]) /\ wire'["server"] = wire["server"]
      /\ f \in Frames(wire["client"]) /\ f \in Frame /\ f.epoch \in Nat
  <2>1. wire'["client"] = Tail(wire["client"]) /\ wire'["server"] = wire["server"]
    BY <1>1 DEF Take, TcpInv, ExchangeTypes
  <2>2. f \in Frames(wire["client"]) /\ f \in Frame
    BY <1>1, ExchangeNumbers, TailFrames
  <2> QED
    BY <2>1, <2>2, FrameTypes
<1>3. OneMessage /\ AsksPending /\ AckLeads
  BY <1>1 DEF FastInv
<1>4. f.body.kind = "ack" => /\ f.body.eph = pending.eph /\ f.epoch = newest["client"].epoch
                             /\ pending # None /\ ~Asked /\ AckConsidered(pending, f.epoch)
  <2> SUFFICES ASSUME f.body.kind = "ack"
               PROVE  /\ f.body.eph = pending.eph /\ f.epoch = newest["client"].epoch
                      /\ pending # None /\ ~Asked /\ pending.carrier = f.epoch
    BY DEF AckConsidered
  <2>1. Answered
    BY <1>2 DEF Answered, Carries, AnswerKinds
  <2> QED
    BY <1>2, <1>3, <2>1 DEF OneMessage, AsksPending, AckLeads
<1>5. CASE ClientReceive
  <2>1. /\ f.body.kind = "data" /\ UNCHANGED <<newest, send, pending>>
        /\ sm' = [sm EXCEPT !["client"] = ObservedSm("client", f.epoch)]
    BY <1>4, <1>5 DEF ClientReceive, exchange
  <2>2. sm'["client"] = ObservedSm("client", f.epoch)
    BY <1>1, <2>1 DEF TcpInv, EndsInStep
  <2> HIDE DEF f
  <2>3. sm["client"].phase = "idle" => sm'["client"].phase = "idle"
    BY <1>1, <1>2, <2>2, SeenPhase
  <2>4. f.body.kind \notin AnswerKinds
    BY <2>1 DEF AnswerKinds
  <2>5. SameMessages(wire["client"], wire'["client"], AnswerKinds)
    BY <1>1, <1>2, <2>4, ExchangeNumbers, TailKeepsMessages DEF f
  <2>6. SameMessages(wire["server"], wire'["server"], InitKinds) /\ SameExchange(tx, tx')
    BY <1>1, <1>2 DEF SameMessages, SameExchange
  <2> QED
    BY <1>1, <2>1, <2>3, <2>5, <2>6, FastKept
<1>6. CASE ClientReceiveExhausted
  BY <1>6 DEF ClientReceiveExhausted, FastInv
<1>7. CASE ClientHandleAck /\ ~AckInstalls(f)
  <2>1. pending # None /\ f.body.eph = pending.eph /\ AckAuthentic(pending, f.body)
    BY <1>4, <1>7 DEF ClientHandleAck, AckAuthentic
  <2>2. sm["client"].phase = "idle" /\ EndInStep(sm["client"], previous["client"],
                                                send["client"], newest["client"])
    BY <1>1, <1>3, <2>1, EndNumbers DEF AsksPending
  <2>3. ReadyForRekey(ObservedSm("client", f.epoch))
    <3> HIDE DEF f
    <3> QED
      BY <1>1, <1>2, <2>2, SeenPhase DEF ReadyForRekey
  <2>4. PreviousAfter("client", f.epoch) = None
    BY <2>2 DEF EndInStep, PreviousAfter
  <2>5. AckMeetsExhaustion(f)
    BY <1>7, <2>1, <2>3, <2>4 DEF AckInstalls, AckMeetsExhaustion
  <2>6. ~up'
    BY <1>7, <2>5 DEF ClientHandleAck
  <2> QED
    BY <2>6 DEF FastInv
<1>8. CASE ClientHandleAck /\ AckInstalls(f)
  <2>0. f.body.kind = "ack"
    BY <1>8 DEF ClientHandleAck
  <2>1. /\ newest' = [newest EXCEPT !["client"] = newest["server"]] /\ pending' = None
    BY <1>4, <1>8, <2>0, InstallsNewest
  <2>2. ~ServerAhead'
    <3>1. newest'["client"] = newest["server"] /\ newest'["server"] = newest["server"]
      BY <2>1 DEF TcpInv, EndsInStep, Node
    <3> QED
      BY <3>1, ExchangeNumbers DEF ServerAhead
  <2>3. ~Carries(wire'["client"], AnswerKinds) /\ Once(wire'["client"], AnswerKinds)
        /\ Carries(wire["client"], AnswerKinds)
    <3>1. f.body.kind \in AnswerKinds /\ Once(wire["client"], AnswerKinds)
      BY <1>3, <2>0 DEF AnswerKinds, OneMessage
    <3> QED
      BY <1>1, <1>2, <3>1, ExchangeNumbers, TailTakesMessage
  <2>4. ~Holds(AnswerKinds)' /\ ~Holds(AckKinds)'
    BY <1>1, <1>3, <2>3 DEF OneMessage, Holds, AnswerKinds, AckKinds
  <2>5. ~Asked /\ ~Asked'
    BY <1>1, <1>2, <1>4, <2>0 DEF Asked
  <2>6. ~Answered' /\ ~AckAbout'
    BY <2>3, <2>4, AcksAnswer DEF Answered, AckAbout
  <2>7. /\ built' = None /\ ~Carries(wire'["server"], InitKinds)
    BY <1>1, <2>5 DEF Asked
  <2>8. OneMessage'
    BY <1>2, <1>3, <2>3, <2>4, <2>5, <2>6, <2>7 DEF OneMessage
  <2>9. AsksPending'
    BY <2>1, <2>5, <2>7 DEF AsksPending, Carries, InitKinds
  <2>10. AckLeads'
    BY <2>2, <2>3, <2>4, <2>6 DEF AckLeads, Carries, AnswerKinds
  <2> QED
    BY <2>8, <2>9, <2>10 DEF FastInv
<1> QED
  BY <1>5, <1>6, <1>7, <1>8

(* The server takes what asks for nothing. *)
LEMMA FastServerReceives ==
  ASSUME TcpInv, FastInv, ServerReceive
  PROVE  FastInv'
<1> DEFINE f == Head(wire["server"])
<1>1. /\ up /\ up' /\ "server" \in Node /\ Take("server") /\ wire["server"] # << >>
      /\ f.body.kind \in {"data", "ping"} /\ tx' = SeenTx(f)
      /\ reply = None /\ (reply' = None \/ reply' = Plain("data"))
      /\ sm' = [sm EXCEPT !["server"] = ObservedSm("server", f.epoch)]
      /\ UNCHANGED <<newest, send, pending, built>>
  BY DEF ServerReceive, ServerTakes, Take, Node
<1>2. wire'["server"] = Tail(wire["server"]) /\ wire'["client"] = wire["client"]
  BY <1>1 DEF Take, TcpInv, ExchangeTypes
<1>3. sm'["client"] = sm["client"]
  BY <1>1 DEF TcpInv, EndsInStep, Node
<1>4. SameExchange(tx, tx')
  BY <1>1, ExchangeNumbers, TxNotes DEF SeenTx
<1>5. ~Holds(AnswerKinds) /\ ~Holds(AnswerKinds)'
  BY <1>1 DEF Holds, Plain, AnswerKinds
<1>6. SameMessages(wire["server"], wire'["server"], InitKinds)
  <2>1. f.body.kind \notin InitKinds
    BY <1>1 DEF InitKinds
  <2> QED
    BY <1>1, <1>2, <2>1, ExchangeNumbers, TailKeepsMessages
<1>7. SameMessages(wire["client"], wire'["client"], AnswerKinds)
  BY <1>2 DEF SameMessages
<1> QED
  BY <1>1, <1>3, <1>4, <1>5, <1>6, <1>7, FastKept

(* The server takes the init of the pending exchange: it is the only one,  *)
(* and has not been answered.                                              *)
LEMMA FastTakesInit ==
  ASSUME TcpInv, FastInv, ServerTakes, Head(wire["server"]).body.kind = "init"
  PROVE  LET f == Head(wire["server"])
         IN  /\ up /\ OneMessage /\ AsksPending /\ AckLeads /\ reply = None
             /\ Asked /\ ~Answered /\ ~ServerAhead /\ built = None
             /\ pending # None /\ f.body.eph = pending.eph
             /\ tx # None => tx.request # f.body
             /\ wire'["client"] = wire["client"]
             /\ ~Carries(wire'["server"], InitKinds) /\ Once(wire'["server"], InitKinds)
<1> DEFINE f == Head(wire["server"])
<1>1. /\ up /\ "server" \in Node /\ Take("server") /\ wire["server"] # << >> /\ reply = None
  BY DEF ServerTakes, Take, Node
<1>2. /\ wire'["server"] = Tail(wire["server"]) /\ wire'["client"] = wire["client"]
      /\ f \in Frames(wire["server"]) /\ f.body.eph \in Nat
  <2>1. wire'["server"] = Tail(wire["server"]) /\ wire'["client"] = wire["client"]
    BY <1>1 DEF Take, TcpInv, ExchangeTypes
  <2>2. f \in Frames(wire["server"]) /\ f \in Frame
    BY <1>1, ExchangeNumbers, TailFrames
  <2> QED
    BY <2>1, <2>2, FrameTypes
<1>3. OneMessage /\ AsksPending /\ AckLeads
  BY <1>1 DEF FastInv
<1>4. Carries(wire["server"], InitKinds)
  BY <1>2 DEF Carries, InitKinds
<1>5. Asked /\ ~Answered /\ built = None /\ pending # None
  BY <1>3, <1>4 DEF OneMessage, Asked
<1>6. ~ServerAhead
  BY <1>3, <1>5, AcksAnswer DEF AckLeads
<1>7. f.body.eph = pending.eph
  BY <1>2, <1>3 DEF AsksPending
<1>8. tx # None => tx.request # f.body
  BY <1>2, <1>3, <1>5, <1>7, ExchangeNumbers, SMTT(30) DEF AsksPending
<1>9. ~Carries(wire'["server"], InitKinds) /\ Once(wire'["server"], InitKinds)
  <2>1. f.body.kind \in InitKinds /\ Once(wire["server"], InitKinds)
    BY <1>3 DEF InitKinds, OneMessage
  <2> QED
    BY <1>1, <1>2, <2>1, ExchangeNumbers, TailTakesMessage
<1> QED
  BY <1>1, <1>2, <1>3, <1>5, <1>6, <1>7, <1>8, <1>9

LEMMA FastServerResends == TcpInv /\ FastInv /\ ServerResendAck => FALSE
<1> SUFFICES ASSUME TcpInv, FastInv, ServerResendAck PROVE FALSE
  OBVIOUS
<1>1. /\ ServerTakes /\ Head(wire["server"]).body.kind = "init"
      /\ SeenTx(Head(wire["server"])) # None
      /\ SeenTx(Head(wire["server"])).request = Head(wire["server"]).body
  BY DEF ServerResendAck, MayResend, SameRequest
<1>2. SameExchange(tx, SeenTx(Head(wire["server"])))
  BY ExchangeNumbers, TxNotes DEF SeenTx
<1> QED
  BY <1>1, <1>2, FastTakesInit DEF SameExchange

LEMMA FastServerDeclines ==
  ASSUME TcpInv, FastInv, ServerDeclineInit
  PROVE  FastInv'
<1> DEFINE f == Head(wire["server"])
<1>1. /\ ServerTakes /\ f.body.kind = "init" /\ tx' = SeenTx(f) /\ up' = up
      /\ reply' = None \/ reply' = Plain("exhausted")
      /\ sm' = [sm EXCEPT !["server"] = ObservedSm("server", f.epoch)]
      /\ UNCHANGED <<newest, send, pending, built>>
  BY DEF ServerDeclineInit
<1>2. /\ up /\ OneMessage /\ AsksPending /\ AckLeads /\ reply = None
      /\ Asked /\ ~Answered /\ ~ServerAhead /\ built = None /\ pending # None
      /\ wire'["client"] = wire["client"]
      /\ ~Carries(wire'["server"], InitKinds) /\ Once(wire'["server"], InitKinds)
  BY <1>1, FastTakesInit
<1>3. sm'["client"] = sm["client"]
  BY <1>1 DEF TcpInv, EndsInStep, Node
<1> HIDE DEF f
<1>4. /\ ~Carries(wire["client"], AnswerKinds) /\ ~Carries(wire["client"], AckKinds)
      /\ ~Asked' /\ ~Holds(AckKinds)' /\ ~AckAbout' /\ ~ServerAhead'
  BY <1>1, <1>2, AcksAnswer DEF Answered, Asked, AckAbout, Holds, Plain, AckKinds, ServerAhead
<1>5. OneMessage'
  BY <1>1, <1>2, <1>4 DEF OneMessage
<1>6. AsksPending'
  BY <1>1, <1>2, <1>3, <1>4 DEF AsksPending, Carries, InitKinds
<1>7. AckLeads'
  BY <1>2, <1>4 DEF AckLeads, Carries, AckKinds
<1> QED
  BY <1>5, <1>6, <1>7 DEF FastInv

LEMMA FastServerStarts ==
  ASSUME TcpInv, WireInv, ExchangeInv, FastInv, ServerStartRekey
  PROVE  FastInv'
<1> DEFINE f == Head(wire["server"])
           ack == RekeyAck(f.body.eph, freshEph["server"])
<1>1. /\ ServerTakes /\ f.body.kind = "init" /\ up' = up
      /\ PreviousAfter("server", f.epoch) = None /\ reply' = ack
      /\ UNCHANGED <<send, pending, built>>
  BY DEF ServerStartRekey
<1>2. /\ up /\ OneMessage /\ AsksPending /\ AckLeads /\ reply = None
      /\ Asked /\ ~Answered /\ built = None /\ pending # None
      /\ f.body.eph = pending.eph /\ wire'["client"] = wire["client"]
      /\ ~Carries(wire'["server"], InitKinds) /\ Once(wire'["server"], InitKinds)
  BY <1>1, FastTakesInit
<1>3. /\ newest["server"] = newest["client"]
      /\ newest'["client"] = newest["client"]
      /\ newest'["server"].epoch = newest["client"].epoch + 1
  BY TakesUpRequest DEF TcpInv, EndsInStep, Node
<1>4. send["server"] = newest["server"]
  <2>1. "server" \in Node /\ f.epoch \in Nat
    BY <1>1, TakesUpRequest, FrameTypes DEF Node
  <2> HIDE DEF f
  <2> QED
    BY <1>1, <2>1, SeenPhase DEF EndInStep
<1>5. sm'["client"] = sm["client"]
  BY DEF ServerStartRekey, TcpInv, EndsInStep, Node
<1>6. ack.kind = "ack" /\ ack.eph = pending.eph /\ ack # None
  <2>1. ack.kind = "ack" /\ ack.eph = pending.eph
    BY <1>2 DEF RekeyAck
  <2>2. ack \in Payload
    BY <1>2, ExchangeNumbers, PayloadTypes
  <2> QED
    BY <2>1, <2>2, NoneAssumption
<1> HIDE DEF f, ack
<1>7. /\ ~Carries(wire["client"], AnswerKinds) /\ ~Carries(wire["client"], AckKinds)
      /\ ~Asked' /\ AckAbout' /\ ServerAhead'
  <2>1. Holds(AckKinds)'
    BY <1>1, <1>6 DEF Holds, AckKinds
  <2>2. ServerAhead'
    BY <1>3, ExchangeNumbers DEF ServerAhead
  <2> QED
    BY <1>1, <1>2, <2>1, <2>2, AcksAnswer DEF Answered, Asked, AckAbout
<1>8. OneMessage'
  BY <1>1, <1>2, <1>7 DEF OneMessage
<1>9. AsksPending'
  BY <1>1, <1>2, <1>3, <1>5, <1>7 DEF AsksPending, Carries, InitKinds
<1>10. AckLeads'
  BY <1>1, <1>2, <1>3, <1>4, <1>6, <1>7 DEF AckLeads, Carries, AckKinds
<1> QED
  BY <1>8, <1>9, <1>10 DEF FastInv

LEMMA FastStep ==
  ASSUME ~SlowLink
  PROVE  TcpInv /\ WireInv /\ ExchangeInv /\ FastInv /\ [Next]_vars => FastInv'
<1> SUFFICES ASSUME TcpInv, WireInv, ExchangeInv, FastInv, [Next]_vars PROVE FastInv'
  OBVIOUS
<1>n. "client" \in Node /\ "server" \in Node
  BY DEF Node
<1>1. ASSUME NEW n \in Node, TunSend(n) PROVE FastInv'
  <2>1. Plain("data").kind = "data" /\ Plain("data") \in Payload
    BY PayloadTypes DEF Plain
  <2>2. Write(n, Plain("data")) /\ UNCHANGED <<sm, crypto, exchange, built>> /\ reply' = reply
    BY <1>1 DEF TunSend
  <2> QED
    BY <2>1, <2>2, FastPlain
<1>2. ASSUME SendPing PROVE FastInv'
  <2>1. Plain("ping").kind = "ping" /\ Plain("ping") \in Payload
    BY PayloadTypes DEF Plain
  <2>2. Write("client", Plain("ping")) /\ UNCHANGED <<sm, crypto, exchange, built>> /\ reply' = reply
    BY <1>2 DEF SendPing
  <2> QED
    BY <1>n, <2>1, <2>2, FastPlain
<1>3. ASSUME NEW n \in Node, DecryptFails(n) PROVE FastInv'
  BY <1>3 DEF DecryptFails, FastInv
<1>4. ASSUME ServerActivate PROVE FastInv'
  <2>1. /\ up /\ UNCHANGED <<newest, pending, built, reply, wire>> /\ reply = None
        /\ tx' = TxActivated(tx, promote)
    BY <1>4 DEF ServerActivate
  <2>2. sm' = sm \/ \E s : sm' = [sm EXCEPT !["server"] = s]
    BY <1>4, Zenon DEF ServerActivate
  <2>3. sm'["client"] = sm["client"]
    BY <1>n, <2>2 DEF TcpInv, EndsInStep
  <2>4. SameExchange(tx, tx')
    BY <2>1, ExchangeNumbers, TxNotes
  <2>5. ~Holds(AnswerKinds) /\ ~Holds(AnswerKinds)'
    BY <2>1 DEF Holds
  <2>6. /\ SameMessages(wire["server"], wire'["server"], InitKinds)
        /\ SameMessages(wire["client"], wire'["client"], AnswerKinds)
    BY <2>1 DEF SameMessages
  <2> QED
    BY <2>1, <2>3, <2>4, <2>5, <2>6, FastKept
<1>5. ASSUME UNCHANGED vars PROVE FastInv'
  <2>1. UNCHANGED <<sm, newest, send, tx, pending, built, reply, wire, up>>
    BY <1>5 DEF vars, crypto, exchange
  <2>2. CASE ~up
    BY <2>1, <2>2 DEF FastInv
  <2>3. CASE up
    <3>1. /\ SameMessages(wire["server"], wire'["server"], InitKinds)
          /\ SameMessages(wire["client"], wire'["client"], AnswerKinds)
          /\ SameExchange(tx, tx')
      BY <2>1 DEF SameMessages, SameExchange
    <3> QED
      BY <2>1, <2>3, <3>1, FastKept
  <2> QED
    BY <2>2, <2>3
<1> QED
  BY <1>1, <1>2, <1>3, <1>4, <1>5, FastBuilds, FastSendsInit, FastSendsReply, FastClientTakes,
     FastServerReceives, FastServerResends, FastServerDeclines, FastServerStarts
  DEF Next, Ended

LEMMA InitFast == Init => FastInv
<1> SUFFICES ASSUME Init PROVE FastInv
  OBVIOUS
<1>1. /\ tx = None /\ pending = None /\ built = None /\ reply = None
      /\ wire["client"] = << >> /\ wire["server"] = << >>
      /\ newest["client"] = newest["server"] /\ newest["server"].epoch = 0
  BY DEF Init, Node
<1>2. Frames(wire["client"]) = {} /\ Frames(wire["server"]) = {}
      /\ DOMAIN wire["server"] = {} /\ DOMAIN wire["client"] = {}
  BY <1>1 DEF Frames
<1>3. ~Asked /\ ~Answered /\ ~AckAbout /\ ~ServerAhead
  BY <1>1, <1>2 DEF Asked, Answered, AckAbout, Holds, Carries, ServerAhead
<1> QED
  BY <1>1, <1>2, <1>3 DEF FastInv, OneMessage, AsksPending, AckLeads, Once, Holds, Carries

-----------------------------------------------------------------------------
(* The invariants together, for a session where an ack that installs an    *)
(* epoch answers what was asked: under V2, and on a fast link.             *)
SessionInv == TcpInv /\ WireInv /\ ExchangeInv /\ OneKeyPerEpoch

LEMMA SessionInvV2 == ASSUME V2 PROVE Spec => []SessionInv
<1>1. Init => SessionInv
  BY InitInStep, InitInOrder, InitExchange, InitKeys DEF SessionInv
<1>2. SessionInv /\ TcpInv' /\ WireInv' /\ [Next]_vars => SessionInv'
  BY OwnAckV2, ExchangeStep, KeysStep DEF SessionInv
<1> QED
  BY <1>1, <1>2, TcpInvHolds, WireInvHolds, PTL DEF Spec

LEMMA SessionInvFast == ASSUME ~SlowLink PROVE Spec => [](SessionInv /\ FastInv)
<1>1. Init => SessionInv /\ FastInv
  BY InitInStep, InitInOrder, InitExchange, InitKeys, InitFast DEF SessionInv
<1>2. SessionInv /\ FastInv /\ TcpInv' /\ WireInv' /\ [Next]_vars => (SessionInv /\ FastInv)'
  BY OwnAckFast, ExchangeStep, KeysStep, FastStep DEF SessionInv
<1> QED
  BY <1>1, <1>2, TcpInvHolds, WireInvHolds, PTL DEF Spec

(* The two ends of a TCP session never hold different keys for the same    *)
(* epoch, for every last epoch and any number of frames on the wire:       *)
(* under rekey V2 whatever the delay of the answers (it checks whose init  *)
(* an ack answers), under V1 when they come within the rotation interval.  *)
THEOREM KeyAgreementHolds == ASSUME V2 \/ ~SlowLink PROVE Spec => []KeyAgreement
<1>1. SessionInv => KeyAgreement
  BY OneKeySuffices DEF SessionInv
<1>2. V2 => (Spec => []KeyAgreement)
  <2>1. ASSUME V2 PROVE Spec => []SessionInv
    BY <2>1, SessionInvV2
  <2>2. ASSUME V2 PROVE Spec => []KeyAgreement
    BY <1>1, <2>1, <2>2, PTL
  <2> QED
    BY <2>2
<1>3. ~SlowLink => (Spec => []KeyAgreement)
  <2>1. ASSUME ~SlowLink PROVE Spec => [](SessionInv /\ FastInv)
    BY <2>1, SessionInvFast
  <2>2. ASSUME ~SlowLink PROVE Spec => []KeyAgreement
    BY <1>1, <2>1, <2>2, PTL
  <2> QED
    BY <2>2
<1> QED
  BY <1>2, <1>3

(* The server's epoch, while it sends, is one the client holds. *)
LEMMA SentEpochsAreHeld ==
  ASSUME SessionInv, FastInv, up, NEW n \in Node, wire[n] # << >>
  PROVE  Head(wire[n]).epoch <= newest[n].epoch
<1> DEFINE f == Head(wire[n])
<1>1. /\ wire[n] \in Seq(Frame) /\ f = wire[n][1] /\ 1 \in DOMAIN wire[n] /\ f.epoch \in Nat
      /\ newest[n].epoch \in Nat /\ send[Peer(n)].epoch \in Nat /\ newest[Peer(n)].epoch \in Nat
      /\ Peer(n) \in Node
  <2>1. wire[n] \in Seq(Frame)
    BY EndNumbers DEF SessionInv
  <2>2. f = wire[n][1] /\ 1 \in DOMAIN wire[n] /\ f \in Frame
    BY <2>1, TailFrames
  <2>3. Peer(n) \in Node
    BY DEF Peer, Node
  <2> QED
    BY <2>1, <2>2, <2>3, FrameTypes, EndNumbers DEF SessionInv
<1>2. f.epoch <= send[Peer(n)].epoch
  BY <1>1 DEF SessionInv, WireInv, InOrder
<1>3. send[Peer(n)].epoch <= newest[Peer(n)].epoch
  <2>1. EndInStep(sm[Peer(n)], previous[Peer(n)], send[Peer(n)], newest[Peer(n)])
    BY <1>1, EndNumbers DEF SessionInv
  <2>2. Adjacent(previous[Peer(n)], newest[Peer(n)])
    BY <1>1 DEF SessionInv, WireInv
  <2>3. send[Peer(n)] \in Entry
    BY <1>1, EndNumbers DEF SessionInv
  <2>4. \/ send[Peer(n)] = newest[Peer(n)]
        \/ previous[Peer(n)] = send[Peer(n)] /\ previous[Peer(n)] # None
    BY <2>1, <2>3, NoEntryAssumption DEF EndInStep
  <2> QED
    BY <1>1, <2>2, <2>4 DEF Adjacent
<1>4. newest["client"].epoch <= newest["server"].epoch
  BY ExchangeNumbers DEF SessionInv, ExchangeInv, ServerLeads, ServerAhead
<1>5. CASE n = "server"
  BY <1>1, <1>2, <1>3, <1>4, <1>5 DEF Peer
<1>6. CASE n = "client" /\ ~ServerAhead
  <2>1. newest["server"] = newest["client"]
    BY <1>6 DEF SessionInv, ExchangeInv, ServerLeads
  <2> QED
    BY <1>1, <1>2, <1>3, <1>6, <2>1 DEF Peer
<1>7. CASE n = "client" /\ ServerAhead
  <2>1. AckLeads /\ AckAbout
    BY <1>7 DEF FastInv, AckLeads
  <2>2. CASE Holds(AckKinds)
    BY <1>2, <1>7, <2>1, <2>2, <1>1 DEF AckLeads, Peer
  <2>3. CASE Carries(wire["client"], AckKinds)
    <3>1. PICK i \in DOMAIN wire["client"] : wire["client"][i].body.kind \in AckKinds
      BY <2>3 DEF Carries, Frames
    <3>2. wire["client"][i].epoch = newest["client"].epoch
      BY <2>1, <3>1 DEF AckLeads, Frames, AckKinds
    <3>3. 1 <= i
      BY <1>1, <1>7, FramesOfQueue
    <3>4. wire["client"][1].epoch <= wire["client"][i].epoch
      BY <1>1, <1>7, <3>3 DEF SessionInv, WireInv, InOrder
    <3> QED
      BY <1>1, <1>7, <3>2, <3>4
  <2> QED
    BY <2>1, <2>2, <2>3 DEF AckAbout
<1> QED
  BY <1>5, <1>6, <1>7 DEF Node

(* On a link whose answers come within the rotation interval no end meets  *)
(* a frame it cannot open, although the server sends under the new epoch   *)
(* before the client has it and each end drops the old one by itself.      *)
THEOREM EveryFrameOpensHolds == ASSUME ~SlowLink PROVE Spec => []EveryFrameOpens
<1>1. SessionInv /\ FastInv => EveryFrameOpens
  <2> SUFFICES ASSUME SessionInv, FastInv, up, NEW n \in Node, wire[n] # << >>
               PROVE  Opens(n, Head(wire[n]))
    BY DEF EveryFrameOpens
  <2> DEFINE f == Head(wire[n])
             a == [epoch |-> f.epoch, key |-> f.key]
  <2>1. /\ f = wire[n][1] /\ 1 \in DOMAIN wire[n] /\ f \in Frames(wire[n]) /\ f.epoch \in Nat
        /\ newest[n].epoch \in Nat
        /\ previous[n] # None => previous[n].epoch \in Nat
    <3>1. wire[n] \in Seq(Frame)
      BY EndNumbers DEF SessionInv
    <3> QED
      BY <3>1, TailFrames, FrameTypes, EndNumbers DEF SessionInv
  <2>2. f.epoch <= newest[n].epoch
    BY SentEpochsAreHeld
  <2>3. Oldest(previous[n], newest[n]) <= f.epoch /\ Adjacent(previous[n], newest[n])
    BY <2>1 DEF SessionInv, WireInv, InOrder
  <2>4. /\ a \in Material /\ newest[n] \in Material
        /\ previous[n] # None => previous[n] \in Material
    BY <2>1, MaterialOf DEF OnWire
  <2>5. /\ newest[n].epoch = f.epoch => newest[n].key = f.key
        /\ previous[n] # None /\ previous[n].epoch = f.epoch => previous[n].key = f.key
    BY <2>4 DEF SessionInv, OneKeyPerEpoch
  <2>6. f.epoch = newest[n].epoch \/ (previous[n] # None /\ f.epoch = previous[n].epoch
                                     /\ f.epoch # newest[n].epoch)
    <3> HIDE DEF f
    <3> QED
      BY <2>1, <2>2, <2>3 DEF Oldest, Adjacent
  <2> QED
    BY <2>5, <2>6 DEF Opens
<1> QED
  BY <1>1, SessionInvFast, PTL

-----------------------------------------------------------------------------
(* The session implements EpochHandover.  First: the server's next         *)
(* ephemeral makes a key it does not hold.                                 *)
LEMMA HeldKeys ==
  ASSUME TcpInv, NEW n \in Node, NEW a \in Held(n)
  PROVE  a \in Entry /\ a.epoch \in Nat /\ a.key \in Seq(Nat \X Nat)
<1>1. a = newest[n] \/ a = send[n] \/ (a = previous[n] /\ previous[n] # None)
  BY DEF Held
<1>2. a \in Entry
  BY <1>1, EndNumbers
<1> QED
  BY <1>2 DEF Entry, Key

LEMMA DerivedKey ==
  ASSUME NEW base \in Key, NEW eph \in Nat, NEW pub \in Nat
  PROVE  LET k == Derive(base, eph, pub)
         IN  /\ k # << >> /\ Len(k) \in DOMAIN k /\ k[Len(k)][2] = pub
             /\ \A i \in DOMAIN k : i = Len(k) \/ (i \in DOMAIN base /\ k[i] = base[i])
<1> DEFINE pair == <<eph, pub>>
<1>1. pair[2] = pub
  OBVIOUS
<1>2. base \in Seq(Nat \X Nat)
  BY DEF Key
<1> HIDE DEF pair
<1>3. /\ Len(<< pair >>) = 1 /\ DOMAIN << pair >> = {1} /\ << pair >>[1] = pair
  OBVIOUS
<1>4. /\ Len(Append(base, pair)) = Len(base) + 1
      /\ DOMAIN Append(base, pair) = 1 .. Len(base) + 1
      /\ Append(base, pair)[Len(base) + 1] = pair
      /\ \A i \in DOMAIN base : Append(base, pair)[i] = base[i]
      /\ DOMAIN base = 1 .. Len(base) /\ Len(base) \in Nat
  BY <1>2
<1>5. Derive(base, eph, pub) = << pair >> \/ Derive(base, eph, pub) = Append(base, pair)
  BY DEF Derive, pair
<1>6. CASE Derive(base, eph, pub) = << pair >>
  BY <1>1, <1>3, <1>6
<1>7. CASE Derive(base, eph, pub) = Append(base, pair)
  <2> DEFINE k == Append(base, pair)
  <2>1. k # << >> /\ Len(k) \in DOMAIN k /\ k[Len(k)][2] = pub
    <3>1. /\ Len(k) = Len(base) + 1 /\ DOMAIN k = 1 .. Len(base) + 1
          /\ k[Len(base) + 1] = pair /\ Len(base) \in Nat
      BY <1>4
    <3>2. DOMAIN << >> = {}
      OBVIOUS
    <3> HIDE DEF k
    <3>3. Len(k) \in DOMAIN k
      BY <3>1
    <3>4. k # << >>
      BY <3>2, <3>3
    <3>5. k[Len(k)][2] = pub
      BY <1>1, <3>1
    <3> QED
      BY <3>3, <3>4, <3>5
  <2>2. \A i \in DOMAIN k : i = Len(k) \/ (i \in DOMAIN base /\ k[i] = base[i])
    BY <1>4
  <2> QED
    BY <1>7, <2>1, <2>2
<1> QED
  BY <1>5, <1>6, <1>7

(* A step in which the server installs nothing keeps that. *)
LEMMA DrawnKept ==
  ASSUME KeysDrawn, Held("server")' \subseteq Held("server"),
         freshEph'["server"] = freshEph["server"]
  PROVE  KeysDrawn'
BY DEF KeysDrawn

(* What an end holds shrinks when only its previous session may go.        *)
LEMMA HeldShrinks ==
  ASSUME NEW n \in Node, newest'[n] = newest[n], send'[n] \in {send[n], newest[n]},
         previous'[n] \in {previous[n], None}
  PROVE  Held(n)' \subseteq Held(n)
BY DEF Held

(* What the server holds after StartRekey. *)
LEMMA StartedKeys ==
  ASSUME TcpInv, ServerStartRekey
  PROVE  LET base == send["server"].key
             k == Derive(base, Head(wire["server"]).body.eph, freshEph["server"])
         IN  /\ Head(wire["server"]).body.eph \in Nat
             /\ freshEph["server"] \in Nat /\ freshEph'["server"] = freshEph["server"] + 1
             /\ base \in Key /\ k \in Key
             /\ newest'["server"].key = k
             /\ send["server"] = newest["server"]
             /\ Held("server")' \subseteq Held("server") \cup {newest'["server"]}
<1> DEFINE f == Head(wire["server"])
           seen == ObservedSm("server", f.epoch)
<1>1. /\ "server" \in Node /\ ServerTakes
      /\ MayStart(SeenTx(f), f.body, f.epoch, seen)
      /\ newest' = [newest EXCEPT !["server"] =
                      [epoch |-> newest["server"].epoch + 1,
                       key |-> Derive(seen.current.key, f.body.eph, freshEph["server"])]]
      /\ previous' = [previous EXCEPT !["server"] = newest["server"]]
      /\ send' = send
      /\ freshEph' = [freshEph EXCEPT !["server"] = @ + 1]
  BY DEF ServerStartRekey, Node
<1>2. f.epoch \in Nat /\ f.body.eph \in Nat
  BY <1>1, ServerSees
<1>3. seen.phase = "idle"
  BY <1>1 DEF MayStart, ReadyForRekey
<1>4. /\ seen.current = send["server"]
      /\ EndInStep(seen, PreviousAfter("server", f.epoch), send["server"], newest["server"])
  BY <1>1, <1>2, SeenPhase
<1> HIDE DEF f, seen
<1>5. send["server"] = newest["server"] /\ send["server"].key \in Key
  BY <1>3, <1>4 DEF EndInStep, Entry
<1>6. freshEph["server"] \in Nat /\ freshEph'["server"] = freshEph["server"] + 1
  BY <1>1 DEF TcpInv, ExchangeTypes
<1>7. Derive(send["server"].key, f.body.eph, freshEph["server"]) \in Key
  BY <1>2, <1>5, <1>6, DeriveType
<1>8. /\ newest'["server"].key = Derive(send["server"].key, f.body.eph, freshEph["server"])
      /\ previous'["server"] = newest["server"] /\ send'["server"] = send["server"]
  BY <1>1, <1>4 DEF TcpInv, EndsInStep
<1>9. Held("server")' \subseteq Held("server") \cup {newest'["server"]}
  BY <1>5, <1>8 DEF Held
<1> QED
  BY <1>2, <1>5, <1>6, <1>7, <1>8, <1>9 DEF f

LEMMA DrawnStarts == TcpInv /\ KeysDrawn /\ ServerStartRekey => KeysDrawn'
<1> SUFFICES ASSUME TcpInv, KeysDrawn, ServerStartRekey,
                    NEW a \in Held("server")', NEW i \in DOMAIN a.key
             PROVE  a.key[i][2] < freshEph["server"]'
  BY DEF KeysDrawn
<1> DEFINE base == send["server"].key
           eph == Head(wire["server"]).body.eph
           pub == freshEph["server"]
           k == Derive(base, eph, pub)
<1>1. /\ eph \in Nat /\ pub \in Nat /\ base \in Key /\ freshEph'["server"] = pub + 1
      /\ newest'["server"].key = k
      /\ a \in Held("server") \/ a = newest'["server"]
  BY StartedKeys
<1>2. /\ k # << >> /\ k[Len(k)][2] = pub
      /\ \A j \in DOMAIN k : j = Len(k) \/ (j \in DOMAIN base /\ k[j] = base[j])
  BY <1>1, DerivedKey
<1>3. \A b \in Held("server") : \A j \in DOMAIN b.key : b.key[j][2] \in Nat /\ b.key[j][2] < pub
  <2> SUFFICES ASSUME NEW b \in Held("server"), NEW j \in DOMAIN b.key
               PROVE  b.key[j][2] \in Nat /\ b.key[j][2] < pub
    OBVIOUS
  <2>1. b.key \in Seq(Nat \X Nat)
    BY HeldKeys DEF Node
  <2>2. b.key[j] \in Nat \X Nat
    BY <2>1
  <2> QED
    BY <2>2 DEF KeysDrawn
<1>4. send["server"] \in Held("server")
  BY DEF Held
<1> HIDE DEF k, eph, pub
<1>5. CASE a \in Held("server")
  BY <1>1, <1>3, <1>5
<1>6. CASE a = newest'["server"]
  <2>1. a.key = k
    BY <1>1, <1>6
  <2>2. CASE i = Len(k)
    BY <1>1, <1>2, <2>1, <2>2
  <2>3. CASE i \in DOMAIN base /\ k[i] = base[i]
    BY <1>1, <1>3, <1>4, <2>1, <2>3
  <2> QED
    BY <1>2, <2>1, <2>2, <2>3
<1> QED
  BY <1>1, <1>5, <1>6

(* A frame that is taken without an epoch being installed takes at most
   the previous session of one end. *)
LEMMA TakesRest ==
  TcpInv /\ (\/ ClientReceive \/ ClientReceiveExhausted
             \/ ServerReceive \/ ServerResendAck \/ ServerDeclineInit)
    => /\ UNCHANGED <<newest, send, freshEph>>
       /\ \E n \in Node : /\ \A m \in Node : previous'[m] \in {previous[m], None}
                          /\ \A m \in Node : m # n => previous'[m] = previous[m]
<1> SUFFICES ASSUME TcpInv,
                    \/ ClientReceive \/ ClientReceiveExhausted
                    \/ ServerReceive \/ ServerResendAck \/ ServerDeclineInit
             PROVE  /\ UNCHANGED <<newest, send, freshEph>>
                    /\ \E n \in Node : /\ \A m \in Node : previous'[m] \in {previous[m], None}
                                       /\ \A m \in Node : m # n => previous'[m] = previous[m]
  OBVIOUS
<1>1. /\ UNCHANGED <<newest, send, freshEph>>
      /\ \E n \in Node : \E e : previous' = [previous EXCEPT ![n] = PreviousAfter(n, e)]
  <2>1. CASE ClientReceive \/ ClientReceiveExhausted
    BY <2>1 DEF ClientReceive, ClientReceiveExhausted, exchange, Node
  <2>2. CASE ServerReceive \/ ServerResendAck \/ ServerDeclineInit
    BY <2>2 DEF ServerReceive, ServerResendAck, ServerDeclineInit, Node
  <2> QED
    BY <2>1, <2>2
<1>2. PICK n \in Node : \E e : previous' = [previous EXCEPT ![n] = PreviousAfter(n, e)]
  BY <1>1
<1>3. PICK e : previous' = [previous EXCEPT ![n] = PreviousAfter(n, e)]
  BY <1>2
<1>4. \A m \in Node : previous'[m] \in {previous[m], None}
  BY <1>3, PreviousShrinks
<1>5. \A m \in Node : m # n => previous'[m] = previous[m]
  BY <1>3 DEF TcpInv, EndsInStep
<1> QED
  BY <1>1, <1>4, <1>5

(* The server installs only with StartRekey; an ack moves the client.      *)
LEMMA DrawnStep == TcpInv /\ KeysDrawn /\ [Next]_vars => KeysDrawn'
<1> SUFFICES ASSUME TcpInv, KeysDrawn, [Next]_vars PROVE KeysDrawn'
  OBVIOUS
<1>n. "server" \in Node /\ "client" \in Node
  BY DEF Node
<1>1. CASE \/ ClientReceive \/ ClientReceiveExhausted
           \/ ServerReceive \/ ServerResendAck \/ ServerDeclineInit
  <2>1. /\ UNCHANGED <<newest, send, freshEph>>
        /\ \A m \in Node : previous'[m] \in {previous[m], None}
    BY <1>1, TakesRest
  <2> QED
    BY <1>n, <2>1, HeldShrinks, DrawnKept
<1>2. CASE ClientHandleAck
  <2>1. /\ newest'["server"] = newest["server"] /\ send'["server"] = send["server"]
        /\ previous'["server"] = previous["server"] /\ freshEph' = freshEph
    BY <1>2, <1>n DEF ClientHandleAck, TcpInv, EndsInStep
  <2> QED
    BY <1>n, <2>1, HeldShrinks, DrawnKept
<1>3. CASE ServerStartRekey
  BY <1>3, DrawnStarts
<1>4. CASE ServerActivate
  <2>1. /\ newest' = newest /\ freshEph' = freshEph
        /\ send'["server"] \in {send["server"], newest["server"]}
        /\ previous'["server"] \in {previous["server"], None}
    BY <1>4, <1>n DEF ServerActivate, TcpInv, EndsInStep
  <2> QED
    BY <1>n, <2>1, HeldShrinks, DrawnKept
<1>5. CASE \/ \E n \in Node : TunSend(n) \/ DecryptFails(n)
           \/ SendPing \/ SendRekeyInit \/ SendReply \/ BuildRekeyInit \/ UNCHANGED vars
  <2>1. UNCHANGED crypto /\ freshEph'["server"] = freshEph["server"]
    <3>1. CASE BuildRekeyInit
      BY <1>n, <3>1 DEF BuildRekeyInit, TcpInv, ExchangeTypes
    <3>2. CASE \/ \E n \in Node : TunSend(n) \/ DecryptFails(n)
               \/ SendPing \/ SendRekeyInit \/ SendReply \/ UNCHANGED vars
      BY <3>2 DEF TunSend, DecryptFails, SendPing, SendRekeyInit, SendReply, vars, exchange
    <3> QED
      BY <1>5, <3>1, <3>2
  <2> QED
    BY <1>n, <2>1, HeldShrinks, DrawnKept DEF crypto
<1> QED
  BY <1>1, <1>2, <1>3, <1>4, <1>5 DEF Next, Ended

LEMMA DrawnHolds == Spec => []KeysDrawn
<1>1. Init => KeysDrawn
  <2> SUFFICES ASSUME Init PROVE KeysDrawn
    OBVIOUS
  <2> DEFINE first == [epoch |-> 0, key |-> InitialKey]
  <2>1. newest["server"] = first /\ send["server"] = first /\ previous["server"] = None
    BY DEF Init, Node
  <2>2. first.key = << >>
    BY DEF InitialKey
  <2> HIDE DEF first
  <2> QED
    BY <2>1, <2>2 DEF KeysDrawn, Held
<1> QED
  BY <1>1, DrawnStep, TcpInvHolds, PTL DEF Spec

-----------------------------------------------------------------------------
(* An end holds what is in use at it: what it sends under, and what its    *)
(* peer sends under unless it is yet to install that.                      *)
HandoverView == \A n \in Node : Handover!InUse(n) \subseteq Held(n)

LEMMA ViewHolds == SessionInv => HandoverView
<1> SUFFICES ASSUME SessionInv, NEW n \in Node, NEW e \in Handover!InUse(n) PROVE e \in Held(n)
  BY DEF HandoverView
<1> DEFINE s == send[Peer(n)]
<1>1. /\ Handover!Other(n) = Peer(n) /\ Peer(n) \in Node
      /\ newest[n] \in Entry /\ s \in Entry /\ previous[n] \in Entry \cup {None}
      /\ newest[n].epoch \in Nat /\ s.epoch \in Nat
      /\ previous[n] # None => previous[n].epoch \in Nat
  BY EndNumbers DEF SessionInv, Peer, Handover!Other
<1>2. CASE e = newest[n] \/ e = send[n]
  BY <1>2 DEF Held
<1>3. CASE e = s /\ s.epoch <= newest[n].epoch
  <2>1. Oldest(previous[n], newest[n]) <= s.epoch /\ Adjacent(previous[n], newest[n])
    BY DEF SessionInv, WireInv, InOrder
  <2>2. /\ s \in Material /\ newest[n] \in Material
        /\ previous[n] # None => previous[n] \in Material
    BY <1>1, MaterialOf
  <2> HIDE DEF s
  <2>3. \/ s.epoch = newest[n].epoch
        \/ previous[n] # None /\ s.epoch = previous[n].epoch
    BY <1>1, <1>3, <2>1 DEF Oldest, Adjacent
  <2>4. s = newest[n] \/ (previous[n] # None /\ s = previous[n])
    BY <1>1, <2>2, <2>3 DEF SessionInv, OneKeyPerEpoch, Entry
  <2> QED
    BY <1>3, <2>4 DEF Held
<1> HIDE DEF s
<1>4. e = newest[n] \/ e = send[n] \/ (e = s /\ s.epoch <= newest[n].epoch)
  BY <1>1 DEF Handover!InUse, s
<1> QED
  BY <1>2, <1>3, <1>4

(* So a step keeps what is in use. *)
LEMMA EndKeeps ==
  ASSUME NEW n \in Node, NEW added, HandoverView',
         Held(n)' \subseteq Held(n) \cup added, Held(Peer(n))' = Held(Peer(n))
  PROVE  Handover!Keeps(n, added)
<1>1. Peer(n) \in Node /\ Handover!Other(n) = Peer(n)
  BY DEF Peer, Node, Handover!Other
<1>2. Handover!InUse(n)' \subseteq Held(n)'
  BY DEF HandoverView
<1>3. /\ Holdings[n] = Held(n) /\ Holdings'[n] = Held(n)'
      /\ Holdings[Peer(n)] = Held(Peer(n)) /\ Holdings'[Peer(n)] = Held(Peer(n))'
  BY <1>1 DEF Holdings
<1> HIDE DEF Handover!InUse
<1> QED
  BY <1>1, <1>2, <1>3 DEF Handover!Keeps

LEMMA RestsAt ==
  ASSUME NEW n \in Node, newest'[n] = newest[n], send'[n] = send[n], previous'[n] = previous[n]
  PROVE  Held(n)' = Held(n)
BY DEF Held

(* A step that moves no newest and no send session forgets at most. *)
LEMMA ForgetsAtMost ==
  ASSUME HandoverView', NEW n \in Node, UNCHANGED <<newest, send>>,
         previous'[n] \in {previous[n], None}, previous'[Peer(n)] = previous[Peer(n)]
  PROVE  Handover!HandoverNext
<1>1. Peer(n) \in Node /\ n \in Handover!End
  BY DEF Peer, Node, Handover!End
<1>2. Held(n)' \subseteq Held(n) \cup {} /\ Held(Peer(n))' = Held(Peer(n))
  BY <1>1, HeldShrinks, RestsAt
<1>3. Handover!Keeps(n, {})
  BY <1>2, EndKeeps
<1>4. Handover!Forgets(n)
  BY <1>3 DEF Handover!Forgets
<1> QED
  BY <1>1, <1>4 DEF Handover!HandoverNext

LEMMA HandoverRests == ASSUME UNCHANGED crypto PROVE UNCHANGED Handover!handoverVars
BY DEF crypto, Handover!handoverVars, Holdings, Held

(* StartRekey, with a client that holds what the server holds. *)
LEMMA StartInstalls ==
  ASSUME SessionInv, KeysDrawn, HandoverView', ServerStartRekey
  PROVE  Handover!ServerInstalls
<1> DEFINE base == send["server"].key
           pub == freshEph["server"]
           k == Derive(base, Head(wire["server"]).body.eph, pub)
<1>n. "client" \in Node /\ "server" \in Node /\ Peer("server") = "client"
  BY DEF Node, Peer
<1>1. /\ Head(wire["server"]).body.eph \in Nat /\ pub \in Nat /\ base \in Key
      /\ newest'["server"].key = k /\ send["server"] = newest["server"]
      /\ Held("server")' \subseteq Held("server") \cup {newest'["server"]}
  BY StartedKeys DEF SessionInv
<1>2. /\ newest["server"] = newest["client"]
      /\ \E entry : /\ newest' = [newest EXCEPT !["server"] = entry]
                    /\ entry.epoch = newest["client"].epoch + 1
  <2> DEFINE d == Derive(newest["client"].key, Head(wire["server"]).body.eph, pub)
             entry == [epoch |-> newest["client"].epoch + 1, key |-> d]
  <2>1. newest["server"] = newest["client"] /\ newest' = [newest EXCEPT !["server"] = entry]
    BY TakesUpRequest DEF SessionInv
  <2>2. entry.epoch = newest["client"].epoch + 1
    OBVIOUS
  <2> HIDE DEF entry
  <2> QED
    BY <2>1, <2>2
<1>3. /\ newest \in [Node -> Entry] /\ send \in [Node -> Entry]
      /\ send' = send /\ previous'["client"] = previous["client"]
  BY <1>n DEF SessionInv, TcpInv, EndsInStep, ServerStartRekey
<1>4. k[Len(k)][2] = pub /\ Len(k) \in DOMAIN k
  BY <1>1, DerivedKey
<1> HIDE DEF k, pub, base
<1>5. \A a \in Held("server") : a.key # k
  <2> SUFFICES ASSUME NEW a \in Held("server"), a.key = k PROVE FALSE
    OBVIOUS
  <2>1. pub < freshEph["server"]
    BY <1>4 DEF KeysDrawn
  <2> QED
    BY <1>1, <2>1 DEF pub
<1>6. \A a \in Held("server") : newest'["server"].key # a.key
  BY <1>1, <1>5
<1>7. /\ newest' = [newest EXCEPT !["server"] = newest'["server"]]
      /\ newest'["server"].epoch = newest["server"].epoch + 1
      /\ newest'["client"] = newest["client"]
  BY <1>2, <1>3, <1>n
<1>8. send' = [send EXCEPT !["server"] = newest["server"]]
  BY <1>1, <1>3, <1>n
<1>9. Handover!Keeps("server", {newest'["server"]})
  BY <1>1, <1>3, <1>7, <1>n, RestsAt, EndKeeps
<1>10. Holdings["server"] = Held("server")
  BY <1>n DEF Holdings
<1> QED
  BY <1>2, <1>6, <1>7, <1>8, <1>9, <1>10 DEF Handover!ServerInstalls

(* The client installs what the server sent the ack for. *)
LEMMA AckInstallsHandover ==
  ASSUME SessionInv, HandoverView', OwnAck, ClientHandleAck, AckInstalls(Head(wire["client"]))
  PROVE  Handover!ClientInstalls
<1>n. "client" \in Node /\ "server" \in Node /\ Peer("client") = "server"
  BY DEF Node, Peer
<1>1. ServerAhead /\ newest' = [newest EXCEPT !["client"] = newest["server"]]
  BY InstallsNewest DEF OwnAck, SessionInv
<1>2. /\ \E entry : newest' = [newest EXCEPT !["client"] = entry]
                    /\ send' = [send EXCEPT !["client"] = entry]
      /\ \E prev \in {None, newest["client"]} : previous' = [previous EXCEPT !["client"] = prev]
  BY DEF ClientHandleAck
<1>3. /\ newest \in [Node -> Entry] /\ send \in [Node -> Entry]
      /\ previous \in [Node -> Entry \cup {None}]
  BY DEF SessionInv, TcpInv, EndsInStep
<1>4. /\ newest'["client"] = newest["server"] /\ newest'["server"] = newest["server"]
      /\ send' = [send EXCEPT !["client"] = newest["server"]]
      /\ send'["client"] = newest["server"] /\ send'["server"] = send["server"]
  BY <1>1, <1>2, <1>3, <1>n
<1>5. previous'["client"] \in {None, newest["client"]} /\ previous'["server"] = previous["server"]
  BY <1>2, <1>3, <1>n
<1>6. /\ Held("client")' \subseteq Held("client") \cup {newest["server"]}
      /\ Held("server")' = Held("server")
  BY <1>4, <1>5 DEF Held
<1>7. Handover!Keeps("client", {newest["server"]})
  BY <1>6, <1>n, EndKeeps
<1> QED
  BY <1>1, <1>4, <1>7 DEF Handover!ClientInstalls, ServerAhead

(* The server, its ack written, sends under what it has staged. *)
LEMMA ActivateSwitches ==
  ASSUME SessionInv, HandoverView', ServerActivate
  PROVE  Handover!ServerSwitches \/ UNCHANGED Handover!handoverVars
<1> DEFINE s == sm["server"]
           new == newest["server"]
<1>n. "client" \in Node /\ "server" \in Node /\ Peer("server") = "client"
  BY DEF Node, Peer
<1>1. CASE ~CanActivate(s, promote)
  BY <1>1, HandoverRests DEF ServerActivate, crypto
<1>2. CASE CanActivate(s, promote)
  <2>1. /\ newest \in [Node -> Entry] /\ send \in [Node -> Entry]
        /\ previous \in [Node -> Entry \cup {None}]
        /\ EndInStep(s, previous["server"], send["server"], new)
        /\ Adjacent(previous["server"], new)
    BY <1>n DEF SessionInv, TcpInv, EndsInStep, WireInv
  <2>2. /\ s.phase = "staged" /\ promote = s.staged.epoch
        /\ s.staged = new /\ previous["server"] = send["server"]
    BY <1>2, <2>1 DEF CanActivate, EndInStep
  <2>3. /\ new.epoch \in Nat /\ send["server"].epoch \in Nat
        /\ send["server"] # None
    BY <1>n, <2>1, NoEntryAssumption DEF Entry
  <2>4. send["server"] # new
    BY <2>1, <2>2, <2>3 DEF Adjacent
  <2>5. /\ newest' = newest
        /\ send' = [send EXCEPT !["server"] = new]
        /\ \E prev \in {None, previous["server"]} : previous' = [previous EXCEPT !["server"] = prev]
    <3>1. promote = new.epoch
      BY <2>2
    <3> QED
      BY <1>2, <3>1 DEF ServerActivate
  <2>6. /\ send'["server"] = new /\ send'["client"] = send["client"]
        /\ previous'["server"] \in {None, previous["server"]}
        /\ previous'["client"] = previous["client"]
    BY <1>n, <2>1, <2>5
  <2>7. /\ Held("server")' \subseteq Held("server") \cup {}
        /\ Held("client")' = Held("client")
    BY <1>n, <2>5, <2>6, HeldShrinks, RestsAt
  <2>8. Handover!Keeps("server", {})
    BY <1>n, <2>7, EndKeeps
  <2> QED
    BY <2>4, <2>5, <2>8 DEF Handover!ServerSwitches
<1> QED
  BY <1>1, <1>2

(* Every step is one of the handover, where an ack that installs an epoch  *)
(* answers what was asked. *)
LEMMA HandoverStep ==
  ASSUME SessionInv, KeysDrawn, HandoverView', OwnAck, [Next]_vars
  PROVE  [Handover!HandoverNext]_Handover!handoverVars
<1>1. CASE \/ ClientReceive \/ ClientReceiveExhausted
           \/ ServerReceive \/ ServerResendAck \/ ServerDeclineInit
  <2>1. /\ UNCHANGED <<newest, send>>
        /\ \E n \in Node : /\ \A m \in Node : previous'[m] \in {previous[m], None}
                           /\ \A m \in Node : m # n => previous'[m] = previous[m]
    BY <1>1, TakesRest DEF SessionInv
  <2>2. PICK n \in Node : /\ \A m \in Node : previous'[m] \in {previous[m], None}
                          /\ \A m \in Node : m # n => previous'[m] = previous[m]
    BY <2>1
  <2>3. Peer(n) \in Node /\ Peer(n) # n
    BY DEF Peer, Node
  <2> QED
    BY <2>1, <2>2, <2>3, ForgetsAtMost
<1>2. CASE ClientHandleAck
  <2>1. CASE AckInstalls(Head(wire["client"]))
    BY <1>2, <2>1, AckInstallsHandover DEF Handover!HandoverNext
  <2>2. CASE ~AckInstalls(Head(wire["client"]))
    <3>1. "client" \in Node /\ "server" \in Node /\ Peer("client") = "server"
      BY DEF Node, Peer
    <3>2. /\ UNCHANGED <<newest, send>>
          /\ previous' = [previous EXCEPT !["client"] =
                            PreviousAfter("client", Head(wire["client"]).epoch)]
      BY <1>2, <2>2 DEF ClientHandleAck
    <3>3. previous'["client"] \in {previous["client"], None} /\ previous'["server"] = previous["server"]
      BY <3>1, <3>2, PreviousShrinks DEF SessionInv, TcpInv, EndsInStep
    <3> QED
      BY <3>1, <3>2, <3>3, ForgetsAtMost
  <2> QED
    BY <2>1, <2>2
<1>3. CASE ServerStartRekey
  BY <1>3, StartInstalls DEF Handover!HandoverNext
<1>4. CASE ServerActivate
  BY <1>4, ActivateSwitches DEF Handover!HandoverNext
<1>5. CASE \/ \E n \in Node : TunSend(n) \/ DecryptFails(n)
           \/ SendPing \/ SendRekeyInit \/ SendReply \/ BuildRekeyInit \/ UNCHANGED vars
  <2>1. UNCHANGED crypto
    BY <1>5 DEF TunSend, DecryptFails, SendPing, SendRekeyInit, SendReply, BuildRekeyInit, vars
  <2> QED
    BY <2>1, HandoverRests
<1> QED
  BY <1>1, <1>2, <1>3, <1>4, <1>5 DEF Next, Ended

(* A TCP session is a handover of epochs, under rekey V2 whatever the      *)
(* delay of the answers, under V1 when they come within the rotation       *)
(* interval: the server goes one epoch ahead under a key it does not hold, *)
(* the client follows with that very entry, and no end drops what it or    *)
(* its peer sends under.                                                   *)
THEOREM HandoverImplemented ==
  ASSUME V2 \/ ~SlowLink
  PROVE  Spec => ImplementsHandover
<1>1. Init => Handover!HandoverInit
  <2> SUFFICES ASSUME Init PROVE Handover!HandoverInit
    OBVIOUS
  <2> DEFINE first == [epoch |-> 0, key |-> InitialKey]
  <2>1. /\ newest = [n \in Node |-> first] /\ send = [n \in Node |-> first]
        /\ previous = [n \in Node |-> None]
    BY DEF Init
  <2> HIDE DEF first
  <2>2. Holdings = [n \in Node |-> {first}]
    BY <2>1 DEF Holdings, Held
  <2> QED
    BY <2>1, <2>2 DEF Handover!HandoverInit, Handover!End, Node, first
<1>2. SessionInv' => HandoverView'
  BY ViewHolds, PTL
<1>3. /\ SessionInv /\ SessionInv' /\ KeysDrawn /\ OwnAck /\ [Next]_vars
      => [Handover!HandoverNext]_Handover!handoverVars
  BY <1>2, HandoverStep
<1>4. V2 => (Spec => ImplementsHandover)
  <2>1. ASSUME V2 PROVE Spec => []SessionInv
    BY <2>1, SessionInvV2
  <2>2. ASSUME V2 PROVE OwnAck
    BY <2>2, OwnAckV2
  <2>3. ASSUME V2 PROVE Spec => ImplementsHandover
    <3>1. SessionInv /\ SessionInv' /\ KeysDrawn /\ [Next]_vars
          => [Handover!HandoverNext]_Handover!handoverVars
      BY <1>3, <2>2, <2>3
    <3> QED
      BY <1>1, <2>1, <2>3, <3>1, DrawnHolds, PTL DEF Spec, ImplementsHandover, Handover!HandoverSpec
  <2> QED
    BY <2>3
<1>5. ~SlowLink => (Spec => ImplementsHandover)
  <2>1. ASSUME ~SlowLink PROVE Spec => [](SessionInv /\ FastInv)
    BY <2>1, SessionInvFast
  <2>2. SessionInv /\ FastInv => OwnAck
    BY OwnAckFast DEF SessionInv
  <2>3. SessionInv /\ SessionInv' /\ FastInv /\ KeysDrawn /\ [Next]_vars
        => [Handover!HandoverNext]_Handover!handoverVars
    BY <1>3, <2>2
  <2>4. ASSUME ~SlowLink PROVE Spec => ImplementsHandover
    BY <1>1, <2>1, <2>3, <2>4, DrawnHolds, PTL DEF Spec, ImplementsHandover, Handover!HandoverSpec
  <2> QED
    BY <2>4
<1> QED
  BY <1>4, <1>5

-----------------------------------------------------------------------------
(* What a handover alone gives.  The entries of both ends: one for an      *)
(* epoch, and none beyond what the server installed last.                  *)
Entries == Holdings["client"] \cup Holdings["server"]

HandoverInv ==
  /\ DOMAIN newest = Node
  /\ \A n \in Node : newest[n] \in Holdings[n]
  /\ \A a \in Entries : a.epoch \in Nat /\ a.epoch <= newest["server"].epoch
  /\ \A a, b \in Entries : a.epoch = b.epoch => a.key = b.key

LEMMA InstalledAgrees ==
  ASSUME HandoverInv, Handover!ServerInstalls
  PROVE  HandoverInv'
<1>n. /\ "client" \in Node /\ "server" \in Node /\ \A n \in Node : n = "client" \/ n = "server"
      /\ Handover!Other("server") = "client"
  BY DEF Node, Handover!Other
<1>1. /\ newest'["server"].epoch = newest["server"].epoch + 1
      /\ newest' = [newest EXCEPT !["server"] = newest'["server"]]
      /\ Holdings'["server"] \subseteq Holdings["server"] \cup {newest'["server"]}
      /\ Holdings'["client"] = Holdings["client"]
      /\ newest'["server"] \in Holdings'["server"]
  BY <1>n DEF Handover!ServerInstalls, Handover!Keeps, Handover!InUse
<1>2. newest'["client"] = newest["client"]
  <2>1. \E e : newest' = [newest EXCEPT !["server"] = e]
    BY <1>1, Zenon
  <2>2. PICK e : newest' = [newest EXCEPT !["server"] = e]
    BY <2>1
  <2> QED
    BY <1>n, <2>2 DEF HandoverInv
<1>3. Entries' \subseteq Entries \cup {newest'["server"]}
  BY <1>1 DEF Entries
<1>4. newest["server"].epoch \in Nat
  BY <1>n DEF HandoverInv, Entries
<1>5. \A a \in Entries' : a.epoch \in Nat /\ a.epoch <= newest'["server"].epoch
  BY <1>1, <1>3, <1>4 DEF HandoverInv
<1>6. ASSUME NEW a \in Entries', NEW b \in Entries', a.epoch = b.epoch PROVE a.key = b.key
  <2>1. \A c \in Entries : c.epoch # newest'["server"].epoch
    BY <1>1, <1>4 DEF HandoverInv
  <2> QED
    BY <1>3, <1>6, <2>1 DEF HandoverInv
<1> QED
  BY <1>1, <1>2, <1>5, <1>6, <1>n DEF HandoverInv

LEMMA FollowedAgrees ==
  ASSUME HandoverInv, Handover!ClientInstalls
  PROVE  HandoverInv'
<1>n. /\ "client" \in Node /\ "server" \in Node /\ \A n \in Node : n = "client" \/ n = "server"
      /\ Handover!Other("client") = "server"
  BY DEF Node, Handover!Other
<1>1. /\ newest' = [newest EXCEPT !["client"] = newest["server"]]
      /\ Holdings'["client"] \subseteq Holdings["client"] \cup {newest["server"]}
      /\ Holdings'["server"] = Holdings["server"]
      /\ newest'["client"] \in Holdings'["client"]
  BY <1>n DEF Handover!ClientInstalls, Handover!Keeps, Handover!InUse
<1>2. newest'["server"] = newest["server"]
  BY <1>1
<1>3. Entries' \subseteq Entries
  BY <1>1, <1>n DEF Entries, HandoverInv
<1> QED
  BY <1>1, <1>2, <1>3, <1>n DEF HandoverInv

LEMMA KeptAgrees ==
  ASSUME HandoverInv, newest' = newest, NEW n \in Node, Handover!Keeps(n, {})
  PROVE  HandoverInv'
<1>1. /\ "client" \in Node /\ "server" \in Node /\ Peer(n) \in Node
      /\ Handover!Other(n) = Peer(n) /\ \A m \in Node : m = n \/ m = Peer(n)
  BY DEF Node, Peer, Handover!Other
<1>2. /\ Holdings'[n] \subseteq Holdings[n] /\ Holdings'[Peer(n)] = Holdings[Peer(n)]
      /\ newest'[n] \in Holdings'[n]
  BY <1>1 DEF Handover!Keeps, Handover!InUse
<1>3. Entries' \subseteq Entries
  BY <1>1, <1>2 DEF Entries, Node
<1>4. \A m \in Node : newest'[m] \in Holdings'[m]
  BY <1>1, <1>2 DEF HandoverInv
<1> QED
  BY <1>3, <1>4 DEF HandoverInv

(* That both ends have the same key for an epoch is a matter of the        *)
(* handover, whatever the exchange and the crypto behind it: the server    *)
(* installs one epoch after the other, and the client only what the server *)
(* installed.                                                              *)
THEOREM HandoverAgrees == ImplementsHandover => []KeyAgreement
<1>1. Handover!HandoverInit => HandoverInv
  <2> SUFFICES ASSUME Handover!HandoverInit PROVE HandoverInv
    OBVIOUS
  <2> DEFINE first == [epoch |-> 0, key |-> InitialKey]
  <2>1. /\ \A n \in Node : Holdings[n] = {first} /\ newest[n] = first
        /\ "client" \in Node /\ "server" \in Node
    BY DEF Handover!HandoverInit, Handover!End, Node
  <2>2. first.epoch = 0 /\ first.key = InitialKey
    OBVIOUS
  <2>3. DOMAIN newest = Node
    BY DEF Handover!HandoverInit, Handover!End, Node
  <2> HIDE DEF first
  <2>4. Entries = {first}
    BY <2>1 DEF Entries
  <2> QED
    BY <2>1, <2>2, <2>3, <2>4 DEF HandoverInv
<1>2. HandoverInv /\ [Handover!HandoverNext]_(Handover!handoverVars) => HandoverInv'
  <2> SUFFICES ASSUME HandoverInv, [Handover!HandoverNext]_(Handover!handoverVars)
               PROVE  HandoverInv'
    OBVIOUS
  <2>1. CASE Handover!ServerInstalls
    BY <2>1, InstalledAgrees
  <2>2. CASE Handover!ClientInstalls
    BY <2>2, FollowedAgrees
  <2>3. CASE Handover!ServerSwitches
    BY <2>3, KeptAgrees DEF Handover!ServerSwitches, Node
  <2>4. CASE \E n \in Handover!End : Handover!Forgets(n)
    BY <2>4, KeptAgrees DEF Handover!Forgets, Handover!End, Node
  <2>5. CASE UNCHANGED Handover!handoverVars
    BY <2>5 DEF Handover!handoverVars, HandoverInv, Entries
  <2> QED
    BY <2>1, <2>2, <2>3, <2>4, <2>5 DEF Handover!HandoverNext
<1>3. HandoverInv => KeyAgreement
  <2>1. Holdings["client"] = Held("client") /\ Holdings["server"] = Held("server")
    BY DEF Holdings, Node
  <2> QED
    BY <2>1 DEF HandoverInv, KeyAgreement, Entries
<1> QED
  BY <1>1, <1>2, <1>3, PTL DEF ImplementsHandover, Handover!HandoverSpec
=============================================================================
