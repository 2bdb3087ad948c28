------------------------- MODULE UdpRegistrarProofs -------------------------
(***************************************************************************)
(* The registrar, proved for every number of sockets, registrations and    *)
(* copies and every capacity of the queues: the ring of a registration is  *)
(* a first-in first-out queue; RegistrarInv is inductive; and while the    *)
(* network has repeated nothing (CookieInv), a first message and the       *)
(* cookie reply to it exist once, so that the cookie in the answer is of   *)
(* this bucket or of the one the attempt began in, and accepted.           *)
(***************************************************************************)
EXTENDS UdpRegistrar, SequenceTheorems, FiniteSetTheorems, FunctionTheorems, TLAPS

-----------------------------------------------------------------------------
(* The ring of a registration. *)

(* Positions in the ring wrap around once.                                 *)
LEMMA Wraps ==
  ASSUME NEW i \in 0 .. (2 * QueueCapacity - 1)
  PROVE  i % QueueCapacity = IF i < QueueCapacity THEN i ELSE i - QueueCapacity
  BY QueueAssumption

(* What a queue holds is a sequence of slots, as long as its count. *)
LEMMA ContentsIsASeq ==
  ASSUME NEW D, NEW q \in QueueOf(D)
  PROVE  /\ Contents(q) \in Seq(D \cup {None})
         /\ Len(Contents(q)) = q.count
         /\ \A i \in 1 .. q.count : Contents(q)[i] = q.queue[(q.head + i - 1) % QueueCapacity]
<1>1. q.count \in Nat /\ q.head \in Slot /\ QueueCapacity \in Nat \ {0}
  BY QueueAssumption DEF QueueOf
<1>2. \A i \in 1 .. q.count : (q.head + i - 1) % QueueCapacity \in Slot
  <2> TAKE i \in 1 .. q.count
  <2>1. q.head + i - 1 \in Nat
    BY <1>1 DEF Slot
  <2> QED
    BY <1>1, <2>1 DEF Slot
<1> QED
  BY <1>1, <1>2 DEF Contents, QueueOf

(* Enqueue drops the datagram or appends it. *)
LEMMA EnqueueAppends ==
  ASSUME NEW D, None \notin D, NEW q \in QueueOf(D), RingOK(q), NEW d \in D
  PROVE  /\ Enqueue(q, d) \in QueueOf(D)
         /\ RingOK(Enqueue(q, d))
         /\ \/ Contents(Enqueue(q, d)) = Contents(q)
            \/ /\ Len(Contents(q)) < QueueCapacity
               /\ Contents(Enqueue(q, d)) = Append(Contents(q), d)
<1> DEFINE n == Enqueue(q, d)
<1>1. CASE q.closed \/ Full(q)
  BY <1>1 DEF Enqueue
<1>2. CASE ~(q.closed \/ Full(q))
  <2>1. q.count \in 0 .. (QueueCapacity - 1) /\ q.head \in Slot /\ q.tail \in Slot
        /\ QueueCapacity \in Nat \ {0}
    BY <1>2, QueueAssumption DEF QueueOf, Full
  <2>2. n = [queue |-> [q.queue EXCEPT ![q.tail] = d], head |-> q.head,
             tail |-> Following(q.tail), count |-> q.count + 1, closed |-> q.closed]
    BY <1>2 DEF Enqueue, QueueOf
  <2>3. Following(q.tail) \in Slot /\ Following(q.tail) = (q.head + q.count + 1) % QueueCapacity
    <3>1. /\ q.tail + 1 \in 0 .. (2 * QueueCapacity - 1)
          /\ q.head + q.count \in 0 .. (2 * QueueCapacity - 1)
          /\ q.head + q.count + 1 \in 0 .. (2 * QueueCapacity - 1)
      BY <2>1 DEF Slot
    <3>2. q.tail = IF q.head + q.count < QueueCapacity THEN q.head + q.count
                   ELSE q.head + q.count - QueueCapacity
      BY <2>1, <3>1, Wraps DEF RingOK, Slot
    <3>3. Following(q.tail) = IF q.tail + 1 < QueueCapacity THEN q.tail + 1
                              ELSE q.tail + 1 - QueueCapacity
      BY <2>1, <3>1, Wraps DEF Following, Slot
    <3>4. (q.head + q.count + 1) % QueueCapacity =
            IF q.head + q.count + 1 < QueueCapacity THEN q.head + q.count + 1
            ELSE q.head + q.count + 1 - QueueCapacity
      BY <2>1, <3>1, Wraps DEF Slot
    <3> QED
      BY <2>1, <3>2, <3>3, <3>4 DEF Slot
  <2>4. n \in QueueOf(D)
    BY <2>1, <2>2, <2>3 DEF QueueOf
  <2>5. \A i \in 1 .. (q.count + 1) :
          /\ (q.head + i - 1) % QueueCapacity \in Slot
          /\ (q.head + i - 1) % QueueCapacity = q.tail <=> i = q.count + 1
    <3> TAKE i \in 1 .. (q.count + 1)
    <3>1. q.head + i - 1 \in 0 .. (2 * QueueCapacity - 1) /\ q.head + q.count \in 0 .. (2 * QueueCapacity - 1)
      BY <2>1 DEF Slot
    <3>2. q.tail = IF q.head + q.count < QueueCapacity THEN q.head + q.count
                   ELSE q.head + q.count - QueueCapacity
      BY <2>1, <3>1, Wraps DEF RingOK, Slot
    <3>3. (q.head + i - 1) % QueueCapacity =
            IF q.head + i - 1 < QueueCapacity THEN q.head + i - 1
            ELSE q.head + i - 1 - QueueCapacity
      BY <2>1, <3>1, Wraps DEF Slot
    <3> QED
      BY <2>1, <3>2, <3>3 DEF Slot
  <2>6. \A i \in 1 .. (q.count + 1) :
          n.queue[(q.head + i - 1) % QueueCapacity] =
            IF i = q.count + 1 THEN d ELSE q.queue[(q.head + i - 1) % QueueCapacity]
    BY <2>1, <2>2, <2>5 DEF QueueOf
  <2>7. RingOK(n)
    <3>1. n.tail = (n.head + n.count) % QueueCapacity
      <4>1. q.head + (q.count + 1) = q.head + q.count + 1
        BY <2>1 DEF Slot
      <4> QED
        BY <2>2, <2>3, <4>1
    <3>2. n.count = q.count + 1 /\ n.head = q.head
      BY <2>2
    <3>3. \A i \in 1 .. (q.count + 1) : n.queue[(q.head + i - 1) % QueueCapacity] # None
      <4> TAKE i \in 1 .. (q.count + 1)
      <4>1. CASE i = q.count + 1
        BY <2>6, <4>1
      <4>2. CASE i # q.count + 1
        <5>1. i \in 1 .. q.count
          BY <2>1, <4>2
        <5> QED
          BY <2>6, <4>2, <5>1 DEF RingOK
      <4> QED
        BY <4>1, <4>2
    <3> QED
      BY <3>1, <3>2, <3>3 DEF RingOK
  <2>8. Len(Contents(q)) = q.count /\ Contents(n) = Append(Contents(q), d)
    <3>1. /\ Contents(q) \in Seq(D \cup {None}) /\ Len(Contents(q)) = q.count
          /\ \A i \in 1 .. q.count : Contents(q)[i] = q.queue[(q.head + i - 1) % QueueCapacity]
      BY ContentsIsASeq
    <3>2. /\ Contents(n) \in Seq(D \cup {None}) /\ Len(Contents(n)) = n.count
          /\ \A i \in 1 .. n.count : Contents(n)[i] = n.queue[(n.head + i - 1) % QueueCapacity]
      BY <2>4, ContentsIsASeq
    <3>3. n.count = q.count + 1 /\ n.head = q.head
      BY <2>2
    <3>4. /\ Append(Contents(q), d) \in Seq(D \cup {None})
          /\ Len(Append(Contents(q), d)) = q.count + 1
          /\ \A i \in 1 .. (q.count + 1) :
               Append(Contents(q), d)[i] = IF i = q.count + 1 THEN d ELSE Contents(q)[i]
      BY <2>1, <3>1
    <3>5. \A i \in 1 .. (q.count + 1) : Contents(n)[i] = Append(Contents(q), d)[i]
      <4> HIDE DEF n
      <4> TAKE i \in 1 .. (q.count + 1)
      <4>1. i # q.count + 1 => i \in 1 .. q.count
        BY <2>1
      <4> QED
        BY <2>6, <3>1, <3>2, <3>3, <3>4, <4>1
    <3> HIDE DEF n
    <3>6. /\ Len(Contents(n)) = Len(Append(Contents(q), d))
          /\ \A i \in 1 .. Len(Contents(n)) : Contents(n)[i] = Append(Contents(q), d)[i]
      BY <3>2, <3>3, <3>4, <3>5
    <3>7. Contents(n) = Append(Contents(q), d)
      BY ONLY <3>2, <3>4, <3>6, SeqEqual
    <3> QED
      BY <3>1, <3>7
  <2> QED
    BY <2>1, <2>4, <2>7, <2>8
<1> QED
  BY <1>1, <1>2

(* A datagram that is read is the first of the contents. *)
LEMMA DequeueTakesOldest ==
  ASSUME NEW D, None \notin D, NEW q \in QueueOf(D), RingOK(q), Readable(q)
  PROVE  /\ Oldest(q) \in D
         /\ Dequeue(q) \in QueueOf(D)
         /\ RingOK(Dequeue(q))
         /\ Contents(q) # <<>>
         /\ Contents(Dequeue(q)) = Tail(Contents(q))
<1> DEFINE n == Dequeue(q)
<1>1. q.count \in 1 .. QueueCapacity /\ q.head \in Slot /\ q.tail \in Slot
      /\ QueueCapacity \in Nat \ {0}
  BY QueueAssumption DEF QueueOf, Readable
<1>2. /\ n.queue = q.queue /\ n.head = Following(q.head) /\ n.tail = q.tail
      /\ n.count = q.count - 1 /\ n.closed = q.closed
  <2>1. q = [queue |-> q.queue, head |-> q.head, tail |-> q.tail,
             count |-> q.count, closed |-> q.closed]
    BY DEF QueueOf
  <2> QED
    BY <2>1 DEF Dequeue
<1>3. Following(q.head) \in Slot
  BY <1>1, Wraps DEF Following, Slot
<1>4. \A i \in 1 .. q.count :
        (Following(q.head) + i - 1) % QueueCapacity = (q.head + i) % QueueCapacity
  <2> TAKE i \in 1 .. q.count
  <2>1. q.head + i \in 0 .. (2 * QueueCapacity - 1)
        /\ Following(q.head) + i - 1 \in 0 .. (2 * QueueCapacity - 1)
    BY <1>1, <1>3 DEF Slot
  <2>2. Following(q.head) = IF q.head + 1 < QueueCapacity THEN q.head + 1
                            ELSE q.head + 1 - QueueCapacity
    BY <1>1, Wraps DEF Following, Slot
  <2>3. (q.head + i) % QueueCapacity =
          IF q.head + i < QueueCapacity THEN q.head + i ELSE q.head + i - QueueCapacity
    BY <1>1, <1>3, <2>1, Wraps DEF Slot
  <2>4. (Following(q.head) + i - 1) % QueueCapacity =
          IF Following(q.head) + i - 1 < QueueCapacity THEN Following(q.head) + i - 1
          ELSE Following(q.head) + i - 1 - QueueCapacity
    BY <1>1, <1>3, <2>1, Wraps DEF Slot
  <2> QED
    BY <1>1, <2>2, <2>3, <2>4 DEF Slot
<1>5. Oldest(q) \in D
  <2>1. (q.head + 1 - 1) % QueueCapacity = q.head
    BY <1>1, Wraps DEF Slot
  <2>2. q.queue[q.head] # None
    <3>1. 1 \in 1 .. q.count
      BY <1>1
    <3> QED
      BY <2>1, <3>1 DEF RingOK
  <2> QED
    BY <1>1, <2>2 DEF Oldest, QueueOf
<1>6. n \in QueueOf(D)
  <2>1. q.count - 1 \in 0 .. QueueCapacity
    BY <1>1
  <2> QED
    BY <1>3, <2>1 DEF QueueOf, Dequeue
<1>7. RingOK(n)
  BY <1>1, <1>2, <1>4 DEF RingOK
<1>8. Contents(q) # <<>> /\ Contents(n) = Tail(Contents(q))
  <2>1. /\ Contents(q) \in Seq(D \cup {None}) /\ Len(Contents(q)) = q.count
        /\ \A i \in 1 .. q.count : Contents(q)[i] = q.queue[(q.head + i - 1) % QueueCapacity]
    BY ContentsIsASeq
  <2>2. /\ Contents(n) \in Seq(D \cup {None}) /\ Len(Contents(n)) = n.count
        /\ \A i \in 1 .. n.count : Contents(n)[i] = n.queue[(n.head + i - 1) % QueueCapacity]
    BY <1>6, ContentsIsASeq
  <2>3. n.count = q.count - 1 /\ n.head = Following(q.head) /\ n.queue = q.queue
    BY <1>2
  <2>4. Contents(q) # <<>>
    BY <1>1, <2>1
  <2>5. /\ Tail(Contents(q)) \in Seq(D \cup {None}) /\ Len(Tail(Contents(q))) = q.count - 1
        /\ \A i \in 1 .. (q.count - 1) : Tail(Contents(q))[i] = Contents(q)[i + 1]
    BY <2>1, <2>4, HeadTailProperties
  <2>6. \A i \in 1 .. (q.count - 1) : Contents(n)[i] = Tail(Contents(q))[i]
    <3> HIDE DEF n
    <3> TAKE i \in 1 .. (q.count - 1)
    <3>1. i \in 1 .. q.count /\ i + 1 \in 1 .. q.count /\ q.head + (i + 1) - 1 = q.head + i
      BY <1>1 DEF Slot
    <3>2. Contents(n)[i] = q.queue[(q.head + i) % QueueCapacity]
      <4>1. i \in 1 .. n.count
        BY <2>3
      <4>2. Contents(n)[i] = q.queue[(Following(q.head) + i - 1) % QueueCapacity]
        BY ONLY <2>2, <2>3, <4>1
      <4> QED
        BY ONLY <1>4, <3>1, <4>2
    <3>3. Contents(q)[i + 1] = q.queue[(q.head + i) % QueueCapacity]
      <4>1. Contents(q)[i + 1] = q.queue[(q.head + (i + 1) - 1) % QueueCapacity]
        BY ONLY <2>1, <3>1
      <4> QED
        BY ONLY <3>1, <4>1
    <3>4. Tail(Contents(q))[i] = Contents(q)[i + 1]
      BY ONLY <2>5, i \in 1 .. (q.count - 1)
    <3> QED
      BY <3>2, <3>3, <3>4
  <2> HIDE DEF n
  <2>7. /\ Len(Contents(n)) = Len(Tail(Contents(q)))
        /\ \A i \in 1 .. Len(Contents(n)) : Contents(n)[i] = Tail(Contents(q))[i]
    BY <2>2, <2>3, <2>5, <2>6
  <2>8. Contents(n) = Tail(Contents(q))
    BY ONLY <2>2, <2>5, <2>7, SeqEqual
  <2> QED
    BY <2>4, <2>8
<1> QED
  BY <1>5, <1>6, <1>7, <1>8

(* Closing a queue keeps what it holds. *)
LEMMA CloseKeeps ==
  ASSUME NEW D, NEW q \in QueueOf(D), RingOK(q)
  PROVE  /\ Close(q) \in QueueOf(D)
         /\ RingOK(Close(q))
         /\ Contents(Close(q)) = Contents(q)
  BY DEF Close, QueueOf, RingOK, Contents

-----------------------------------------------------------------------------
(* The goroutines that are live. *)

(* A step after which no further registration is live keeps the bound. *)
LEMMA FewerAreBounded ==
  ASSUME RegistrationsBounded, Live' \subseteq Live
  PROVE  RegistrationsBounded'
<1>1. IsFiniteSet(Registration)
  BY RegistrarAssumption, FS_Interval DEF Registration
<1>2. IsFiniteSet(Live) /\ Live \subseteq Registration
  BY <1>1, FS_Subset DEF Live
<1>3. Cardinality(Live') \in Nat /\ Cardinality(Live) \in Nat /\ Cardinality(Live') <= Cardinality(Live)
  BY <1>2, FS_Subset, FS_CardinalityType
<1> QED
  BY <1>3, RegistrarAssumption DEF RegistrationsBounded

(* While the map is in use there are as many registrations as sockets in it. *)
LEMMA LiveIsInjected ==
  ASSUME TypeOK, LiveIsMapped, ~Collected
  PROVE  /\ IsFiniteSet(Live) /\ Cardinality(Live) \in Nat
         /\ Cardinality(Live) <= Cardinality(Mapped) /\ Cardinality(Mapped) \in Nat
<1> DEFINE f == [r \in Live |-> reg[r].from]
<1>1. IsFiniteSet(Mapped)
  <2>1. IsFiniteSet(Socket)
    BY RegistrarAssumption, FS_Interval DEF Socket
  <2> QED
    BY <2>1, FS_Subset DEF Mapped
<1>2. \A r \in Live : f[r] \in Mapped /\ registrations[f[r]] = r
  BY RegistrarAssumption DEF LiveIsMapped, Mapped, Live
<1>3. f \in Injection(Live, Mapped)
  BY <1>2 DEF Injection, IsInjective
<1>4. Cardinality(Mapped) \in Nat
  BY <1>1, FS_CardinalityType
<1>5. IsFiniteSet(Live) /\ Cardinality(Live) <= Cardinality(Mapped)
  <2> HIDE DEF f
  <2> QED
    BY ONLY <1>1, <1>3, FS_Injection
<1>6. Cardinality(Live) \in Nat
  BY <1>5, FS_CardinalityType
<1> QED
  BY <1>4, <1>5, <1>6

-----------------------------------------------------------------------------
(* Before the first datagram nothing is registered. *)
LEMMA InitRegistrar == Init => RegistrarInv
<1> SUFFICES ASSUME Init PROVE RegistrarInv
  OBVIOUS
<1>1. NewQueue \in QueueOf(Datagram) /\ RingOK(NewQueue)
  <2>1. QueueCapacity \in Nat \ {0} /\ 0 \in Slot
    BY QueueAssumption DEF Slot
  <2>2. (0 + 0) % QueueCapacity = 0
    BY <2>1
  <2> QED
    BY <2>1, <2>2 DEF NewQueue, QueueOf, RingOK
<1>2. TypeOK
  BY <1>1, RegistrarAssumption
  DEF Init, TypeOK, Goroutine, Loop, Idle, Handshake, Bucket
<1>3. Live = {} /\ Mapped = {}
  BY DEF Init, Live, Alive, Mapped
<1>4. MapIsOfLive /\ LiveIsMapped /\ CollectedIsClosing /\ CreatedIsStarted
  BY <1>3 DEF MapIsOfLive, LiveIsMapped, CollectedIsClosing, CreatedIsStarted, Collected, Init, Idle
<1>5. AnswersAreKept
  BY DEF Init, AnswersAreKept, ConnectedIsRegistered
<1>6. RegistrationsBounded
  BY <1>3, FS_EmptySet, RegistrarAssumption DEF RegistrationsBounded
<1> QED
  BY <1>2, <1>4, <1>5, <1>6 DEF RegistrarInv

(* What leaves the goroutines and the queues alone keeps what is said of   *)
(* them.                                                                   *)
LEMMA GoroutinesUntouched ==
  ASSUME RegistrarInv, UNCHANGED <<registrations, reg, queue, taken, open>>, TypeOK',
         \/ UNCHANGED rx
         \/ rx.pc = "idle" /\ rx'.pc \in {"idle", "unrouted"} /\ ~rx'.isNew
            /\ (rx'.pc = "unrouted" => rx'.frame \in Datagram)
  PROVE  /\ MapIsOfLive' /\ LiveIsMapped' /\ CollectedIsClosing' /\ CreatedIsStarted'
         /\ RegistrationsBounded'
<1>1. Live' = Live /\ Mapped' = Mapped /\ (Collected' <=> Collected)
  BY DEF Live, Alive, Mapped, Collected
<1>2. MapIsOfLive' /\ LiveIsMapped'
  BY <1>1 DEF RegistrarInv, MapIsOfLive, LiveIsMapped, Alive
<1>3. CollectedIsClosing'
  BY <1>1 DEF RegistrarInv, CollectedIsClosing, Collected
<1>4. CreatedIsStarted'
  BY DEF RegistrarInv, CreatedIsStarted
<1>5. RegistrationsBounded'
  BY <1>1, FewerAreBounded DEF RegistrarInv
<1> QED
  BY <1>2, <1>3, <1>4, <1>5

(* What leaves answers, keys and connected clients alone keeps every answer. *)
LEMMA AnswersUntouched ==
  ASSUME RegistrarInv, TypeOK',
         down' \subseteq down, added \subseteq added',
         \A r \in Registration : reg[r].pc = "admitted" => reg'[r] = reg[r],
         \A r \in Registration : reg'[r].pc = "admitted" => reg'[r] = reg[r],
         \A s \in Socket : client'[s].pc = "connected" =>
           client[s].pc = "connected" /\ client'[s].key = client[s].key
  PROVE  AnswersAreKept'
<1>1. \A k : Admitted(k) => Admitted(k)'
  BY DEF Admitted
<1>2. ConnectedIsRegistered'
  BY <1>1 DEF RegistrarInv, AnswersAreKept, ConnectedIsRegistered
<1> QED
  BY <1>1, <1>2 DEF RegistrarInv, AnswersAreKept

-----------------------------------------------------------------------------
(* The client and the network. *)
LEMMA ClientKeeps ==
  ASSUME RegistrarInv,
         \/ \E s \in Socket : Connect(s) \/ GiveUp(s) \/ SendData(s)
         \/ Tick
  PROVE  RegistrarInv'
<1>1. UNCHANGED <<serverVars, down, copies>>
  BY DEF Connect, GiveUp, SendData, Tick, networkVars
<1>2. /\ bucket' \in Bucket /\ client' \in [Socket -> Handshake] /\ up' \subseteq Datagram
      /\ \A s \in Socket : client'[s].pc = "connected" =>
           client[s].pc = "connected" /\ client'[s].key = client[s].key
  <2> USE DEF RegistrarInv, TypeOK
  <2>1. ASSUME NEW s \in Socket, Connect(s) PROVE <1>2
    <3>1. Msg1Of(s, 1, None) \in Datagram
      BY DEF Msg1Of, Datagram, Msg1, Attempt
    <3> QED
      BY <2>1, <3>1 DEF Connect, Handshake
  <2>2. ASSUME NEW s \in Socket, GiveUp(s) PROVE <1>2
    BY <2>2 DEF GiveUp, Handshake, networkVars
  <2>3. ASSUME NEW s \in Socket, SendData(s) PROVE <1>2
    <3>1. client[s].key \in Key
      BY <2>3 DEF SendData, AnswersAreKept, ConnectedIsRegistered, Admitted
    <3>2. [kind |-> "data", from |-> s, key |-> client[s].key] \in Datagram
      BY <3>1 DEF Datagram, Data
    <3> QED
      BY <2>3, <3>2 DEF SendData
  <2>4. CASE Tick
    <3>1. bucket' \in Bucket /\ UNCHANGED up
      BY <2>4, RegistrarAssumption DEF Tick, Bucket, networkVars
    <3>2. client' = [s \in Socket |-> [client[s] EXCEPT !.late = Busy(s)]]
      BY <2>4 DEF Tick
    <3>3. ASSUME NEW s \in Socket
          PROVE  client'[s] \in Handshake /\ client'[s].pc = client[s].pc
                 /\ client'[s].key = client[s].key
      <4>1. client[s] \in Handshake /\ Busy(s) \in BOOLEAN
        BY DEF Busy
      <4>2. client'[s] = [client[s] EXCEPT !.late = Busy(s)]
        BY <3>2
      <4> QED
        BY <4>1, <4>2 DEF Handshake
    <3> QED
      BY <3>1, <3>2, <3>3
  <2> QED
    BY <2>1, <2>2, <2>3, <2>4
<1>3. TypeOK'
  BY <1>1, <1>2 DEF RegistrarInv, TypeOK, serverVars
<1>4. AnswersAreKept'
  BY <1>1, <1>2, <1>3, AnswersUntouched DEF serverVars
<1> QED
  BY <1>1, <1>3, <1>4, GoroutinesUntouched DEF RegistrarInv, serverVars

(* A reply that arrives: a client that completes with it was answered. *)
LEMMA ReceiveReplyKeeps ==
  ASSUME RegistrarInv, NEW a \in down, ReceiveReply(a)
  PROVE  RegistrarInv'
<1> USE DEF RegistrarInv, TypeOK
<1>1. UNCHANGED <<serverVars, bucket>> /\ down' \subseteq down /\ copies' \in 0 .. MaxCopies
  BY RegistrarAssumption DEF ReceiveReply, Arrives
<1>2. a \in Reply /\ a.to \in Socket
  BY DEF Reply
<1>3. /\ client' \in [Socket -> Handshake] /\ up' \subseteq Datagram
      /\ \A s \in Socket : client'[s].pc = "connected" =>
           \/ client[s].pc = "connected" /\ client'[s].key = client[s].key
           \/ a.kind = "msg2" /\ client'[s].key = a.key
  <2>1. CASE Retry(a.to, a)
    <3>1. a.cookie \in Bucket
      BY <1>2, <2>1 DEF Retry, Reply
    <3>2. Msg1Of(a.to, 2, a.cookie) \in Datagram
      BY <1>2, <3>1 DEF Msg1Of, Datagram, Msg1, Attempt
    <3> QED
      BY <1>2, <2>1, <3>1, <3>2 DEF Retry, Handshake
  <2>2. CASE Refused(a.to, a)
    BY <1>2, <2>2 DEF Refused, Handshake
  <2>3. CASE Complete(a.to, a)
    <3>1. a.key \in Key
      BY <1>2, <2>3 DEF Complete, Reply
    <3> QED
      BY <1>2, <2>3, <3>1, SMTT(30) DEF Complete, Handshake
  <2> QED
    BY <2>1, <2>2, <2>3 DEF ReceiveReply
<1>4. TypeOK'
  BY <1>1, <1>3 DEF serverVars
<1>5. AnswersAreKept'
  BY <1>1, <1>3 DEF AnswersAreKept, ConnectedIsRegistered, Admitted, serverVars
<1> QED
  BY <1>1, <1>4, <1>5, GoroutinesUntouched DEF serverVars

-----------------------------------------------------------------------------
(* The receive loop. *)
LEMMA RxTakeKeeps ==
  ASSUME RegistrarInv, NEW d \in up, RxTake(d)
  PROVE  RegistrarInv'
<1>1. /\ UNCHANGED <<registrations, queue, reg, taken, open, session, added, bucket, client, down>>
      /\ up' \subseteq up /\ copies' \in 0 .. MaxCopies
  BY RegistrarAssumption DEF RxTake, Arrives, RegistrarInv, TypeOK
<1>2. /\ rx.pc = "idle" /\ rx'.pc \in {"idle", "unrouted"} /\ rx' \in Loop
      /\ rx' = rx \/ ~rx'.isNew
      /\ rx'.pc = "unrouted" => rx'.frame \in Datagram
  BY ZenonT(40) DEF RxTake, Idle, Loop, RegistrarInv, TypeOK
<1>3. TypeOK'
  BY <1>1, <1>2 DEF RegistrarInv, TypeOK
<1>4. AnswersAreKept'
  BY <1>1, <1>3, AnswersUntouched
<1> QED
  BY <1>1, <1>2, <1>3, <1>4, GoroutinesUntouched DEF RegistrarInv

LEMMA FindQueueKeeps ==
  ASSUME RegistrarInv, GetOrCreateQueue, FindQueue(rx.frame.from) \/ DropAtCapacity(rx.frame.from)
  PROVE  RegistrarInv'
<1> DEFINE s == rx.frame.from
<1>1. /\ UNCHANGED <<registrations, queue, reg, taken, open, session, added, bucket, client, up, down, copies>>
      /\ rx.pc = "unrouted" /\ rx.frame \in Datagram /\ ~rx.isNew
  BY DEF GetOrCreateQueue, FindQueue, DropAtCapacity, networkVars, RegistrarInv, CreatedIsStarted
<1>2. s \in Socket
  BY <1>1 DEF Datagram, Msg1, Data
<1>3. rx' \in Loop /\ (rx'.pc = "queued" => rx'.to \in Registration /\ rx'.frame \in Datagram)
      /\ rx'.pc \in {"idle", "queued"} /\ ~rx'.isNew
  <2>1. CASE FindQueue(s)
    BY <1>1, <1>2, <2>1 DEF FindQueue, Loop, RegistrarInv, TypeOK
  <2>2. CASE DropAtCapacity(s)
    BY <2>2 DEF DropAtCapacity, Loop, Idle
  <2> QED
    BY <2>1, <2>2
<1>4. TypeOK'
  BY <1>1, <1>3 DEF RegistrarInv, TypeOK
<1>5. AnswersAreKept'
  BY <1>1, <1>4, AnswersUntouched
<1>6. Live' = Live /\ Mapped' = Mapped /\ ~Collected /\ ~Collected'
  BY <1>1, <1>3 DEF Live, Alive, Mapped, Collected
<1>7. MapIsOfLive' /\ LiveIsMapped' /\ CollectedIsClosing'
  BY <1>1, <1>6 DEF RegistrarInv, MapIsOfLive, LiveIsMapped, CollectedIsClosing, Alive
<1>8. CreatedIsStarted'
  BY <1>1, <1>3 DEF RegistrarInv, CreatedIsStarted
<1>9. RegistrationsBounded'
  BY <1>6, FewerAreBounded DEF RegistrarInv
<1> QED
  BY <1>4, <1>5, <1>7, <1>8, <1>9 DEF RegistrarInv

(* The one step that makes a registration: below the capacity of the map,  *)
(* which holds every live one.                                             *)
LEMMA CreateQueueKeeps ==
  ASSUME RegistrarInv, GetOrCreateQueue, NEW r \in Registration, CreateQueue(rx.frame.from, r)
  PROVE  RegistrarInv'
<1> DEFINE s == rx.frame.from
<1>1. /\ UNCHANGED <<queue, taken, open, session, added, bucket, client, up, down, copies>>
      /\ rx.pc = "unrouted" /\ rx.frame \in Datagram /\ ~rx.isNew
      /\ registrations[s] = None /\ ~AtCapacity /\ reg[r].pc = "none"
      /\ registrations' = [registrations EXCEPT ![s] = r]
      /\ reg' = [reg EXCEPT ![r].pc = "created", ![r].from = s]
      /\ rx' = [rx EXCEPT !.pc = "queued", !.to = r, !.isNew = TRUE]
  BY DEF GetOrCreateQueue, CreateQueue, networkVars, RegistrarInv, CreatedIsStarted
<1>2. s \in Socket
  BY <1>1 DEF Datagram, Msg1, Data
<1>3. TypeOK /\ ~Collected /\ ~Collected'
  BY <1>1 DEF RegistrarInv, TypeOK, Loop, Collected
<1>4. rx' \in Loop /\ rx'.pc = "queued" /\ rx'.to = r /\ rx'.isNew /\ rx'.frame = rx.frame
  BY <1>1, <1>3 DEF TypeOK, Loop
<1>5. /\ reg' \in [Registration -> Goroutine]
      /\ reg'[r].pc = "created" /\ reg'[r].from = s
      /\ \A q \in Registration : q # r => reg'[q] = reg[q]
  <2>1. reg \in [Registration -> Goroutine]
    BY <1>3 DEF TypeOK
  <2>2. reg' = [reg EXCEPT ![r] = [[@ EXCEPT !.pc = "created"] EXCEPT !.from = s]]
    BY <1>1, <2>1
  <2>3. reg'[r] = [[reg[r] EXCEPT !.pc = "created"] EXCEPT !.from = s]
    BY <2>1, <2>2
  <2>4. reg'[r] \in Goroutine /\ reg'[r].pc = "created" /\ reg'[r].from = s
    BY <1>2, <2>1, <2>3, ZenonT(40) DEF Goroutine
  <2> QED
    BY <2>1, <2>2, <2>4
<1>6. TypeOK'
  BY <1>1, <1>2, <1>3, <1>4, <1>5 DEF TypeOK
<1>7. AnswersAreKept'
  <2>1. \A q \in Registration : reg'[q].pc = "admitted" <=> reg[q].pc = "admitted"
    BY <1>1, <1>5
  <2> QED
    BY <1>1, <1>5, <1>6, <2>1, AnswersUntouched
<1>8. Live' = Live \cup {r} /\ r \notin Live
  BY <1>1, <1>5 DEF Live, Alive
<1>9. MapIsOfLive'
  <2> SUFFICES ASSUME NEW t \in Socket, registrations'[t] # None
               PROVE  (Alive(registrations[t]) /\ reg[registrations[t]].from = t)'
    BY DEF MapIsOfLive, Mapped
  <2>1. CASE t = s
    BY <1>1, <1>2, <1>3, <1>5, <2>1 DEF Alive, TypeOK
  <2>2. CASE t # s
    <3>1. registrations'[t] = registrations[t] /\ registrations[t] \in Registration
      BY <1>1, <1>3, <2>2 DEF TypeOK
    <3>2. Alive(registrations[t]) /\ reg[registrations[t]].from = t
      BY <3>1 DEF RegistrarInv, MapIsOfLive, Mapped
    <3> QED
      BY <1>1, <1>5, <3>1, <3>2 DEF Alive
  <2> QED
    BY <2>1, <2>2
<1>10. LiveIsMapped'
  <2> SUFFICES ASSUME NEW q \in Live'
               PROVE  reg'[q].from \in Socket /\ registrations'[reg'[q].from] = q
    BY DEF LiveIsMapped
  <2>1. CASE q = r
    BY <1>1, <1>2, <1>3, <1>5, <2>1 DEF TypeOK
  <2>2. CASE q # r
    <3>1. q \in Live /\ q \in Registration /\ reg'[q] = reg[q]
      BY <1>5, <1>8, <2>2 DEF Live
    <3>2. reg[q].from \in Socket /\ registrations[reg[q].from] = q
      BY <1>3, <3>1 DEF RegistrarInv, LiveIsMapped
    <3>3. reg[q].from # s
      BY <1>1, <3>1, <3>2, RegistrarAssumption
    <3> QED
      BY <1>1, <1>3, <3>1, <3>2, <3>3 DEF TypeOK
  <2> QED
    BY <2>1, <2>2
<1>11. CollectedIsClosing'
  BY <1>3 DEF CollectedIsClosing
<1>12. CreatedIsStarted'
  <2>1. \A q \in Registration : reg[q].pc # "created"
    BY <1>1 DEF RegistrarInv, CreatedIsStarted
  <2> QED
    BY <1>1, <1>4, <1>5, <2>1 DEF CreatedIsStarted
<1>13. RegistrationsBounded'
  <2>1. /\ IsFiniteSet(Live) /\ Cardinality(Live) \in Nat
        /\ Cardinality(Live) <= Cardinality(Mapped) /\ Cardinality(Mapped) \in Nat
    BY <1>3, LiveIsInjected DEF RegistrarInv
  <2>2. Cardinality(Mapped) < MaxRegistrations
    BY <1>1, <2>1, RegistrarAssumption DEF AtCapacity
  <2>3. Cardinality(Live') = Cardinality(Live) + 1
    BY <1>8, <2>1, FS_AddElement
  <2> QED
    BY <2>1, <2>2, <2>3, RegistrarAssumption DEF RegistrationsBounded
<1> QED
  BY <1>6, <1>7, <1>9, <1>10, <1>11, <1>12, <1>13 DEF RegistrarInv

(* One queue of the map from registrations to queues changes. *)
LEMMA QueueChanges ==
  ASSUME TypeOK, NEW r \in Registration, NEW q, q \in QueueOf(Datagram), RingOK(q),
         queue' = [queue EXCEPT ![r] = q]
  PROVE  /\ queue' \in [Registration -> QueueOf(Datagram)]
         /\ \A t \in Registration : RingOK(queue'[t])
         /\ queue'[r] = q /\ \A t \in Registration : t # r => queue'[t] = queue[t]
  BY DEF TypeOK

LEMMA CloseIsQueue ==
  ASSUME TypeOK, NEW r \in Registration
  PROVE  /\ Close(queue[r]) \in QueueOf(Datagram) /\ RingOK(Close(queue[r]))
         /\ Close(queue[r]).closed
<1>1. queue[r] \in QueueOf(Datagram) /\ RingOK(queue[r])
  BY DEF TypeOK
<1>2. Close(queue[r]).closed
  BY <1>1 DEF Close, QueueOf
<1> QED
  BY <1>1, <1>2, CloseKeeps

LEMMA EnqueuePacketKeeps ==
  ASSUME RegistrarInv, EnqueuePacket
  PROVE  RegistrarInv'
<1>1. /\ UNCHANGED <<registrations, taken, open, session, added, bucket, client, up, down, copies>>
      /\ rx.pc = "queued" /\ rx' = Idle /\ rx.frame \in Datagram /\ rx.to \in Registration
      /\ queue' = [queue EXCEPT ![rx.to] = Enqueue(@, rx.frame)]
      /\ reg' = IF rx.isNew THEN [reg EXCEPT ![rx.to].pc = "reading"] ELSE reg
      /\ TypeOK
  BY DEF EnqueuePacket, networkVars, RegistrarInv, CreatedIsStarted
<1>2. rx' \in Loop /\ rx'.pc = "idle" /\ ~Collected /\ ~Collected'
  BY <1>1 DEF Idle, Loop, Collected
<1>3. /\ queue' \in [Registration -> QueueOf(Datagram)]
      /\ \A t \in Registration : RingOK(queue'[t])
  <2>1. queue[rx.to] \in QueueOf(Datagram) /\ RingOK(queue[rx.to]) /\ None \notin Datagram
    BY <1>1, RegistrarAssumption DEF TypeOK
  <2>2. /\ Enqueue(queue[rx.to], rx.frame) \in QueueOf(Datagram)
        /\ RingOK(Enqueue(queue[rx.to], rx.frame))
    BY <1>1, <2>1, EnqueueAppends
  <2> QED
    BY <1>1, <2>2, QueueChanges
<1>4. /\ reg' \in [Registration -> Goroutine]
      /\ \A q \in Registration :
           /\ reg'[q].from = reg[q].from /\ reg'[q].pc # "created"
           /\ Alive(q)' <=> Alive(q)
           /\ reg[q].pc = "admitted" => reg'[q] = reg[q]
           /\ reg'[q].pc = "admitted" => reg'[q] = reg[q]
  <2>1. reg \in [Registration -> Goroutine]
    BY <1>1 DEF TypeOK
  <2>2. CASE rx.isNew
    <3>1. reg[rx.to].pc = "created" /\ \A q \in Registration : q # rx.to => reg[q].pc # "created"
      BY <1>1, <2>2 DEF RegistrarInv, CreatedIsStarted
    <3>2. reg'[rx.to] = [reg[rx.to] EXCEPT !.pc = "reading"]
          /\ \A q \in Registration : q # rx.to => reg'[q] = reg[q]
      BY <1>1, <2>1, <2>2
    <3>3. reg'[rx.to] \in Goroutine /\ reg'[rx.to].pc = "reading" /\ reg'[rx.to].from = reg[rx.to].from
      BY <1>1, <2>1, <3>2 DEF Goroutine
    <3> QED
      BY <1>1, <2>1, <2>2, <3>1, <3>2, <3>3 DEF Alive
  <2>3. CASE ~rx.isNew
    BY <1>1, <2>1, <2>3 DEF RegistrarInv, CreatedIsStarted, Alive
  <2> QED
    BY <2>2, <2>3
<1>5. TypeOK'
  BY <1>1, <1>2, <1>3, <1>4 DEF TypeOK
<1>6. AnswersAreKept'
  BY <1>1, <1>4, <1>5, AnswersUntouched
<1>7. Live' = Live /\ Mapped' = Mapped
  BY <1>1, <1>4 DEF Live, Mapped
<1>8. MapIsOfLive' /\ LiveIsMapped'
  <2>1. \A t \in Mapped : registrations[t] \in Registration
    BY <1>1 DEF TypeOK, Mapped
  <2>2. MapIsOfLive'
    BY <1>1, <1>4, <1>7, <2>1 DEF RegistrarInv, MapIsOfLive
  <2>3. LiveIsMapped'
    BY <1>1, <1>2, <1>4, <1>7 DEF RegistrarInv, LiveIsMapped, Live
  <2> QED
    BY <2>2, <2>3
<1>9. CollectedIsClosing' /\ CreatedIsStarted'
  BY <1>2, <1>4 DEF CollectedIsClosing, CreatedIsStarted
<1>10. RegistrationsBounded'
  BY <1>7, FewerAreBounded DEF RegistrarInv
<1> QED
  BY <1>5, <1>6, <1>8, <1>9, <1>10 DEF RegistrarInv

(* The shutdown, and closeAll in its steps. *)
LEMMA ShutdownKeeps ==
  ASSUME RegistrarInv, Shutdown
  PROVE  RegistrarInv'
<1>1. /\ UNCHANGED <<registrations, queue, reg, rx, taken, session, added, bucket, client, up, down, copies>>
      /\ open' = FALSE
  BY DEF Shutdown, networkVars
<1>2. TypeOK'
  BY <1>1 DEF RegistrarInv, TypeOK
<1>3. AnswersAreKept'
  BY <1>1, <1>2, AnswersUntouched
<1>4. Live' = Live /\ Mapped' = Mapped /\ (Collected' <=> Collected)
  BY <1>1 DEF Live, Alive, Mapped, Collected
<1>5. MapIsOfLive' /\ LiveIsMapped' /\ CollectedIsClosing' /\ CreatedIsStarted'
  BY <1>1, <1>4
  DEF RegistrarInv, MapIsOfLive, LiveIsMapped, CollectedIsClosing, CreatedIsStarted, Alive
<1>6. RegistrationsBounded'
  BY <1>4, FewerAreBounded DEF RegistrarInv
<1> QED
  BY <1>2, <1>3, <1>5, <1>6 DEF RegistrarInv

LEMMA CloseAllKeeps ==
  ASSUME RegistrarInv, CloseAll
  PROVE  RegistrarInv'
<1>1. /\ UNCHANGED <<queue, reg, open, session, added, bucket, client, up, down, copies>>
      /\ rx.pc = "idle" /\ ~open
      /\ taken' = {registrations[s] : s \in Mapped}
      /\ registrations' = [s \in Socket |-> None]
      /\ rx' = [rx EXCEPT !.pc = "closing"] /\ TypeOK
  BY DEF CloseAll, networkVars, RegistrarInv
<1>2. rx' \in Loop /\ rx'.pc = "closing" /\ ~Collected /\ Collected'
  BY <1>1 DEF TypeOK, Loop, Collected
<1>3. taken' \subseteq Registration
  BY <1>1 DEF TypeOK, Mapped
<1>4. TypeOK'
  BY <1>1, <1>2, <1>3 DEF TypeOK
<1>5. AnswersAreKept'
  BY <1>1, <1>4, AnswersUntouched
<1>6. Live' = Live /\ Mapped' = {}
  BY <1>1 DEF Live, Alive, Mapped
<1>7. MapIsOfLive' /\ LiveIsMapped'
  BY <1>1, <1>2, <1>6 DEF RegistrarInv, MapIsOfLive, LiveIsMapped
<1>8. CollectedIsClosing'
  <2>1. \A r \in Live : r \in taken'
    <3> TAKE r \in Live
    <3>1. r \in Registration /\ reg[r].from \in Socket /\ registrations[reg[r].from] = r
      BY <1>2 DEF RegistrarInv, LiveIsMapped, Live
    <3>2. reg[r].from \in Mapped
      BY <3>1, RegistrarAssumption DEF Mapped
    <3> QED
      BY <1>1, <3>1, <3>2
  <2> QED
    BY <1>1, <1>2, <1>6, <2>1 DEF CollectedIsClosing
<1>9. CreatedIsStarted'
  BY <1>1, <1>2 DEF RegistrarInv, CreatedIsStarted
<1>10. RegistrationsBounded'
  BY <1>6, FewerAreBounded DEF RegistrarInv
<1> QED
  BY <1>4, <1>5, <1>7, <1>8, <1>9, <1>10 DEF RegistrarInv

LEMMA CloseTakenKeeps ==
  ASSUME RegistrarInv, CloseTaken
  PROVE  RegistrarInv'
<1>1. /\ UNCHANGED <<registrations, reg, open, session, added, bucket, client, up, down, copies>>
      /\ rx.pc = "closing" /\ Collected /\ TypeOK /\ taken \subseteq Registration
  BY DEF CloseTaken, networkVars, Collected, RegistrarInv, TypeOK
<1>2. Live' = Live /\ Mapped' = Mapped
  BY <1>1 DEF Live, Alive, Mapped
<1>3. /\ queue' \in [Registration -> QueueOf(Datagram)]
      /\ \A t \in Registration : RingOK(queue'[t])
      /\ rx' \in Loop /\ taken' \subseteq Registration
      /\ rx'.pc \in {"closing", "stopped"} /\ rx'.isNew = rx.isNew /\ rx'.to = rx.to
      /\ \A t \in Live : queue'[t].closed \/ (rx'.pc = "closing" /\ t \in taken')
  <2>1. ASSUME NEW r \in taken, queue' = [queue EXCEPT ![r] = Close(@)],
               taken' = taken \ {r}, UNCHANGED rx
        PROVE  <1>3
    <3>1. /\ Close(queue[r]) \in QueueOf(Datagram) /\ RingOK(Close(queue[r]))
          /\ Close(queue[r]).closed /\ r \in Registration
      BY <1>1, CloseIsQueue
    <3>2. queue' = [queue EXCEPT ![r] = Close(queue[r])]
      BY <2>1
    <3>3. /\ queue' \in [Registration -> QueueOf(Datagram)]
          /\ \A t \in Registration : RingOK(queue'[t])
          /\ queue'[r] = Close(queue[r]) /\ \A t \in Registration : t # r => queue'[t] = queue[t]
      BY <1>1, <3>1, <3>2, QueueChanges
    <3>4. \A t \in Live : queue[t].closed \/ t \in taken
      BY <1>1 DEF RegistrarInv, CollectedIsClosing
    <3> QED
      BY <1>1, <2>1, <3>1, <3>3, <3>4 DEF TypeOK, Live
  <2>2. ASSUME taken = {}, rx' = [rx EXCEPT !.pc = "stopped"], UNCHANGED <<queue, taken>>
        PROVE  <1>3
    <3>1. \A t \in Live : queue[t].closed
      BY <1>1, <2>2 DEF RegistrarInv, CollectedIsClosing
    <3> QED
      BY <1>1, <2>2, <3>1 DEF TypeOK, Loop
  <2> QED
    BY <2>1, <2>2 DEF CloseTaken
<1>4. TypeOK'
  BY <1>1, <1>3 DEF TypeOK
<1>5. AnswersAreKept'
  BY <1>1, <1>4, AnswersUntouched
<1>6. Collected' /\ MapIsOfLive' /\ LiveIsMapped' /\ CollectedIsClosing'
  BY <1>1, <1>2, <1>3
  DEF RegistrarInv, MapIsOfLive, LiveIsMapped, CollectedIsClosing, Collected, Alive
<1>7. CreatedIsStarted'
  BY <1>1, <1>3 DEF RegistrarInv, CreatedIsStarted
<1>8. RegistrationsBounded'
  BY <1>2, FewerAreBounded DEF RegistrarInv
<1> QED
  BY <1>4, <1>5, <1>6, <1>7, <1>8 DEF RegistrarInv

-----------------------------------------------------------------------------
(* The goroutines.  A step after which the goroutine still runs leaves the *)
(* registrations as they are.                                              *)
Running(r) == reg[r].pc \in {"reading", "admitted", "returning"}

LEMMA GoroutineMoves ==
  ASSUME RegistrarInv, NEW r \in Registration, Running(r), Running(r)',
         UNCHANGED <<registrations, rx, taken, open>>,
         reg'[r].from = reg[r].from,
         \A q \in Registration : q # r => reg'[q] = reg[q],
         \A q \in Registration : queue[q].closed => queue'[q].closed
  PROVE  /\ MapIsOfLive' /\ LiveIsMapped' /\ CollectedIsClosing' /\ CreatedIsStarted'
         /\ RegistrationsBounded'
<1>1. \A q \in Registration : /\ Alive(q)' <=> Alive(q)
                              /\ reg'[q].from = reg[q].from
                              /\ reg'[q].pc = "created" <=> reg[q].pc = "created"
  BY DEF Running, Alive
<1>2. Live' = Live /\ Mapped' = Mapped /\ (Collected' <=> Collected)
  BY <1>1 DEF Live, Mapped, Collected
<1>3. \A t \in Mapped : registrations[t] \in Registration
  BY DEF RegistrarInv, TypeOK, Mapped
<1>4. MapIsOfLive' /\ LiveIsMapped'
  BY <1>1, <1>2, <1>3 DEF RegistrarInv, MapIsOfLive, LiveIsMapped, Live
<1>5. CollectedIsClosing'
  BY <1>2 DEF RegistrarInv, CollectedIsClosing, Live
<1>6. CreatedIsStarted'
  BY <1>1 DEF RegistrarInv, CreatedIsStarted
<1>7. RegistrationsBounded'
  BY <1>2, FewerAreBounded DEF RegistrarInv
<1> QED
  BY <1>4, <1>5, <1>6, <1>7

LEMMA ReadMessageKeeps ==
  ASSUME RegistrarInv, NEW r \in Registration, ReadMessage(r)
  PROVE  RegistrarInv'
<1> DEFINE d == Oldest(queue[r])
           key == [from |-> d.from, attempt |-> d.attempt, by |-> r]
<1>1. /\ UNCHANGED <<registrations, rx, taken, open, session, added, bucket, client, up, copies>>
      /\ reg[r].pc = "reading" /\ Readable(queue[r]) /\ TypeOK
      /\ queue' = [queue EXCEPT ![r] = Dequeue(@)]
  BY DEF ReadMessage, RegistrarInv
<1>2. /\ queue[r] \in QueueOf(Datagram) /\ RingOK(queue[r]) /\ None \notin Datagram
      /\ reg \in [Registration -> Goroutine] /\ reg[r] \in Goroutine /\ down \subseteq Reply
      /\ bucket \in Bucket
  BY <1>1, RegistrarAssumption DEF TypeOK
<1>3. d \in Datagram /\ Dequeue(queue[r]) \in QueueOf(Datagram) /\ RingOK(Dequeue(queue[r]))
      /\ Dequeue(queue[r]).closed = queue[r].closed
  <2>1. Dequeue(queue[r]).closed = queue[r].closed
    BY <1>2 DEF Dequeue, QueueOf
  <2> QED
    BY <1>1, <1>2, <2>1, DequeueTakesOldest
<1>4. /\ queue' \in [Registration -> QueueOf(Datagram)]
      /\ \A t \in Registration : RingOK(queue'[t])
      /\ \A t \in Registration : queue[t].closed => queue'[t].closed
  BY <1>1, <1>3, QueueChanges
<1>5. d.from \in Socket
  BY <1>3 DEF Datagram, Msg1, Data
<1> HIDE DEF d
<1>6. /\ reg' \in [Registration -> Goroutine] /\ down' \subseteq Reply
      /\ reg'[r].from = reg[r].from /\ Running(r)'
      /\ \A q \in Registration : q # r => reg'[q] = reg[q]
      /\ \/ down' \subseteq down /\ reg'[r].pc # "admitted"
         \/ /\ \A a \in down' \ down : a.kind = "cookie"
            /\ reg'[r].pc # "admitted"
         \/ /\ \A a \in down' \ down : a.key = key
            /\ reg'[r].pc = "admitted" /\ reg'[r].key = key /\ key \in Key
  <2>1. CASE d.kind = "msg1" /\ AskForCookie(r, d)
    <3>1. d.attempt \in Attempt
      BY <1>3, <2>1 DEF Datagram, Msg1, Data
    <3>2. [kind |-> "cookie", to |-> d.from, attempt |-> d.attempt, cookie |-> bucket] \in Reply
      BY <1>2, <1>5, <3>1 DEF Reply
    <3>3. down' = down \cup
                   {[kind |-> "cookie", to |-> d.from, attempt |-> d.attempt, cookie |-> bucket]}
      BY <2>1 DEF AskForCookie
    <3>4. /\ reg'[r] = IF reg[r].attempt = 0 THEN [reg[r] EXCEPT !.attempt = 1]
                       ELSE [reg[r] EXCEPT !.pc = "returning"]
          /\ reg' = [reg EXCEPT ![r] = reg'[r]]
      BY <1>2, <2>1 DEF AskForCookie
    <3>5. reg'[r] \in Goroutine /\ reg'[r].from = reg[r].from
          /\ reg'[r].pc \in {"reading", "returning"}
      BY <1>1, <1>2, <3>4 DEF Goroutine
    <3> QED
      BY <1>2, <3>2, <3>3, <3>4, <3>5 DEF Running
  <2>2. CASE d.kind = "msg1" /\ Answer(r, d)
    <3>1. d.attempt \in Attempt
      BY <1>3, <2>2 DEF Datagram, Msg1, Data
    <3>2. key \in Key
      BY <1>5, <3>1 DEF Key
    <3> HIDE DEF key
    <3>3. [kind |-> "msg2", to |-> d.from, key |-> key] \in Reply
      BY <1>5, <3>2 DEF Reply
    <3>4. /\ down' = down \cup {[kind |-> "msg2", to |-> d.from, key |-> key]}
          /\ reg' = [reg EXCEPT ![r].pc = "admitted", ![r].key = key]
      BY <2>2 DEF Answer, key
    <3>5. reg'[r] = [[reg[r] EXCEPT !.pc = "admitted"] EXCEPT !.key = key]
          /\ \A q \in Registration : q # r => reg'[q] = reg[q]
      BY <1>2, <3>4
    <3>6. reg'[r] \in Goroutine /\ reg'[r].from = reg[r].from
          /\ reg'[r].pc = "admitted" /\ reg'[r].key = key
      BY <1>2, <3>2, <3>5 DEF Goroutine
    <3> QED
      BY <1>2, <3>2, <3>3, <3>4, <3>5, <3>6 DEF Running
  <2>3. CASE HandshakeFails(r)
    <3>1. reg'[r] = [reg[r] EXCEPT !.pc = "returning"]
          /\ \A q \in Registration : q # r => reg'[q] = reg[q]
      BY <1>2, <2>3 DEF HandshakeFails
    <3>2. reg'[r] \in Goroutine /\ reg'[r].from = reg[r].from /\ reg'[r].pc = "returning"
      BY <1>2, <3>1 DEF Goroutine
    <3> QED
      BY <1>2, <2>3, <3>1, <3>2 DEF HandshakeFails, Running
  <2> QED
    BY <2>1, <2>2, <2>3 DEF ReadMessage, d
<1>7. TypeOK'
  BY <1>1, <1>4, <1>6 DEF TypeOK
<1>8. AnswersAreKept'
  <2>1. \A k : Admitted(k) => Admitted(k)'
    BY <1>1, <1>6 DEF Admitted
  <2>2. \A a \in down' : a.kind = "msg2" => a.key \in added' \/ Admitted(a.key)'
    <3> TAKE a \in down'
    <3>1. CASE a \in down
      BY <1>1, <2>1, <3>1 DEF RegistrarInv, AnswersAreKept
    <3>2. CASE a \notin down
      BY <1>6, <3>2 DEF Admitted
    <3> QED
      BY <3>1, <3>2
  <2>3. \A q \in Registration : reg'[q].pc = "admitted" => reg'[q].key \in Key
    BY <1>6 DEF RegistrarInv, AnswersAreKept
  <2>4. ConnectedIsRegistered'
    BY <1>1, <2>1 DEF RegistrarInv, AnswersAreKept, ConnectedIsRegistered
  <2> QED
    BY <2>2, <2>3, <2>4 DEF AnswersAreKept
<1> QED
  BY <1>1, <1>4, <1>6, <1>7, <1>8, GoroutineMoves DEF RegistrarInv, Running

LEMMA ReadEndKeeps ==
  ASSUME RegistrarInv, NEW r \in Registration, ReadEnd(r)
  PROVE  RegistrarInv'
<1>1. /\ UNCHANGED <<registrations, queue, rx, taken, open, session, added, bucket, client, up, down, copies>>
      /\ reg[r].pc = "reading" /\ TypeOK /\ reg' = [reg EXCEPT ![r].pc = "returning"]
  BY DEF ReadEnd, HandshakeFails, RegistrarInv
<1>2. /\ reg' \in [Registration -> Goroutine]
      /\ reg'[r].pc = "returning" /\ reg'[r].from = reg[r].from
      /\ \A q \in Registration : q # r => reg'[q] = reg[q]
  BY <1>1 DEF TypeOK, Goroutine
<1>3. TypeOK'
  BY <1>1, <1>2 DEF TypeOK
<1>4. AnswersAreKept'
  <2>1. \A q \in Registration : reg[q].pc = "admitted" \/ reg'[q].pc = "admitted" => q # r
    BY <1>1, <1>2
  <2> QED
    BY <1>1, <1>2, <1>3, <2>1, AnswersUntouched
<1> QED
  BY <1>1, <1>2, <1>3, <1>4, GoroutineMoves DEF RegistrarInv, Running

(* A goroutine leaves "admitted" only by adding the session it answered for. *)
LEMMA RegisterKeeps ==
  ASSUME RegistrarInv, NEW r \in Registration, Register(r)
  PROVE  RegistrarInv'
<1>1. /\ UNCHANGED <<registrations, queue, rx, taken, open, bucket, client, up, down, copies>>
      /\ reg[r].pc = "admitted" /\ TypeOK /\ reg' = [reg EXCEPT ![r].pc = "returning"]
      /\ session' = reg[r].key /\ added' = added \cup {reg[r].key}
  BY DEF Register, networkVars, RegistrarInv
<1>2. /\ reg' \in [Registration -> Goroutine]
      /\ reg'[r].pc = "returning" /\ reg'[r].from = reg[r].from
      /\ \A q \in Registration : q # r => reg'[q] = reg[q]
  BY <1>1 DEF TypeOK, Goroutine
<1>3. reg[r].key \in Key
  BY <1>1 DEF RegistrarInv, AnswersAreKept
<1>4. TypeOK'
  BY <1>1, <1>2, <1>3 DEF TypeOK
<1>5. AnswersAreKept'
  <2>1. \A k : k \in added \/ Admitted(k) => k \in added' \/ Admitted(k)'
    BY <1>1, <1>2 DEF Admitted
  <2>2. \A q \in Registration : reg'[q].pc = "admitted" => reg'[q].key \in Key
    BY <1>2 DEF RegistrarInv, AnswersAreKept
  <2>3. ConnectedIsRegistered'
    BY <1>1, <2>1 DEF RegistrarInv, AnswersAreKept, ConnectedIsRegistered
  <2> QED
    BY <1>1, <2>1, <2>2, <2>3 DEF RegistrarInv, AnswersAreKept
<1> QED
  BY <1>1, <1>2, <1>4, <1>5, GoroutineMoves DEF RegistrarInv, Running

LEMMA ContextDoneKeeps ==
  ASSUME RegistrarInv, NEW r \in Registration, ContextDone(r)
  PROVE  RegistrarInv'
<1>1. /\ UNCHANGED <<registrations, reg, rx, taken, open, session, added, bucket, client, up, down, copies>>
      /\ Running(r) /\ TypeOK /\ queue' = [queue EXCEPT ![r] = Close(queue[r])]
  BY DEF ContextDone, networkVars, Running, RegistrarInv
<1>2. /\ queue' \in [Registration -> QueueOf(Datagram)]
      /\ \A t \in Registration : RingOK(queue'[t])
      /\ \A t \in Registration : queue[t].closed => queue'[t].closed
  BY <1>1, CloseIsQueue, QueueChanges
<1>3. TypeOK'
  BY <1>1, <1>2 DEF TypeOK
<1>4. AnswersAreKept'
  BY <1>1, <1>3, AnswersUntouched
<1>5. Running(r)'
  BY <1>1 DEF Running
<1> QED
  BY <1>1, <1>2, <1>3, <1>4, <1>5, GoroutineMoves DEF RegistrarInv

(* The end of a goroutine: what it removes by the address is its own.      *)
LEMMA RemoveKeeps ==
  ASSUME RegistrarInv, NEW r \in Registration, Remove(r)
  PROVE  RegistrarInv'
<1> DEFINE s == reg[r].from
<1>1. /\ UNCHANGED <<rx, taken, open, session, added, bucket, client, up, down, copies>>
      /\ reg[r].pc = "returning" /\ TypeOK
      /\ registrations' = [registrations EXCEPT ![s] = None]
      /\ queue' = IF registrations[s] = None THEN queue
                  ELSE [queue EXCEPT ![registrations[s]] = Close(@)]
      /\ reg' = [reg EXCEPT ![r].pc = "ended"]
  BY DEF Remove, networkVars, RegistrarInv
<1>2. /\ reg' \in [Registration -> Goroutine]
      /\ reg'[r].pc = "ended" /\ reg'[r].from = s
      /\ \A q \in Registration : q # r => reg'[q] = reg[q]
  BY <1>1 DEF TypeOK, Goroutine
<1>3. registrations' \in [Socket -> Registration \cup {None}]
      /\ \A t \in Socket : registrations'[t] = IF t = s THEN None ELSE registrations[t]
  BY <1>1 DEF TypeOK
<1>4. /\ queue' \in [Registration -> QueueOf(Datagram)]
      /\ \A t \in Registration : RingOK(queue'[t]) /\ (queue[t].closed => queue'[t].closed)
  <2>1. CASE registrations[s] \in Registration
    <3>1. /\ Close(queue[registrations[s]]) \in QueueOf(Datagram)
          /\ RingOK(Close(queue[registrations[s]])) /\ Close(queue[registrations[s]]).closed
      BY <1>1, <2>1, CloseIsQueue
    <3>2. queue' = [queue EXCEPT ![registrations[s]] = Close(queue[registrations[s]])]
      BY <1>1, <2>1, RegistrarAssumption
    <3> QED
      BY <1>1, <2>1, <3>1, <3>2, QueueChanges
  <2>2. CASE registrations[s] \notin Registration
    <3>1. UNCHANGED queue
      BY <1>1, <2>2 DEF TypeOK
    <3> QED
      BY <1>1, <3>1 DEF TypeOK
  <2> QED
    BY <2>1, <2>2
<1>5. TypeOK'
  BY <1>1, <1>2, <1>3, <1>4 DEF TypeOK
<1>6. AnswersAreKept'
  <2>1. \A q \in Registration : reg[q].pc = "admitted" \/ reg'[q].pc = "admitted" => q # r
    BY <1>1, <1>2
  <2> QED
    BY <1>1, <1>2, <1>5, <2>1, AnswersUntouched
<1>7. Live' = Live \ {r} /\ r \in Live
  BY <1>1, <1>2 DEF Live, Alive
<1>8. MapIsOfLive'
  <2> SUFFICES ASSUME NEW t \in Socket, registrations'[t] # None
               PROVE  (Alive(registrations[t]) /\ reg[registrations[t]].from = t)'
    BY DEF MapIsOfLive, Mapped
  <2>1. t # s /\ registrations'[t] = registrations[t] /\ registrations[t] \in Registration
    BY <1>1, <1>3 DEF TypeOK
  <2>2. Alive(registrations[t]) /\ reg[registrations[t]].from = t
    BY <2>1 DEF RegistrarInv, MapIsOfLive, Mapped
  <2>3. registrations[t] # r
    BY <2>1, <2>2
  <2> QED
    BY <1>2, <2>1, <2>2, <2>3 DEF Alive
<1>9. LiveIsMapped'
  <2> SUFFICES ASSUME NEW q \in Live'
               PROVE  /\ reg'[q].from \in Socket
                      /\ ~Collected' => registrations'[reg'[q].from] = q
    BY DEF LiveIsMapped
  <2>1. q # r /\ q \in Live /\ reg'[q] = reg[q] /\ (Collected' <=> Collected)
    BY <1>1, <1>2, <1>7 DEF Live, Collected
  <2>2. /\ reg[q].from \in Socket
        /\ ~Collected => registrations[reg[q].from] = q /\ registrations[s] = r
    BY <1>7, <2>1 DEF RegistrarInv, LiveIsMapped
  <2> QED
    BY <1>3, <2>1, <2>2
<1>10. CollectedIsClosing'
  <2>1. Collected' <=> Collected
    BY <1>1 DEF Collected
  <2>2. Mapped = {} => Mapped' = {}
    BY <1>3 DEF Mapped
  <2> QED
    BY <1>1, <1>4, <1>7, <2>1, <2>2 DEF RegistrarInv, CollectedIsClosing, Live
<1>11. CreatedIsStarted'
  <2>1. \A q \in Registration : reg'[q].pc = "created" <=> reg[q].pc = "created"
    BY <1>1, <1>2
  <2> QED
    BY <1>1, <2>1 DEF RegistrarInv, CreatedIsStarted
<1>12. RegistrationsBounded'
  BY <1>7, FewerAreBounded DEF RegistrarInv
<1> QED
  BY <1>5, <1>6, <1>8, <1>9, <1>10, <1>11, <1>12 DEF RegistrarInv

-----------------------------------------------------------------------------
LEMMA NextKeeps == RegistrarInv /\ [Next]_vars => RegistrarInv'
<1> SUFFICES ASSUME RegistrarInv, [Next]_vars PROVE RegistrarInv'
  OBVIOUS
<1>1. CASE \E d \in up : RxTake(d)
  BY <1>1, RxTakeKeeps
<1>2. CASE GetOrCreateQueue
  BY <1>2, FindQueueKeeps, CreateQueueKeeps DEF GetOrCreateQueue
<1>3. CASE EnqueuePacket \/ Shutdown \/ CloseAll \/ CloseTaken
  BY <1>3, EnqueuePacketKeeps, ShutdownKeeps, CloseAllKeeps, CloseTakenKeeps
<1>4. CASE \E r \in Registration :
             ReadMessage(r) \/ ReadEnd(r) \/ Register(r) \/ Remove(r) \/ ContextDone(r)
  BY <1>4, ReadMessageKeeps, ReadEndKeeps, RegisterKeeps, RemoveKeeps, ContextDoneKeeps
<1>5. CASE (\E s \in Socket : Connect(s) \/ GiveUp(s) \/ SendData(s)) \/ Tick
  BY <1>5, ClientKeeps
<1>6. CASE \E a \in down : ReceiveReply(a)
  BY <1>6, ReceiveReplyKeeps
<1>7. CASE UNCHANGED vars
  BY <1>7
  DEF vars, serverVars, networkVars, RegistrarInv, TypeOK, MapIsOfLive, LiveIsMapped,
      CollectedIsClosing, CreatedIsStarted, AnswersAreKept, ConnectedIsRegistered, Admitted,
      RegistrationsBounded, Live, Alive, Mapped, Collected
<1> QED
  BY <1>1, <1>2, <1>3, <1>4, <1>5, <1>6, <1>7 DEF Next

(* The types, the shape of every ring, and how the map of registrations    *)
(* and the goroutines belong together hold always.                         *)
THEOREM RegistrarHolds == Spec => []RegistrarInv
  BY InitRegistrar, NextKeeps, PTL DEF Spec

(* registration.go never runs more than maxConcurrentRegistrations         *)
(* goroutines.                                                             *)
THEOREM BoundHolds == Spec => []RegistrationsBounded
<1>1. RegistrarInv => RegistrationsBounded
  BY DEF RegistrarInv
<1> QED
  BY <1>1, RegistrarHolds, PTL

(* closeAll leaves no goroutine behind that waits for its timeout.         *)
THEOREM ShutdownHolds == Spec => []ShutdownClosesAll
<1>1. RegistrarInv => ShutdownClosesAll
  BY DEF RegistrarInv, CollectedIsClosing, Collected, ShutdownClosesAll
<1> QED
  BY <1>1, RegistrarHolds, PTL

(* A client that completed its handshake has a session, or is getting it.  *)
THEOREM ConnectedHolds == Spec => []ConnectedIsRegistered
<1>1. RegistrarInv => ConnectedIsRegistered
  BY DEF RegistrarInv, AnswersAreKept
<1> QED
  BY <1>1, RegistrarHolds, PTL

-----------------------------------------------------------------------------
AllFifo == \A r \in Registration : FifoStep(Contents(queue[r]), Contents(queue'[r]))

LEMMA ClosingIsFifo ==
  ASSUME TypeOK, NEW r \in Registration, queue' = [queue EXCEPT ![r] = Close(@)]
  PROVE  AllFifo
<1>1. queue[r] \in QueueOf(Datagram) /\ RingOK(queue[r])
  BY DEF TypeOK
<1>2. Contents(queue'[r]) = Contents(queue[r])
  BY <1>1, CloseKeeps DEF TypeOK
<1>3. \A t \in Registration : t # r => queue'[t] = queue[t]
  BY DEF TypeOK
<1> QED
  BY <1>2, <1>3 DEF AllFifo, FifoStep

LEMMA StepsAreFifo == RegistrarInv /\ [Next]_vars => AllFifo
<1> SUFFICES ASSUME RegistrarInv, [Next]_vars PROVE AllFifo
  OBVIOUS
<1>t. TypeOK /\ None \notin Datagram /\ queue \in [Registration -> QueueOf(Datagram)]
      /\ \A r \in Registration : RingOK(queue[r])
  BY RegistrarAssumption DEF RegistrarInv, TypeOK
<1>1. CASE UNCHANGED queue
  BY <1>1 DEF AllFifo, FifoStep
<1>2. CASE EnqueuePacket
  <2>1. rx.to \in Registration /\ rx.frame \in Datagram
    BY <1>2 DEF EnqueuePacket, RegistrarInv, CreatedIsStarted
  <2>2. /\ queue'[rx.to] = Enqueue(queue[rx.to], rx.frame)
        /\ \A t \in Registration : t # rx.to => queue'[t] = queue[t]
    BY <1>t, <1>2, <2>1 DEF EnqueuePacket
  <2>3. FifoStep(Contents(queue[rx.to]), Contents(queue'[rx.to]))
    BY <1>t, <2>1, <2>2, EnqueueAppends DEF FifoStep
  <2> QED
    BY <2>2, <2>3 DEF AllFifo, FifoStep
<1>3. ASSUME NEW r \in Registration, ReadMessage(r) PROVE AllFifo
  <2>1. /\ queue'[r] = Dequeue(queue[r]) /\ Readable(queue[r])
        /\ \A t \in Registration : t # r => queue'[t] = queue[t]
    BY <1>t, <1>3 DEF ReadMessage
  <2>2. FifoStep(Contents(queue[r]), Contents(queue'[r]))
    BY <1>t, <2>1, DequeueTakesOldest DEF FifoStep
  <2> QED
    BY <2>1, <2>2 DEF AllFifo, FifoStep
<1>4. CASE CloseTaken
  <2>1. taken \subseteq Registration
    BY <1>t DEF TypeOK
  <2> QED
    BY <1>1, <1>4, <1>t, <2>1, ClosingIsFifo DEF CloseTaken
<1>5. ASSUME NEW r \in Registration, Remove(r) PROVE AllFifo
  <2>2. CASE registrations[reg[r].from] \in Registration
    BY <1>5, <1>t, <2>2, ClosingIsFifo, RegistrarAssumption DEF Remove
  <2>3. CASE reg[r].from \in Socket /\ registrations[reg[r].from] \notin Registration
    <3>1. registrations[reg[r].from] = None
      BY <1>t, <2>3 DEF TypeOK
    <3> QED
      BY <1>1, <1>5, <3>1 DEF Remove
  <2>4. reg[r].from \in Socket
    BY <1>5 DEF Remove, RegistrarInv, LiveIsMapped, Live, Alive
  <2> QED
    BY <2>2, <2>3, <2>4
<1>6. ASSUME NEW r \in Registration, ContextDone(r) PROVE AllFifo
  BY <1>6, <1>t, ClosingIsFifo DEF ContextDone
<1> QED
  BY <1>1, <1>2, <1>3, <1>4, <1>5, <1>6
  DEF Next, vars, serverVars, RxTake, GetOrCreateQueue, Shutdown, CloseAll, ReadEnd, Register,
      Connect, GiveUp, SendData, ReceiveReply, Tick

(* A queue is first in, first out, whatever is closed, removed or dropped. *)
THEOREM FifoHolds == Spec => QueuesAreFifo
<1>1. RegistrarInv /\ [Next]_vars => [AllFifo]_vars
  BY StepsAreFifo
<1> QED
  BY <1>1, RegistrarHolds, PTL DEF Spec, QueuesAreFifo, AllFifo

-----------------------------------------------------------------------------
(* As long as the network repeats nothing, a first message of an attempt   *)
(* and the cookie reply to it exist once: on its way to the server, in the *)
(* hands of the loop, in one place of one queue, or on the way back.       *)
Held(r) == Contents(queue[r])
InLoop == rx.pc \in {"unrouted", "queued"}

OnWay(d) ==
  \/ d \in up
  \/ InLoop /\ rx.frame = d
  \/ \E r \in Registration : \E i \in 1 .. Len(Held(r)) : Held(r)[i] = d

MessageOf(d, s, n) == d.kind = "msg1" /\ d.from = s /\ d.attempt = n
CookieFor(a, s) == a.kind = "cookie" /\ a.to = s

FirstInUp(s) == \E d \in up : MessageOf(d, s, 1)
FirstInLoop(s) == InLoop /\ MessageOf(rx.frame, s, 1)
FirstInQueue(s) == \E r \in Registration : \E i \in 1 .. Len(Held(r)) : MessageOf(Held(r)[i], s, 1)
Asked(s) == \E a \in down : CookieFor(a, s)

InOnePlace(s) ==
  /\ FirstInUp(s) => ~FirstInLoop(s) /\ ~FirstInQueue(s) /\ ~Asked(s)
  /\ FirstInLoop(s) => ~FirstInQueue(s) /\ ~Asked(s)
  /\ FirstInQueue(s) => ~Asked(s)
  /\ \A d, e \in up : MessageOf(d, s, 1) /\ MessageOf(e, s, 1) => d = e
  /\ \A r, q \in Registration : \A i \in 1 .. Len(Held(r)), j \in 1 .. Len(Held(q)) :
       MessageOf(Held(r)[i], s, 1) /\ MessageOf(Held(q)[j], s, 1) => r = q /\ i = j
  /\ \A a, b \in down : CookieFor(a, s) /\ CookieFor(b, s) => a = b

(* A cookie is of this bucket, or of the one the attempt began in.         *)
Fresh(c, s) == c = bucket \/ (client[s].late /\ c = bucket - 1)

NewSound(s) ==
  client[s].pc = "new" => ~Asked(s) /\ \A d : OnWay(d) => d.from # s

WaitingSound(s) ==
  client[s].pc = "waiting" =>
    /\ InOnePlace(s)
    /\ \A d : OnWay(d) => ~MessageOf(d, s, 2)
    /\ \A a \in down : CookieFor(a, s) => Fresh(a.cookie, s)

RetriedSound(s) ==
  client[s].pc = "retried" =>
    /\ Fresh(client[s].cookie, s)
    /\ ~Asked(s) /\ \A d : OnWay(d) => ~MessageOf(d, s, 1)
    /\ \A d : OnWay(d) /\ MessageOf(d, s, 2) => d.cookie = client[s].cookie

SocketSound(s) ==
  client[s].pc # "refused" /\ NewSound(s) /\ WaitingSound(s) /\ RetriedSound(s)

CookieInv == copies = MaxCopies => \A s \in Socket : SocketSound(s)

LEMMA OnWayAre ==
  ASSUME NEW s
  PROVE  /\ FirstInUp(s) \/ FirstInLoop(s) \/ FirstInQueue(s) <=> \E d : OnWay(d) /\ MessageOf(d, s, 1)
  BY DEF OnWay, FirstInUp, FirstInLoop, FirstInQueue

(* A step that brings nothing new of an attempt keeps it sound.            *)
LEMMA NothingNewKeeps ==
  ASSUME NEW s \in Socket, SocketSound(s), UNCHANGED bucket,
         client'[s] = client[s] \/ client'[s].pc \in {"connected", "failed"},
         \A d \in up' \ up : d.from # s \/ (d.kind = "data" /\ client[s].pc # "new"),
         \A a \in down' : CookieFor(a, s) => a \in down,
         InLoop' => InLoop /\ rx'.frame = rx.frame,
         \A r \in Registration : Held(r)' = Held(r)
  PROVE  SocketSound(s)'
<1>1. client'[s].pc # "refused"
  BY DEF SocketSound
<1>2. ASSUME NEW d, OnWay(d)', ~OnWay(d) PROVE d \in up' \ up
  BY <1>2 DEF OnWay
<1>3. Asked(s)' => Asked(s)
  BY DEF Asked
<1>4. ASSUME NEW n, NEW d, OnWay(d)', MessageOf(d, s, n) PROVE OnWay(d)
  BY <1>2, <1>4 DEF MessageOf
<1>5. /\ FirstInUp(s)' => FirstInUp(s)
      /\ FirstInLoop(s)' => FirstInLoop(s)
      /\ FirstInQueue(s)' => FirstInQueue(s)
  BY DEF FirstInUp, FirstInLoop, FirstInQueue, MessageOf
<1>6. \A c : client'[s] = client[s] /\ Fresh(c, s) => Fresh(c, s)'
  BY DEF Fresh
<1>7. NewSound(s)'
  BY <1>2, <1>3 DEF SocketSound, NewSound
<1>8. RetriedSound(s)'
  BY <1>3, <1>4, <1>6 DEF SocketSound, RetriedSound
<1>9. WaitingSound(s)'
  <2> SUFFICES ASSUME client'[s].pc = "waiting" PROVE WaitingSound(s)'
    BY DEF WaitingSound
  <2>1. client'[s] = client[s] /\ WaitingSound(s) /\ client[s].pc = "waiting"
    BY DEF SocketSound
  <2>2. \A d, e \in up' : MessageOf(d, s, 1) /\ MessageOf(e, s, 1) => d = e
    BY <2>1 DEF WaitingSound, InOnePlace, MessageOf
  <2>3. \A a, b \in down' : CookieFor(a, s) /\ CookieFor(b, s) => a = b
    BY <2>1 DEF WaitingSound, InOnePlace
  <2>4. InOnePlace(s)'
    BY <1>3, <1>5, <2>1, <2>2, <2>3 DEF WaitingSound, InOnePlace
  <2> QED
    BY <1>4, <1>6, <2>1, <2>4 DEF WaitingSound
<1> QED
  BY <1>1, <1>7, <1>8, <1>9 DEF SocketSound

(* Nor does a step that moves what is there, if it stays in one place.     *)
LEMMA MovingKeeps ==
  ASSUME NEW s \in Socket, SocketSound(s), UNCHANGED bucket, client'[s] = client[s],
         \A a \in down' : CookieFor(a, s) => a \in down,
         \A d : OnWay(d)' => OnWay(d),
         InOnePlace(s) => InOnePlace(s)'
  PROVE  SocketSound(s)'
<1>1. Asked(s)' => Asked(s)
  BY DEF Asked
<1>2. \A c : Fresh(c, s) => Fresh(c, s)'
  BY DEF Fresh
<1> QED
  BY <1>1, <1>2 DEF SocketSound, NewSound, WaitingSound, RetriedSound

LEMMA ClosingKeepsHeld ==
  ASSUME TypeOK, NEW r \in Registration, queue' = [queue EXCEPT ![r] = Close(@)]
  PROVE  \A t \in Registration : Held(t)' = Held(t)
<1>1. queue[r] \in QueueOf(Datagram) /\ RingOK(queue[r])
  BY DEF TypeOK
<1>2. Contents(queue'[r]) = Contents(queue[r])
  BY <1>1, CloseKeeps DEF TypeOK
<1>3. \A t \in Registration : t # r => queue'[t] = queue[t]
  BY DEF TypeOK
<1> QED
  BY <1>2, <1>3 DEF Held

(* A datagram goes from the network to the loop, or to a peer.             *)
LEMMA TakingKeeps ==
  ASSUME NEW s \in Socket, SocketSound(s), TypeOK, NEW d \in up, RxTake(d), UNCHANGED copies
  PROVE  SocketSound(s)'
<1>1. /\ UNCHANGED <<queue, client, down, bucket>>
      /\ ~InLoop /\ up' = up \ {d}
      /\ UNCHANGED rx \/ (InLoop' /\ rx'.frame = d)
  <2>1. /\ UNCHANGED <<queue, client, down, bucket>>
        /\ rx.pc = "idle"
        /\ Arrives(d, up)
        /\ UNCHANGED rx \/ rx' = [Idle EXCEPT !.pc = "unrouted", !.frame = d]
    BY DEF RxTake
  <2>2. up' = up \ {d}
    BY <2>1, RegistrarAssumption DEF Arrives, TypeOK
  <2> QED
    BY <2>1, <2>2 DEF InLoop, Idle
<1>2. \A r \in Registration : Held(r)' = Held(r)
  BY <1>1 DEF Held
<1>3. CASE UNCHANGED rx
  BY <1>1, <1>2, <1>3, NothingNewKeeps DEF InLoop
<1>4. CASE InLoop' /\ rx'.frame = d
  <2>1. \A e : OnWay(e)' => OnWay(e)
    BY <1>1, <1>2, <1>4 DEF OnWay
  <2>2. /\ FirstInQueue(s)' <=> FirstInQueue(s)
        /\ Asked(s)' <=> Asked(s)
        /\ FirstInLoop(s)' => MessageOf(d, s, 1) /\ FirstInUp(s)
        /\ FirstInUp(s)' => FirstInUp(s)
    BY <1>1, <1>2, <1>4 DEF FirstInQueue, Asked, FirstInLoop, FirstInUp, MessageOf
  <2>3. ASSUME InOnePlace(s) PROVE InOnePlace(s)'
    <3>1. MessageOf(d, s, 1) => ~FirstInUp(s)'
      BY <1>1, <2>3 DEF InOnePlace, FirstInUp, MessageOf
    <3>2. /\ \A x, e \in up' : MessageOf(x, s, 1)' /\ MessageOf(e, s, 1)' => x = e
          /\ \A a, b \in down' : CookieFor(a, s)' /\ CookieFor(b, s)' => a = b
      BY <1>1, <2>3 DEF InOnePlace, MessageOf, CookieFor
    <3>3. \A r, q \in Registration : \A i \in 1 .. Len(Held(r))', j \in 1 .. Len(Held(q))' :
            MessageOf(Held(r)[i], s, 1)' /\ MessageOf(Held(q)[j], s, 1)' => r = q /\ i = j
      BY <1>2, <2>3 DEF InOnePlace, MessageOf
    <3> QED
      BY <2>2, <2>3, <3>1, <3>2, <3>3 DEF InOnePlace
  <2> QED
    BY <1>1, <2>1, <2>3, MovingKeeps
<1> QED
  BY <1>1, <1>3, <1>4

(* The loop puts its datagram at the end of a queue, or drops it.          *)
LEMMA EnqueueingKeeps ==
  ASSUME NEW s \in Socket, SocketSound(s), RegistrarInv, EnqueuePacket
  PROVE  SocketSound(s)'
<1>1. /\ UNCHANGED <<client, up, down, bucket>>
      /\ InLoop /\ ~InLoop'
      /\ rx.to \in Registration /\ rx.frame \in Datagram
  BY DEF EnqueuePacket, InLoop, Idle, networkVars, RegistrarInv, CreatedIsStarted
<1>2. /\ queue \in [Registration -> QueueOf(Datagram)] /\ None \notin Datagram
      /\ \A t \in Registration : RingOK(queue[t])
  BY RegistrarAssumption DEF RegistrarInv, TypeOK
<1>k. PICK k \in Registration : k = rx.to
  BY <1>1
<1>3. /\ queue'[k] = Enqueue(queue[k], rx.frame)
      /\ \A t \in Registration : t # k => Held(t)' = Held(t)
  BY <1>1, <1>2, <1>k DEF EnqueuePacket, Held
<1>4. \/ Held(k)' = Held(k)
      \/ Held(k)' = Append(Held(k), rx.frame)
  BY <1>1, <1>2, <1>3, EnqueueAppends DEF Held
<1>5. \A t \in Registration : Held(t) \in Seq(Datagram \cup {None})
  BY <1>2, ContentsIsASeq DEF Held
<1>6. CASE Held(k)' = Held(k)
  BY <1>1, <1>3, <1>6, NothingNewKeeps
<1>7. CASE Held(k)' = Append(Held(k), rx.frame)
  <2> DEFINE n == Len(Held(k)) + 1
  <2>1. /\ Len(Held(k))' = n /\ n \in Nat
        /\ \A i \in 1 .. n : Held(k)'[i] = IF i = n THEN rx.frame ELSE Held(k)[i]
    BY <1>1, <1>5, <1>7
  <2>2. \A t \in Registration : \A i \in 1 .. Len(Held(t))' :
          \/ i \in 1 .. Len(Held(t)) /\ Held(t)'[i] = Held(t)[i]
          \/ t = k /\ i = n /\ Held(t)'[i] = rx.frame
    BY <1>3, <2>1
  <2> HIDE DEF n
  <2>3. \A e : OnWay(e)' => OnWay(e)
    BY <1>1, <2>2 DEF OnWay
  <2>4. /\ FirstInUp(s)' <=> FirstInUp(s)
        /\ Asked(s)' <=> Asked(s)
        /\ ~FirstInLoop(s)'
        /\ MessageOf(rx.frame, s, 1) => FirstInLoop(s)
        /\ FirstInQueue(s)' => FirstInQueue(s) \/ FirstInLoop(s)
    BY <1>1, <2>2 DEF FirstInUp, Asked, FirstInLoop, FirstInQueue, MessageOf
  <2>5. ASSUME InOnePlace(s) PROVE InOnePlace(s)'
    <3>1. /\ \A x, e \in up' : MessageOf(x, s, 1)' /\ MessageOf(e, s, 1)' => x = e
          /\ \A a, b \in down' : CookieFor(a, s)' /\ CookieFor(b, s)' => a = b
      BY <1>1, <2>5 DEF InOnePlace, MessageOf, CookieFor
    <3>2. \A r \in Registration : \A i \in 1 .. Len(Held(r)) :
            MessageOf(Held(r)[i], s, 1) => FirstInQueue(s)
      BY DEF FirstInQueue
    <3>3. \A r, q \in Registration : \A i \in 1 .. Len(Held(r))', j \in 1 .. Len(Held(q))' :
            MessageOf(Held(r)[i], s, 1)' /\ MessageOf(Held(q)[j], s, 1)' => r = q /\ i = j
      <4> SUFFICES ASSUME NEW r \in Registration, NEW q \in Registration,
                          NEW i \in 1 .. Len(Held(r))', NEW j \in 1 .. Len(Held(q))',
                          MessageOf(Held(r)'[i], s, 1), MessageOf(Held(q)'[j], s, 1)
                   PROVE  r = q /\ i = j
        BY DEF MessageOf
      <4>1. CASE MessageOf(rx.frame, s, 1)
        BY <2>2, <2>4, <2>5, <3>2, <4>1 DEF InOnePlace
      <4>2. CASE ~MessageOf(rx.frame, s, 1)
        BY <2>2, <2>5, <4>2 DEF InOnePlace
      <4> QED
        BY <4>1, <4>2
    <3> QED
      BY <2>4, <2>5, <3>1, <3>3 DEF InOnePlace
  <2> QED
    BY <1>1, <2>3, <2>5, MovingKeeps
<1> QED
  BY <1>4, <1>6, <1>7

(* A goroutine takes the oldest datagram of its queue.                     *)
LEMMA OldestWas ==
  ASSUME TypeOK, NEW r \in Registration, ReadMessage(r)
  PROVE  /\ Oldest(queue[r]) \in Datagram /\ OnWay(Oldest(queue[r]))
         /\ Len(Held(r)) >= 1 /\ Held(r)[1] = Oldest(queue[r])
         /\ \A t \in Registration : \A i \in 1 .. Len(Held(t))' :
              IF t = r THEN i + 1 \in 1 .. Len(Held(t)) /\ Held(t)'[i] = Held(t)[i + 1]
              ELSE i \in 1 .. Len(Held(t)) /\ Held(t)'[i] = Held(t)[i]
<1>1. /\ queue \in [Registration -> QueueOf(Datagram)] /\ None \notin Datagram
      /\ RingOK(queue[r]) /\ Readable(queue[r])
      /\ queue' = [queue EXCEPT ![r] = Dequeue(queue[r])]
  BY RegistrarAssumption DEF TypeOK, ReadMessage
<1>2. /\ Oldest(queue[r]) \in Datagram
      /\ Held(r) # <<>> /\ Contents(Dequeue(queue[r])) = Tail(Held(r))
  BY <1>1, DequeueTakesOldest DEF Held
<1>3. /\ Held(r) \in Seq(Datagram \cup {None}) /\ Len(Held(r)) = queue[r].count
      /\ \A i \in 1 .. queue[r].count :
           Held(r)[i] = queue[r].queue[(queue[r].head + i - 1) % QueueCapacity]
  BY <1>1, ContentsIsASeq DEF Held
<1>4. Held(r)[1] = Oldest(queue[r]) /\ Len(Held(r)) >= 1
  <2>1. queue[r].head \in Slot /\ queue[r].count \in Nat /\ QueueCapacity \in Nat \ {0}
    BY <1>1, QueueAssumption DEF QueueOf
  <2>2. queue[r].count >= 1
    BY <1>2, <1>3, <2>1
  <2>3. (queue[r].head + 1 - 1) % QueueCapacity = queue[r].head
    BY <2>1, Wraps DEF Slot
  <2> QED
    BY <1>3, <2>1, <2>2, <2>3 DEF Oldest
<1>5. OnWay(Oldest(queue[r]))
  BY <1>3, <1>4 DEF OnWay
<1>6. /\ Held(r)' = Tail(Held(r))
      /\ \A t \in Registration : t # r => Held(t)' = Held(t)
  BY <1>1, <1>2 DEF Held
<1>7. /\ Len(Tail(Held(r))) = Len(Held(r)) - 1
      /\ \A i \in 1 .. (Len(Held(r)) - 1) : Tail(Held(r))[i] = Held(r)[i + 1]
  BY <1>2, <1>3, HeadTailProperties
<1>8. \A i \in 1 .. Len(Held(r))' : i + 1 \in 1 .. Len(Held(r)) /\ Held(r)'[i] = Held(r)[i + 1]
  BY <1>3, <1>4, <1>6, <1>7
<1> QED
  BY <1>2, <1>4, <1>5, <1>6, <1>8

(* What a read does to the datagrams of a socket. *)
LEMMA ReadingMoves ==
  ASSUME NEW s \in Socket, TypeOK, NEW r \in Registration, ReadMessage(r)
  PROVE  /\ UNCHANGED <<client, up, bucket, rx>>
         /\ \A d : OnWay(d)' => OnWay(d)
         /\ FirstInUp(s)' => FirstInUp(s)
         /\ FirstInLoop(s)' => FirstInLoop(s)
         /\ FirstInQueue(s)' => FirstInQueue(s)
         /\ MessageOf(Oldest(queue[r]), s, 1) => FirstInQueue(s)
         /\ InOnePlace(s) /\ MessageOf(Oldest(queue[r]), s, 1) => ~FirstInQueue(s)'
         /\ InOnePlace(s) =>
              /\ \A d, e \in up' : MessageOf(d, s, 1)' /\ MessageOf(e, s, 1)' => d = e
              /\ \A p, q \in Registration : \A i \in 1 .. Len(Held(p))', j \in 1 .. Len(Held(q))' :
                   MessageOf(Held(p)[i], s, 1)' /\ MessageOf(Held(q)[j], s, 1)' => p = q /\ i = j
<1> DEFINE o == Oldest(queue[r])
<1>1. UNCHANGED <<client, up, bucket, rx>>
  BY DEF ReadMessage
<1>2. /\ Len(Held(r)) >= 1 /\ Held(r)[1] = o
      /\ \A t \in Registration : \A i \in 1 .. Len(Held(t))' :
           IF t = r THEN i + 1 \in 1 .. Len(Held(t)) /\ Held(t)'[i] = Held(t)[i + 1]
           ELSE i \in 1 .. Len(Held(t)) /\ Held(t)'[i] = Held(t)[i]
  BY OldestWas
<1>l. \A t \in Registration : Len(Held(t)) \in Nat
  <2> TAKE t \in Registration
  <2>1. queue[t] \in QueueOf(Datagram)
    BY DEF TypeOK
  <2> QED
    BY <2>1, ContentsIsASeq DEF Held
<1> HIDE DEF o
<1>3. \A d : OnWay(d)' => OnWay(d)
  BY <1>1, <1>2 DEF OnWay, InLoop
<1>4. /\ FirstInUp(s)' => FirstInUp(s)
      /\ FirstInLoop(s)' => FirstInLoop(s)
  BY <1>1 DEF FirstInUp, FirstInLoop, InLoop, MessageOf
<1>5. FirstInQueue(s)' => FirstInQueue(s)
  BY <1>2 DEF FirstInQueue, MessageOf
<1>6. 1 \in 1 .. Len(Held(r))
  BY <1>2, <1>l
<1>7. MessageOf(o, s, 1) => FirstInQueue(s)
  BY <1>2, <1>6 DEF FirstInQueue
<1>8. InOnePlace(s) /\ MessageOf(o, s, 1) => ~FirstInQueue(s)'
  <2> SUFFICES ASSUME InOnePlace(s), MessageOf(o, s, 1),
                      NEW t \in Registration, NEW i \in 1 .. Len(Held(t))', MessageOf(Held(t)'[i], s, 1)
               PROVE  FALSE
    BY DEF FirstInQueue, MessageOf
  <2>1. CASE t = r
    <3>1. i + 1 \in 1 .. Len(Held(r)) /\ MessageOf(Held(r)[i + 1], s, 1) /\ i + 1 # 1
      BY <1>2, <1>l, <2>1 DEF MessageOf
    <3> QED
      BY <1>2, <1>6, <3>1 DEF InOnePlace
  <2>2. CASE t # r
    BY <1>2, <1>6, <2>2 DEF InOnePlace, MessageOf
  <2> QED
    BY <2>1, <2>2
<1>9. ASSUME InOnePlace(s)
      PROVE  /\ \A d, e \in up' : MessageOf(d, s, 1)' /\ MessageOf(e, s, 1)' => d = e
             /\ \A p, q \in Registration : \A i \in 1 .. Len(Held(p))', j \in 1 .. Len(Held(q))' :
                  MessageOf(Held(p)[i], s, 1)' /\ MessageOf(Held(q)[j], s, 1)' => p = q /\ i = j
  <2>1. \A d, e \in up' : MessageOf(d, s, 1)' /\ MessageOf(e, s, 1)' => d = e
    BY <1>1, <1>9 DEF InOnePlace, MessageOf
  <2>2. ASSUME NEW p \in Registration, NEW q \in Registration,
               NEW i \in 1 .. Len(Held(p))', NEW j \in 1 .. Len(Held(q))',
               MessageOf(Held(p)'[i], s, 1), MessageOf(Held(q)'[j], s, 1)
        PROVE  p = q /\ i = j
    <3> DEFINE a == IF p = r THEN i + 1 ELSE i
               b == IF q = r THEN j + 1 ELSE j
    <3>1. a \in 1 .. Len(Held(p)) /\ MessageOf(Held(p)[a], s, 1)
      BY <1>2, <2>2
    <3>2. b \in 1 .. Len(Held(q)) /\ MessageOf(Held(q)[b], s, 1)
      BY <1>2, <2>2
    <3> HIDE DEF a, b
    <3>3. p = q /\ a = b
      BY <1>9, <3>1, <3>2 DEF InOnePlace
    <3>4. i \in Int /\ j \in Int
      OBVIOUS
    <3> QED
      BY <3>3, <3>4 DEF a, b
  <2> QED
    BY <2>1, <2>2 DEF MessageOf
<1> QED
  BY <1>1, <1>3, <1>4, <1>5, <1>7, <1>8, <1>9 DEF o

(* A goroutine reads: the cookie it asks for goes to the socket whose      *)
(* first message it has taken.                                             *)
LEMMA ReadingKeeps ==
  ASSUME NEW s \in Socket, SocketSound(s), TypeOK, NEW r \in Registration, ReadMessage(r)
  PROVE  SocketSound(s)'
<1> DEFINE o == Oldest(queue[r])
           reply == [kind |-> "cookie", to |-> o.from, attempt |-> o.attempt, cookie |-> bucket]
<1>1. o \in Datagram /\ OnWay(o)
  BY OldestWas
<1>2. /\ UNCHANGED <<client, up, bucket, rx>>
      /\ \A d : OnWay(d)' => OnWay(d)
      /\ FirstInUp(s)' => FirstInUp(s)
      /\ FirstInLoop(s)' => FirstInLoop(s)
      /\ FirstInQueue(s)' => FirstInQueue(s)
      /\ MessageOf(o, s, 1) => FirstInQueue(s)
      /\ InOnePlace(s) /\ MessageOf(o, s, 1) => ~FirstInQueue(s)'
      /\ InOnePlace(s) =>
           /\ \A d, e \in up' : MessageOf(d, s, 1)' /\ MessageOf(e, s, 1)' => d = e
           /\ \A p, q \in Registration : \A i \in 1 .. Len(Held(p))', j \in 1 .. Len(Held(q))' :
                MessageOf(Held(p)[i], s, 1)' /\ MessageOf(Held(q)[j], s, 1)' => p = q /\ i = j
  BY ReadingMoves
<1>3. \/ o.kind = "msg1" /\ AskForCookie(r, o)
      \/ \A a \in down' : a.kind = "cookie" => a \in down
  BY DEF ReadMessage, Answer, HandshakeFails
<1> HIDE DEF o
<1>4. CASE \A a \in down' : CookieFor(a, s) => a \in down
  <2>1. InOnePlace(s) => InOnePlace(s)'
    <3>1. Asked(s)' => Asked(s)
      BY <1>4 DEF Asked, CookieFor
    <3>2. InOnePlace(s) => \A a, b \in down' : CookieFor(a, s)' /\ CookieFor(b, s)' => a = b
      BY <1>4 DEF InOnePlace, CookieFor
    <3> QED
      BY <1>2, <3>1, <3>2 DEF InOnePlace
  <2> QED
    BY <1>2, <1>4, <2>1, MovingKeeps
<1>5. CASE o.kind = "msg1" /\ AskForCookie(r, o) /\ o.from = s
  <2>1. down' = down \cup {reply} /\ ~ValidCookie(o.cookie) /\ o.attempt \in {1, 2}
    BY <1>1, <1>5 DEF AskForCookie, Datagram, Msg1, Data, Attempt
  <2>2. client[s].pc # "new"
    BY <1>1, <1>5 DEF SocketSound, NewSound
  <2>3. client[s].pc # "retried"
    <3> SUFFICES ASSUME client[s].pc = "retried" PROVE FALSE
      OBVIOUS
    <3>1. RetriedSound(s)
      BY DEF SocketSound
    <3>2. o.attempt = 2
      BY <1>1, <1>5, <2>1, <3>1 DEF RetriedSound, MessageOf
    <3>3. o.cookie = client[s].cookie /\ Fresh(o.cookie, s)
      BY <1>1, <1>5, <3>1, <3>2 DEF RetriedSound, MessageOf
    <3> QED
      BY <2>1, <3>3 DEF Fresh, ValidCookie
  <2>4. CASE client[s].pc = "waiting"
    <3>1. WaitingSound(s) /\ InOnePlace(s) /\ MessageOf(o, s, 1) /\ (\A d : OnWay(d) => ~MessageOf(d, s, 2))
      BY <1>1, <1>5, <2>1, <2>4 DEF SocketSound, WaitingSound, MessageOf
    <3>2. ~FirstInUp(s)' /\ ~FirstInLoop(s)' /\ ~FirstInQueue(s)' /\ ~Asked(s)
      BY <1>2, <3>1 DEF InOnePlace
    <3>3. \A a \in down' : CookieFor(a, s) => a = reply
      BY <2>1, <3>2 DEF Asked
    <3>4. InOnePlace(s)'
      BY <1>2, <3>1, <3>2, <3>3 DEF InOnePlace, CookieFor
    <3>5. \A a \in down' : CookieFor(a, s)' => Fresh(a.cookie, s)'
      BY <1>2, <3>3 DEF Fresh, CookieFor
    <3>6. \A d : OnWay(d)' => ~MessageOf(d, s, 2)'
      BY <1>2, <3>1 DEF MessageOf
    <3>7. WaitingSound(s)'
      BY <3>4, <3>5, <3>6 DEF WaitingSound
    <3> QED
      BY <1>2, <2>4, <3>7 DEF SocketSound, NewSound, RetriedSound
  <2> QED
    BY <1>2, <2>2, <2>3, <2>4 DEF SocketSound, NewSound, WaitingSound, RetriedSound
<1>6. CASE o.kind = "msg1" /\ AskForCookie(r, o) /\ o.from # s
  <2>1. \A a \in down' : CookieFor(a, s) => a \in down
    BY <1>6 DEF AskForCookie, CookieFor
  <2> QED
    BY <1>4, <2>1
<1> QED
  BY <1>3, <1>4, <1>5, <1>6 DEF CookieFor

(* The first message of an attempt, and the second with its cookie.        *)
LEMMA ConnectingKeeps ==
  ASSUME NEW s \in Socket, SocketSound(s), TypeOK, NEW t \in Socket, Connect(t)
  PROVE  SocketSound(s)'
<1>1. /\ UNCHANGED <<queue, rx, down, bucket>>
      /\ client[t].pc = "new" /\ client' = [client EXCEPT ![t].pc = "waiting"]
      /\ up' = up \cup {Msg1Of(t, 1, None)}
  BY DEF Connect, serverVars
<1>2. \A r \in Registration : Held(r)' = Held(r)
  BY <1>1 DEF Held
<1>3. CASE t # s
  <2>1. client'[s] = client[s]
    BY <1>1, <1>3 DEF TypeOK
  <2>2. \A d \in up' \ up : d.from # s
    BY <1>1, <1>3 DEF Msg1Of
  <2> QED
    BY <1>1, <1>2, <2>1, <2>2, NothingNewKeeps DEF InLoop
<1>4. CASE t = s
  <2>1. client'[s].pc = "waiting"
    BY <1>1, <1>4 DEF TypeOK, Handshake
  <2>2. ~Asked(s) /\ \A d : OnWay(d) => d.from # s
    BY <1>1, <1>4 DEF SocketSound, NewSound
  <2>3. ~Asked(s)' /\ \A d : OnWay(d)' /\ d.from = s => d = Msg1Of(s, 1, None)
    BY <1>1, <1>2, <1>4, <2>2 DEF OnWay, InLoop, Asked
  <2>4. ~FirstInLoop(s)' /\ ~FirstInQueue(s)'
    BY <1>1, <1>2, <2>2 DEF FirstInLoop, FirstInQueue, InLoop, OnWay, MessageOf
  <2>5. \A d, e \in up' : MessageOf(d, s, 1)' /\ MessageOf(e, s, 1)' => d = e
    BY <2>3 DEF OnWay, MessageOf
  <2>6. \A r, q \in Registration : \A i \in 1 .. Len(Held(r))', j \in 1 .. Len(Held(q))' :
          MessageOf(Held(r)[i], s, 1)' /\ MessageOf(Held(q)[j], s, 1)' => r = q /\ i = j
    BY <2>4 DEF FirstInQueue
  <2>7. InOnePlace(s)'
    BY <2>3, <2>4, <2>5, <2>6 DEF InOnePlace, Asked
  <2>8. WaitingSound(s)'
    BY <2>3, <2>7 DEF WaitingSound, MessageOf, Msg1Of, Asked
  <2> QED
    BY <2>1, <2>8 DEF SocketSound, NewSound, RetriedSound
<1> QED
  BY <1>3, <1>4

LEMMA RetryingKeeps ==
  ASSUME NEW s \in Socket, SocketSound(s), TypeOK, NEW a \in down, a.to = s,
         Retry(s, a), down' = down \ {a}, UNCHANGED <<serverVars, bucket>>
  PROVE  SocketSound(s)'
<1>1. /\ UNCHANGED <<queue, rx, bucket>>
      /\ client[s].pc = "waiting" /\ CookieFor(a, s)
      /\ up' = up \cup {Msg1Of(s, 2, a.cookie)}
  BY DEF Retry, serverVars, CookieFor
<1>2. /\ client'[s].pc = "retried" /\ client'[s].cookie = a.cookie
      /\ client'[s].late = client[s].late
  BY DEF Retry, TypeOK, Handshake
<1>3. /\ InOnePlace(s) /\ (\A d : OnWay(d) => ~MessageOf(d, s, 2)) /\ Fresh(a.cookie, s)
      /\ Asked(s)
  BY <1>1 DEF SocketSound, WaitingSound, Asked
<1>4. \A d : OnWay(d) => ~MessageOf(d, s, 1)
  BY <1>3, OnWayAre DEF InOnePlace
<1>5. \A d : OnWay(d)' => OnWay(d) \/ d = Msg1Of(s, 2, a.cookie)
  BY <1>1 DEF OnWay, InLoop, Held
<1>6. ~Asked(s)'
  BY <1>1, <1>3 DEF Asked, InOnePlace, CookieFor
<1>7. Fresh(client[s].cookie, s)'
  BY <1>1, <1>2, <1>3 DEF Fresh
<1>8. /\ \A d : OnWay(d)' => ~MessageOf(d, s, 1)'
      /\ \A d : OnWay(d)' /\ MessageOf(d, s, 2)' => d.cookie = client'[s].cookie
  BY <1>2, <1>3, <1>4, <1>5 DEF MessageOf, Msg1Of
<1>9. RetriedSound(s)'
  BY <1>6, <1>7, <1>8 DEF RetriedSound
<1> QED
  BY <1>2, <1>9 DEF SocketSound, NewSound, WaitingSound

(* No cookie is on the way to a client that has answered one.              *)
LEMMA RepliesKeep ==
  ASSUME NEW s \in Socket, \A t \in Socket : SocketSound(t), TypeOK, NEW a \in down,
         ReceiveReply(a), UNCHANGED copies
  PROVE  SocketSound(s)'
<1>1. /\ UNCHANGED <<queue, rx, bucket>> /\ UNCHANGED serverVars
      /\ down' = down \ {a}
      /\ Retry(a.to, a) \/ Refused(a.to, a) \/ Complete(a.to, a)
  <2>1. copies \in Nat
    BY RegistrarAssumption DEF TypeOK
  <2> QED
    BY <2>1 DEF ReceiveReply, serverVars, Arrives
<1>2. a.to \in Socket
  BY DEF TypeOK, Reply
<1>3. ~Refused(a.to, a)
  <2> SUFFICES ASSUME Refused(a.to, a) PROVE FALSE
    OBVIOUS
  <2>1. client[a.to].pc = "retried" /\ CookieFor(a, a.to)
    BY DEF Refused, CookieFor
  <2> QED
    BY <1>2, <2>1 DEF SocketSound, RetriedSound, Asked
<1>4. \A r \in Registration : Held(r)' = Held(r)
  BY <1>1 DEF Held
<1>5. CASE Retry(a.to, a) /\ a.to = s
  BY <1>1, <1>5, RetryingKeeps
<1>6. CASE Retry(a.to, a) /\ a.to # s
  <2>1. client'[s] = client[s] /\ \A d \in up' \ up : d.from # s
    BY <1>2, <1>6 DEF Retry, TypeOK, Msg1Of
  <2> QED
    BY <1>1, <1>4, <2>1, NothingNewKeeps DEF InLoop
<1>7. CASE Complete(a.to, a)
  <2>1. client'[s] = client[s] \/ client'[s].pc \in {"connected", "failed"}
    BY <1>2, <1>7 DEF Complete, TypeOK, Handshake
  <2>2. UNCHANGED up
    BY <1>7 DEF Complete
  <2> QED
    BY <1>1, <1>4, <2>1, <2>2, NothingNewKeeps DEF InLoop
<1> QED
  BY <1>1, <1>3, <1>5, <1>6, <1>7

(* An attempt sees one new bucket, so its cookie is of this or the last.   *)
LEMMA TickKeeps ==
  ASSUME NEW s \in Socket, SocketSound(s), TypeOK, Tick
  PROVE  SocketSound(s)'
<1>1. /\ UNCHANGED <<queue, rx, up, down>>
      /\ bucket' = bucket + 1 /\ bucket \in Nat
      /\ Busy(s) => ~client[s].late
      /\ client'[s] = [client[s] EXCEPT !.late = Busy(s)] /\ client[s] \in Handshake
  BY RegistrarAssumption DEF Tick, serverVars, networkVars, TypeOK, Bucket
<1>2. client'[s].pc = client[s].pc /\ client'[s].cookie = client[s].cookie /\ client'[s].late = Busy(s)
  BY <1>1 DEF Handshake
<1>3. \A c : Busy(s) /\ Fresh(c, s) => Fresh(c, s)'
  BY <1>1, <1>2 DEF Fresh
<1>4. /\ \A d : OnWay(d)' <=> OnWay(d)
      /\ Asked(s)' <=> Asked(s)
      /\ InOnePlace(s)' <=> InOnePlace(s)
  BY <1>1 DEF OnWay, InLoop, Held, Asked, InOnePlace, FirstInUp, FirstInLoop, FirstInQueue,
              MessageOf, CookieFor
<1>5. NewSound(s)' /\ RetriedSound(s)'
  BY <1>1, <1>2, <1>3, <1>4 DEF SocketSound, NewSound, RetriedSound, Busy, MessageOf
<1>6. WaitingSound(s)'
  BY <1>1, <1>2, <1>3, <1>4 DEF SocketSound, WaitingSound, Busy, MessageOf, CookieFor
<1> QED
  BY <1>2, <1>5, <1>6 DEF SocketSound

LEMMA CookieStep == RegistrarInv /\ CookieInv /\ [Next]_vars => CookieInv'
<1> SUFFICES ASSUME RegistrarInv, CookieInv, [Next]_vars, copies' = MaxCopies, NEW s \in Socket
             PROVE  SocketSound(s)'
  BY DEF CookieInv
<1>t. TypeOK
  BY DEF RegistrarInv
<1>c. copies = MaxCopies /\ UNCHANGED copies
  <2>1. copies \in 0 .. MaxCopies /\ MaxCopies \in Nat
    BY <1>t, RegistrarAssumption DEF TypeOK
  <2>2. UNCHANGED copies \/ copies' = copies - 1
    BY DEF Next, vars, serverVars, networkVars, RxTake, GetOrCreateQueue, EnqueuePacket, Shutdown,
           CloseAll, CloseTaken, ReadMessage, ReadEnd, Register, Remove, ContextDone, Connect,
           GiveUp, SendData, ReceiveReply, Arrives, Tick
  <2> QED
    BY <2>1, <2>2
<1>s. \A t \in Socket : SocketSound(t)
  BY <1>c DEF CookieInv
<1>1. CASE \E d \in up : RxTake(d)
  BY <1>1, <1>c, <1>s, <1>t, TakingKeeps
<1>2. CASE EnqueuePacket
  BY <1>2, <1>s, EnqueueingKeeps
<1>3. CASE \E r \in Registration : ReadMessage(r)
  BY <1>3, <1>s, <1>t, ReadingKeeps
<1>4. CASE \E t \in Socket : Connect(t)
  BY <1>4, <1>s, <1>t, ConnectingKeeps
<1>5. CASE \E a \in down : ReceiveReply(a)
  BY <1>5, <1>c, <1>s, <1>t, RepliesKeep
<1>6. CASE Tick
  BY <1>6, <1>s, <1>t, TickKeeps
<1>7. CASE UNCHANGED <<bucket, client, up, down>> /\ (InLoop' => InLoop /\ rx'.frame = rx.frame)
           /\ \A r \in Registration : Held(r)' = Held(r)
  BY <1>7, <1>s, NothingNewKeeps
<1>8. CASE GetOrCreateQueue
  <2>1. rx.pc = "unrouted" /\ UNCHANGED <<queue, bucket, client, up, down>> /\ rx \in Loop
    BY <1>8, <1>t DEF GetOrCreateQueue, networkVars, TypeOK
  <2>2. InLoop' => rx'.frame = rx.frame
    <3>1. \/ \E r : rx' = [rx EXCEPT !.pc = "queued", !.to = r]
          \/ \E r : rx' = [rx EXCEPT !.pc = "queued", !.to = r, !.isNew = TRUE]
          \/ rx' = Idle
      BY <1>8 DEF GetOrCreateQueue, FindQueue, DropAtCapacity, CreateQueue
    <3> QED
      <4>1. \A r : [rx EXCEPT !.pc = "queued", !.to = r].frame = rx.frame
        BY <2>1 DEF Loop
      <4>2. \A r : [rx EXCEPT !.pc = "queued", !.to = r, !.isNew = TRUE].frame = rx.frame
        BY <2>1 DEF Loop
      <4>3. Idle.pc = "idle"
        BY DEF Idle
      <4> QED
        BY <3>1, <4>1, <4>2, <4>3 DEF InLoop
  <2> QED
    BY <1>7, <2>1, <2>2 DEF InLoop, Held
<1>9. CASE Shutdown \/ CloseAll \/ \E r \in Registration : ReadEnd(r) \/ Register(r)
  <2>1. UNCHANGED <<queue, bucket, client, up, down>> /\ (UNCHANGED rx \/ rx' = [rx EXCEPT !.pc = "closing"])
    BY <1>9 DEF Shutdown, CloseAll, ReadEnd, HandshakeFails, Register, networkVars
  <2>2. InLoop' => InLoop /\ rx'.frame = rx.frame
    BY <1>t, <2>1 DEF InLoop, TypeOK, Loop
  <2> QED
    BY <1>7, <2>1, <2>2 DEF Held
<1>10. CASE CloseTaken
  <2>1. UNCHANGED <<bucket, client, up, down>> /\ (InLoop' => InLoop /\ rx'.frame = rx.frame)
    BY <1>10, <1>t DEF CloseTaken, networkVars, InLoop, TypeOK, Loop
  <2>2. taken \subseteq Registration
    BY <1>t DEF TypeOK
  <2>3. \A r \in Registration : Held(r)' = Held(r)
    <3>1. CASE UNCHANGED queue
      BY <3>1 DEF Held
    <3> QED
      BY <1>10, <1>t, <2>2, <3>1, ClosingKeepsHeld DEF CloseTaken
  <2> QED
    BY <1>7, <2>1, <2>3
<1>11. ASSUME NEW r \in Registration, Remove(r) \/ ContextDone(r) PROVE SocketSound(s)'
  <2>1. UNCHANGED <<bucket, client, up, down, rx>>
    BY <1>11 DEF Remove, ContextDone, networkVars
  <2>2. \/ UNCHANGED queue
        \/ \E t \in Registration : queue' = [queue EXCEPT ![t] = Close(@)]
    <3>1. CASE ContextDone(r)
      BY <3>1 DEF ContextDone
    <3>2. CASE Remove(r)
      <4>1. reg[r].from \in Socket
        BY <3>2 DEF Remove, RegistrarInv, LiveIsMapped, Live, Alive
      <4>2. registrations[reg[r].from] \in Registration \cup {None}
        BY <1>t, <4>1 DEF TypeOK
      <4> QED
        BY <3>2, <4>2 DEF Remove
    <3> QED
      BY <1>11, <3>1, <3>2
  <2>3. \A t \in Registration : Held(t)' = Held(t)
    BY <1>t, <2>2, ClosingKeepsHeld DEF Held
  <2> QED
    BY <1>7, <2>1, <2>3 DEF InLoop
<1>12. ASSUME NEW t \in Socket, GiveUp(t) \/ SendData(t) PROVE SocketSound(s)'
  <2>1. UNCHANGED <<bucket, queue, rx, down>> /\ \A r \in Registration : Held(r)' = Held(r)
    BY <1>12 DEF GiveUp, SendData, serverVars, networkVars, Held
  <2>2. client'[s] = client[s] \/ client'[s].pc \in {"connected", "failed"}
    BY <1>12, <1>t DEF GiveUp, SendData, TypeOK, Handshake
  <2>3. \A d \in up' \ up : d.from # s \/ (d.kind = "data" /\ client[s].pc # "new")
    BY <1>12 DEF GiveUp, SendData, networkVars
  <2> QED
    BY <1>s, <2>1, <2>2, <2>3, NothingNewKeeps DEF InLoop
<1>13. CASE UNCHANGED vars
  BY <1>7, <1>13 DEF vars, serverVars, networkVars, InLoop, Held
<1> QED
  BY <1>1, <1>2, <1>3, <1>4, <1>5, <1>6, <1>8, <1>9, <1>10, <1>11, <1>12, <1>13 DEF Next

(* A client that answers a cookie reply with the cookie is asked for one   *)
(* again only if the network has repeated a datagram: the cookie the       *)
(* server sealed is still valid when its answer is read.                   *)
THEOREM RefusedHolds == Spec => []RefusedOnlyAfterCopies
<1>1. Init => CookieInv
  <2> SUFFICES ASSUME Init, NEW s \in Socket PROVE SocketSound(s)
    BY DEF CookieInv
  <2>1. /\ client[s].pc = "new" /\ up = {} /\ down = {} /\ ~InLoop
        /\ \A r \in Registration : Held(r) = Contents(NewQueue)
    BY DEF Init, InLoop, Idle, Held
  <2>2. \A r \in Registration : 1 .. Len(Held(r)) = {}
    <3>1. Contents(NewQueue) = <<>>
      BY DEF Contents, NewQueue
    <3> QED
      BY <2>1, <3>1
  <2> QED
    BY <2>1, <2>2 DEF SocketSound, NewSound, WaitingSound, RetriedSound, Asked, OnWay
<1>2. RegistrarInv /\ CookieInv => RefusedOnlyAfterCopies
  <2>1. RegistrarInv => copies \in 0 .. MaxCopies /\ MaxCopies \in Nat
    BY RegistrarAssumption DEF RegistrarInv, TypeOK
  <2> QED
    BY <2>1 DEF CookieInv, SocketSound, RefusedOnlyAfterCopies
<1> QED
  BY <1>1, <1>2, CookieStep, RegistrarHolds, PTL DEF Spec
=============================================================================
