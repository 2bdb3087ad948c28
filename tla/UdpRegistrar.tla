---------------------------- MODULE UdpRegistrar ----------------------------
(***************************************************************************)
(* server/udp/registration.go with the loop that feeds it (server.go) and  *)
(* the handshake it runs (protocol/noise): how datagrams from an unknown   *)
(* socket become a session.                                                *)
(*                                                                         *)
(* Threads.  The receive loop looks the route up, finds or makes the queue *)
(* of the socket, and puts the datagram into it: three steps, each under a *)
(* lock of its own.  One goroutine per queue runs the handshake, a second  *)
(* one closes the queue when its context is done: after handshakeTimeout,  *)
(* or with the server, or when the registration returns.  A client tries   *)
(* again and again, with a new socket and new ephemeral keys each time.    *)
(*                                                                         *)
(* Abstractions.  A key is the pair of ephemerals it was made from: the    *)
(* client's by socket and attempt, the server's by registration, since a   *)
(* registration completes one handshake at most.  All sockets are of one   *)
(* client, which is allowed; replacing its session is one step here and    *)
(* several in ServerSessions.  The network loses and reorders datagrams,   *)
(* and delivers MaxCopies of them twice.  The load monitor may say         *)
(* anything at any time.                                                   *)
(***************************************************************************)
EXTENDS RegistrationQueue, FiniteSets

CONSTANTS
  Sockets,           \* bound: connection attempts of the client, a socket each
  MaxStarts,         \* bound: registrations the server starts
  MaxRegistrations,  \* maxConcurrentRegistrations
  MaxBucket,         \* bound: the last time bucket of cookies
  MaxCopies          \* bound: datagrams delivered twice

Socket == 1 .. Sockets             \* numbered in the order they are used
Registration == 1 .. MaxStarts     \* numbered in the order they start
Bucket == 0 .. MaxBucket
Attempt == 1 .. 2
Key == [from : Socket, attempt : Attempt, by : Registration]
Msg1 == [kind : {"msg1"}, from : Socket, attempt : Attempt, cookie : Bucket \cup {None}]
Data == [kind : {"data"}, from : Socket, key : Key]
Datagram == Msg1 \cup Data
Reply == [kind : {"cookie"}, to : Socket, attempt : Attempt, cookie : Bucket]
         \cup [kind : {"msg2"}, to : Socket, key : Key]

ASSUME RegistrarAssumption ==
  /\ {Sockets, MaxStarts, MaxRegistrations, MaxBucket, MaxCopies} \subseteq Nat
  /\ None \notin Registration /\ None \notin Datagram \cup Key \cup Bucket

VARIABLES
  registrations,  \* registrar.registrations: the registration of each socket, or None
  queue,          \* its registrationQueue
  reg,            \* its goroutine
  rx,             \* where the receive loop is with the datagram it took
  taken,          \* the queues closeAll has taken from the map and not closed
  open,           \* the listener is open; it is closed when the context ends
  bucket,         \* the time bucket of the cookie manager
  session,        \* the key of the client's session, or None
  added,          \* every key a session was added for
  client,         \* the handshake of each socket
  up, down,       \* the datagrams on their way to the server and to the client
  copies          \* how many more datagrams the network may repeat

serverVars == <<registrations, queue, reg, rx, taken, open, session, added>>
networkVars == <<up, down, copies>>
vars == <<serverVars, bucket, client, networkVars>>

Goroutine ==
  [pc : {"none", "created", "reading", "admitted", "returning", "ended"},
   from : Socket \cup {None}, attempt : 0 .. 1, key : Key \cup {None}]
Loop ==
  [pc : {"idle", "unrouted", "queued", "closing", "stopped"},
   frame : Datagram \cup {None}, to : Registration \cup {None}, isNew : BOOLEAN]
Idle == [pc |-> "idle", frame |-> None, to |-> None, isNew |-> FALSE]
Handshake ==
  [pc : {"new", "waiting", "retried", "connected", "refused", "failed"},
   cookie : Bucket \cup {None}, key : Key \cup {None}, late : BOOLEAN]

Init ==
  /\ registrations = [s \in Socket |-> None]
  /\ queue = [r \in Registration |-> NewQueue]
  /\ reg = [r \in Registration |->
              [pc |-> "none", from |-> None, attempt |-> 0, key |-> None]]
  /\ rx = Idle /\ taken = {} /\ open = TRUE
  /\ bucket = 0 /\ session = None /\ added = {}
  /\ client = [s \in Socket |-> [pc |-> "new", cookie |-> None, key |-> None, late |-> FALSE]]
  /\ up = {} /\ down = {} /\ copies = MaxCopies

Mapped == {s \in Socket : registrations[s] # None}
Alive(r) == reg[r].pc \notin {"none", "ended"}

(* A datagram arrives, for the last time or with a copy still to come.     *)
Arrives(d, net) ==
  \/ net' = net \ {d} /\ UNCHANGED copies
  \/ net' = net /\ copies > 0 /\ copies' = copies - 1

-----------------------------------------------------------------------------
(* The receive loop. *)

(* A frame of the client's session goes to its peer, any other to the      *)
(* registrar.  Bound: while there are registrations left to start.         *)
RxTake(d) ==
  /\ rx.pc = "idle" /\ open /\ d \in up
  /\ \E r \in Registration : reg[r].pc = "none"
  /\ Arrives(d, up)
  /\ IF d.kind = "data" /\ d.key = session THEN UNCHANGED rx
     ELSE rx' = [Idle EXCEPT !.pc = "unrouted", !.frame = d]
  /\ UNCHANGED <<registrations, queue, reg, taken, open, session, added, bucket, client, down>>

(* getOrCreateRegistrationQueue *)
FindQueue(s) ==
  /\ registrations[s] # None
  /\ rx' = [rx EXCEPT !.pc = "queued", !.to = registrations[s]]
  /\ UNCHANGED <<registrations, reg>>

(* Mutant: one registration too many. *)
AtCapacityLate == Cardinality(Mapped) > MaxRegistrations
AtCapacity == Cardinality(Mapped) >= MaxRegistrations

DropAtCapacity(s) ==
  /\ registrations[s] = None /\ AtCapacity
  /\ rx' = Idle
  /\ UNCHANGED <<registrations, reg>>

CreateQueue(s, r) ==
  /\ registrations[s] = None /\ ~AtCapacity
  /\ reg[r].pc = "none" /\ \A q \in 1 .. (r - 1) : reg[q].pc # "none"
  /\ registrations' = [registrations EXCEPT ![s] = r]
  /\ reg' = [reg EXCEPT ![r].pc = "created", ![r].from = s]
  /\ rx' = [rx EXCEPT !.pc = "queued", !.to = r, !.isNew = TRUE]

GetOrCreateQueue ==
  /\ rx.pc = "unrouted"
  /\ LET s == rx.frame.from IN
       FindQueue(s) \/ DropAtCapacity(s) \/ \E r \in Registration : CreateQueue(s, r)
  /\ UNCHANGED <<queue, taken, open, session, added, bucket, client, networkVars>>

(* The datagram goes into the queue, and a new registration is started.    *)
EnqueuePacket ==
  /\ rx.pc = "queued"
  /\ queue' = [queue EXCEPT ![rx.to] = Enqueue(@, rx.frame)]
  /\ reg' = IF rx.isNew THEN [reg EXCEPT ![rx.to].pc = "reading"] ELSE reg
  /\ rx' = Idle
  /\ UNCHANGED <<registrations, taken, open, session, added, bucket, client, networkVars>>

(* The context ends and the listener is closed; the loop finds out at its  *)
(* next read and closes what is registering.                               *)
Shutdown ==
  /\ open /\ open' = FALSE
  /\ UNCHANGED <<registrations, queue, reg, rx, taken, session, added, bucket, client, networkVars>>

(* Mutant: the map is replaced before its queues are noted. *)
CloseAllForgets ==
  /\ rx.pc = "idle" /\ ~open
  /\ registrations' = [s \in Socket |-> None]
  /\ rx' = [rx EXCEPT !.pc = "closing"]
  /\ UNCHANGED <<taken, queue, reg, open, session, added, bucket, client, networkVars>>

CloseAll ==
  /\ rx.pc = "idle" /\ ~open
  /\ taken' = {registrations[s] : s \in Mapped}
  /\ registrations' = [s \in Socket |-> None]
  /\ rx' = [rx EXCEPT !.pc = "closing"]
  /\ UNCHANGED <<queue, reg, open, session, added, bucket, client, networkVars>>

CloseTaken ==
  /\ rx.pc = "closing"
  /\ \/ \E r \in taken : /\ queue' = [queue EXCEPT ![r] = Close(@)]
                         /\ taken' = taken \ {r}
                         /\ UNCHANGED rx
     \/ taken = {} /\ rx' = [rx EXCEPT !.pc = "stopped"] /\ UNCHANGED <<queue, taken>>
  /\ UNCHANGED <<registrations, reg, open, session, added, bucket, client, networkVars>>

-----------------------------------------------------------------------------
(* The goroutine of a registration. *)

(* Mutant: only a cookie of this bucket. *)
ValidCookieNow(c) == c = bucket

(* VerifyMAC2ForClient: a cookie of this bucket or of the one before.      *)
ValidCookie(c) == c \in {bucket, bucket - 1}

(* A cookie reply, and one more attempt with the same queue.               *)
AskForCookie(r, d) ==
  /\ ~ValidCookie(d.cookie)
  /\ down' = down \cup {[kind |-> "cookie", to |-> d.from, attempt |-> d.attempt, cookie |-> bucket]}
  /\ reg' = [reg EXCEPT ![r] = IF @.attempt = 0 THEN [@ EXCEPT !.attempt = 1]
                               ELSE [@ EXCEPT !.pc = "returning"]]

(* The rest of the handshake: the answer is sent, the registration goes on. *)
Answer(r, d) ==
  LET key == [from |-> d.from, attempt |-> d.attempt, by |-> r] IN
  /\ down' = down \cup {[kind |-> "msg2", to |-> d.from, key |-> key]}
  /\ reg' = [reg EXCEPT ![r].pc = "admitted", ![r].key = key]

HandshakeFails(r) ==
  /\ reg' = [reg EXCEPT ![r].pc = "returning"]
  /\ UNCHANGED down

ReadMessage(r) ==
  /\ reg[r].pc = "reading" /\ Readable(queue[r])
  /\ queue' = [queue EXCEPT ![r] = Dequeue(@)]
  /\ LET d == Oldest(queue[r]) IN
       IF d.kind = "msg1" /\ open THEN AskForCookie(r, d) \/ Answer(r, d)
       ELSE HandshakeFails(r)
  /\ UNCHANGED <<registrations, rx, taken, open, session, added, bucket, client, up, copies>>

ReadEnd(r) ==
  /\ reg[r].pc = "reading" /\ AtEnd(queue[r])
  /\ HandshakeFails(r)
  /\ UNCHANGED <<registrations, queue, rx, taken, open, session, added, bucket, client, up, copies>>

(* Mutant: a registration whose deadline has passed adds no session. *)
RegisterInTime(r) ==
  /\ reg[r].pc = "admitted"
  /\ session' = IF queue[r].closed THEN session ELSE reg[r].key
  /\ added' = IF queue[r].closed THEN added ELSE added \cup {reg[r].key}
  /\ reg' = [reg EXCEPT ![r].pc = "returning"]
  /\ UNCHANGED <<registrations, queue, rx, taken, open, bucket, client, networkVars>>

(* The session of the client is replaced by the new one.                   *)
Register(r) ==
  /\ reg[r].pc = "admitted"
  /\ session' = reg[r].key
  /\ added' = added \cup {reg[r].key}
  /\ reg' = [reg EXCEPT ![r].pc = "returning"]
  /\ UNCHANGED <<registrations, queue, rx, taken, open, bucket, client, networkVars>>

(* removeRegistrationQueue: by the address, whichever queue is there.      *)
Remove(r) ==
  LET s == reg[r].from IN
  /\ reg[r].pc = "returning"
  /\ registrations' = [registrations EXCEPT ![s] = None]
  /\ queue' = IF registrations[s] = None THEN queue
              ELSE [queue EXCEPT ![registrations[s]] = Close(@)]
  /\ reg' = [reg EXCEPT ![r].pc = "ended"]
  /\ UNCHANGED <<rx, taken, open, session, added, bucket, client, networkVars>>

(* Mutant: the deadline is set after the handshake. *)
ContextDoneLate(r) ==
  /\ reg[r].pc \in {"admitted", "returning"} /\ ~queue[r].closed
  /\ queue' = [queue EXCEPT ![r] = Close(@)]
  /\ UNCHANGED <<registrations, reg, rx, taken, open, session, added, bucket, client, networkVars>>

(* The context of the registration is done: the deadline has passed, the   *)
(* server ends, or the registration is returning.                          *)
ContextDone(r) ==
  /\ reg[r].pc \in {"reading", "admitted", "returning"} /\ ~queue[r].closed
  /\ queue' = [queue EXCEPT ![r] = Close(@)]
  /\ UNCHANGED <<registrations, reg, rx, taken, open, session, added, bucket, client, networkVars>>

-----------------------------------------------------------------------------
(* The client. *)
Busy(s) == client[s].pc \in {"waiting", "retried"}

Msg1Of(s, n, c) == [kind |-> "msg1", from |-> s, attempt |-> n, cookie |-> c]

(* One attempt to connect at a time. *)
Connect(s) ==
  /\ client[s].pc = "new" /\ \A t \in 1 .. (s - 1) : client[t].pc \in {"refused", "failed"}
  /\ client' = [client EXCEPT ![s].pc = "waiting"]
  /\ up' = up \cup {Msg1Of(s, 1, None)}
  /\ UNCHANGED <<serverVars, bucket, down, copies>>

(* A cookie that opens under the ephemeral of this attempt: a new first    *)
(* message, with new keys.                                                 *)
Retry(s, a) ==
  /\ client[s].pc = "waiting" /\ a.kind = "cookie"
  /\ client' = [client EXCEPT ![s].pc = "retried", ![s].cookie = a.cookie]
  /\ up' = up \cup {Msg1Of(s, 2, a.cookie)}

Refused(s, a) ==
  /\ client[s].pc = "retried" /\ a.kind = "cookie"
  /\ client' = [client EXCEPT ![s].pc = "refused"]
  /\ UNCHANGED up

CurrentAttempt(s) == IF client[s].pc = "waiting" THEN 1 ELSE 2

Complete(s, a) ==
  /\ Busy(s) /\ a.kind = "msg2"
  /\ client' = IF a.key.attempt = CurrentAttempt(s)
               THEN [client EXCEPT ![s].pc = "connected", ![s].key = a.key]
               ELSE [client EXCEPT ![s].pc = "failed"]
  /\ UNCHANGED up

ReceiveReply(a) ==
  /\ a \in down
  /\ Arrives(a, down)
  /\ Retry(a.to, a) \/ Refused(a.to, a) \/ Complete(a.to, a)
  /\ UNCHANGED <<serverVars, bucket>>

(* The deadline of the attempt passes, or the client leaves the session.   *)
GiveUp(s) ==
  /\ Busy(s) \/ client[s].pc = "connected"
  /\ client' = [client EXCEPT ![s].pc = "failed"]
  /\ UNCHANGED <<serverVars, bucket, networkVars>>

SendData(s) ==
  /\ client[s].pc = "connected"
  /\ up' = up \cup {[kind |-> "data", from |-> s, key |-> client[s].key]}
  /\ UNCHANGED <<serverVars, bucket, client, down, copies>>

(* Time goes on.  The deadline of an attempt is shorter than a bucket, so  *)
(* an attempt sees one new bucket at most.                                 *)
Tick ==
  /\ bucket < MaxBucket
  /\ \A s \in Socket : Busy(s) => ~client[s].late
  /\ bucket' = bucket + 1
  /\ client' = [s \in Socket |-> [client[s] EXCEPT !.late = Busy(s)]]
  /\ UNCHANGED <<serverVars, networkVars>>

-----------------------------------------------------------------------------
LoopSteps == GetOrCreateQueue \/ EnqueuePacket \/ CloseAll \/ CloseTaken
GoroutineSteps(r) == ReadMessage(r) \/ ReadEnd(r) \/ Register(r) \/ Remove(r)

Next ==
  \/ \E d \in up : RxTake(d)
  \/ GetOrCreateQueue \/ EnqueuePacket
  \/ Shutdown \/ CloseAll \/ CloseTaken
  \/ \E r \in Registration :
       ReadMessage(r) \/ ReadEnd(r) \/ Register(r) \/ Remove(r) \/ ContextDone(r)
  \/ \E s \in Socket : Connect(s) \/ GiveUp(s) \/ SendData(s)
  \/ \E a \in down : ReceiveReply(a)
  \/ Tick

Spec == Init /\ [][Next]_vars

(* Loops and goroutines that can go on do, and deadlines pass.             *)
FairSpec ==
  /\ Spec
  /\ WF_vars(LoopSteps)
  /\ \A r \in Registration : WF_vars(GoroutineSteps(r)) /\ WF_vars(ContextDone(r))

-----------------------------------------------------------------------------
TypeOK ==
  /\ registrations \in [Socket -> Registration \cup {None}]
  /\ queue \in [Registration -> QueueOf(Datagram)]
  /\ \A r \in Registration : RingOK(queue[r])
  /\ reg \in [Registration -> Goroutine]
  /\ rx \in Loop
  /\ taken \subseteq Registration
  /\ open \in BOOLEAN /\ bucket \in Bucket /\ copies \in 0 .. MaxCopies
  /\ session \in Key \cup {None} /\ added \subseteq Key
  /\ client \in [Socket -> Handshake]
  /\ up \subseteq Datagram /\ down \subseteq Reply

(* The registrar never runs more goroutines than maxConcurrentRegistrations, *)
(* the ones whose first datagram is still on its way to the queue and the    *)
(* ones closeAll took out of the map included.                               *)
Live == {r \in Registration : Alive(r)}
RegistrationsBounded == Cardinality(Live) <= MaxRegistrations

(* After closeAll nobody waits for the timeout of a handshake: every queue *)
(* whose goroutine still runs is closed.                                   *)
ShutdownClosesAll == rx.pc = "stopped" => \A r \in Live : queue[r].closed

(* A client that completed its handshake is not forgotten: a session was   *)
(* added under its keys, or will be by a goroutine that answered it, even  *)
(* if the queue of that goroutine was closed meanwhile.                    *)
Admitted(k) == \E r \in Registration : reg[r].pc = "admitted" /\ reg[r].key = k
ConnectedIsRegistered ==
  \A s \in Socket : client[s].pc = "connected" =>
    client[s].key \in added \/ Admitted(client[s].key)

(* A client that answers a cookie reply with the cookie is not asked for   *)
(* one again, whatever the timeouts and the other datagrams do, unless the *)
(* network has repeated a datagram.                                        *)
RefusedOnlyAfterCopies ==
  (\E s \in Socket : client[s].pc = "refused") => copies < MaxCopies

(* Until closeAll, the goroutine of a registration is the one the map has  *)
(* for its address, so what it removes in the end is its own queue;        *)
(* afterwards the map stays empty and every queue is closed or about to be.*)
Collected == rx.pc \in {"closing", "stopped"}

MapIsOfLive ==
  \A s \in Mapped : Alive(registrations[s]) /\ reg[registrations[s]].from = s
LiveIsMapped ==
  \A r \in Live : /\ reg[r].from \in Socket
                  /\ ~Collected => registrations[reg[r].from] = r
CollectedIsClosing ==
  Collected => /\ Mapped = {} /\ ~open
               /\ \A r \in Live : queue[r].closed \/ (rx.pc = "closing" /\ r \in taken)

(* The loop is about to start every registration it has made, and only     *)
(* those.                                                                  *)
CreatedIsStarted ==
  /\ \A r \in Registration :
       reg[r].pc = "created" <=> (rx.pc = "queued" /\ rx.isNew /\ rx.to = r)
  /\ rx.pc = "unrouted" => ~rx.isNew
  /\ rx.pc \in {"unrouted", "queued"} => rx.frame \in Datagram
  /\ rx.pc = "queued" => rx.to \in Registration

(* Every answer was given by a goroutine that goes on to register.         *)
AnswersAreKept ==
  /\ \A r \in Registration : reg[r].pc = "admitted" => reg[r].key \in Key
  /\ \A a \in down : a.kind = "msg2" => a.key \in added \/ Admitted(a.key)
  /\ ConnectedIsRegistered

RegistrarInv ==
  /\ TypeOK
  /\ MapIsOfLive
  /\ LiveIsMapped
  /\ CollectedIsClosing
  /\ CreatedIsStarted
  /\ AnswersAreKept
  /\ RegistrationsBounded

(* The ring is a bounded first-in first-out queue: a step leaves what it   *)
(* holds alone, appends one datagram or takes the oldest.                  *)
FifoStep(old, new) ==
  \/ new = old
  \/ old # <<>> /\ new = Tail(old)
  \/ Len(old) < QueueCapacity /\ \E d \in Datagram : new = Append(old, d)
QueuesAreFifo ==
  [][\A r \in Registration : FifoStep(Contents(queue[r]), Contents(queue'[r]))]_vars

(* A registration ends, by a handshake, a failure or its timeout, so its   *)
(* place becomes free.                                                     *)
RegistrationEnds == \A r \in Registration : Alive(r) ~> reg[r].pc = "ended"
=============================================================================
