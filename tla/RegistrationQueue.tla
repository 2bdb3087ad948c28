------------------------- MODULE RegistrationQueue --------------------------
(***************************************************************************)
(* server/udp/registration_queue.go: the bounded ring that carries the     *)
(* datagrams of one unknown peer from the receive loop to the goroutine    *)
(* that registers it.  Every method holds the mutex of the queue, so each  *)
(* is an operator on records; waiting on cond is the guard Readable.       *)
(***************************************************************************)
EXTENDS Integers, Sequences

CONSTANTS
  QueueCapacity,   \* registrationQueueCapacity
  None             \* a slot that was never used

ASSUME QueueAssumption == QueueCapacity \in Nat \ {0}

Slot == 0 .. (QueueCapacity - 1)
QueueOf(Datagram) ==
  [queue : [Slot -> Datagram \cup {None}], head : Slot, tail : Slot,
   count : 0 .. QueueCapacity, closed : BOOLEAN]

NewQueue ==
  [queue |-> [i \in Slot |-> None], head |-> 0, tail |-> 0, count |-> 0, closed |-> FALSE]

(* Mutant: the index does not wrap around. *)
FollowingUnwrapped(i) == i + 1
Following(i) == (i + 1) % QueueCapacity

(* Mutant: one datagram too many. *)
FullLate(q) == q.count > QueueCapacity
Full(q) == q.count = QueueCapacity

(* enqueue: a closed or full queue drops the datagram.                     *)
Enqueue(q, d) ==
  IF q.closed \/ Full(q) THEN q
  ELSE [q EXCEPT !.queue[q.tail] = d, !.tail = Following(q.tail), !.count = @ + 1]

(* ReadInto waits for a datagram or for the end; what was queued before    *)
(* Close is still read.                                                    *)
Readable(q) == q.count > 0
AtEnd(q) == q.count = 0 /\ q.closed
Oldest(q) == q.queue[q.head]
Dequeue(q) == [q EXCEPT !.head = Following(q.head), !.count = @ - 1]

Close(q) == [q EXCEPT !.closed = TRUE]

-----------------------------------------------------------------------------
(* What the queue stands for: the datagrams that were put in and not yet   *)
(* taken out, in their order.                                              *)
Contents(q) == [i \in 1 .. q.count |-> q.queue[(q.head + i - 1) % QueueCapacity]]

(* The ring is sound: the tail is count slots after the head, and every    *)
(* slot between them has been filled.                                      *)
RingOK(q) ==
  /\ q.tail = (q.head + q.count) % QueueCapacity
  /\ \A i \in 1 .. q.count : q.queue[(q.head + i - 1) % QueueCapacity] # None
=============================================================================
