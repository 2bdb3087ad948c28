---------------------------- MODULE ReplayWindow ----------------------------
(***************************************************************************)
(* What a session over UDP promises about its nonces.  The sender counts   *)
(* up and stops at the last one.  The receiver keeps, for every high half  *)
(* of the counter, the newest low half it has accepted and which of the    *)
(* Size most recent ones it has accepted.  Datagrams are lost, repeated,   *)
(* reordered and delayed at will.                                          *)
(***************************************************************************)
EXTENDS Integers, FiniteSets

CONSTANTS
  Size,           \* slidingWindowWords * 64
  LowMax,         \* ^uint64(0)
  HighMax         \* ^uint16(0)

(* The theorems are about every such window. *)
WindowBounds == Size \in Nat \ {0} /\ LowMax \in Nat /\ HighMax \in Nat

Low == 0 .. LowMax
High == 0 .. HighMax
Nonce == [low : Low, high : High]

VARIABLES
  counter,        \* the sender's nonce
  sent,           \* the nonces that were used to encrypt
  max,            \* by high half: the newest low half accepted
  held,           \* by high half: distances from max that were accepted
  accepted        \* the nonces that were accepted

replayVars == <<counter, sent, max, held, accepted>>

ReplayInit ==
  /\ counter = [low |-> 0, high |-> 0]
  /\ sent = {}
  /\ max = [h \in High |-> 0]
  /\ held = [h \in High |-> {}]
  /\ accepted = {}

Exhausted(n) == n.low = LowMax /\ n.high = HighMax

Incremented(n) ==
  IF n.low = LowMax THEN [low |-> 0, high |-> n.high + 1] ELSE [n EXCEPT !.low = @ + 1]

Encrypt ==
  /\ ~Exhausted(counter)
  /\ counter' = Incremented(counter)
  /\ sent' = sent \cup {Incremented(counter)}
  /\ UNCHANGED <<max, held, accepted>>

Acceptable(n) ==
  \/ n.low > max[n.high]
  \/ max[n.high] - n.low < Size /\ max[n.high] - n.low \notin held[n.high]

Shifted(distances, n) == {d \in 0 .. Size - 1 : d - n \in distances}

Decrypt(n) ==
  /\ n \in sent
  /\ Acceptable(n)
  /\ IF n.low > max[n.high]
       THEN /\ held' = [held EXCEPT ![n.high] = Shifted(@, n.low - max[n.high]) \cup {0}]
            /\ max' = [max EXCEPT ![n.high] = n.low]
       ELSE /\ held' = [held EXCEPT ![n.high] = @ \cup {max[n.high] - n.low}]
            /\ max' = max
  /\ accepted' = accepted \cup {n}
  /\ UNCHANGED <<counter, sent>>

ReplayNext == Encrypt \/ \E n \in Nonce : Decrypt(n)

ReplaySpec == ReplayInit /\ [][ReplayNext]_replayVars

-----------------------------------------------------------------------------
(* What the window holds is what was accepted of the last Size nonces, and *)
(* nothing beyond its newest was.                                          *)
WindowIsHistory ==
  /\ \A n \in accepted : n.low <= max[n.high]
  /\ \A n \in accepted : max[n.high] - n.low < Size => max[n.high] - n.low \in held[n.high]
  /\ \A h \in High : \A d \in held[h] : [low |-> max[h] - d, high |-> h] \in accepted

(* No nonce is accepted a second time, and none is refused the first time  *)
(* that is not older than the window.                                      *)
AcceptsOnce ==
  /\ \A n \in accepted : ~Acceptable(n)
  /\ \A n \in sent \ accepted : max[n.high] - n.low < Size => Acceptable(n)

(* The sender never encrypts twice under one nonce: what it uses next is   *)
(* ahead of everything it used.                                            *)
NonceFresh ==
  ~Exhausted(counter) => Incremented(counter) \notin sent
=============================================================================
