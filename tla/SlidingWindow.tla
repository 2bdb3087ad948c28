---------------------------- MODULE SlidingWindow ----------------------------
(***************************************************************************)
(* The replay window of a session over UDP as it is built: a short list of *)
(* windows by the high half of the nonce, each a bitmap of several words   *)
(* that is shifted when a newer nonce is accepted.  A nonce is checked,    *)
(* then the datagram is opened, and only then the nonce is committed.      *)
(***************************************************************************)
EXTENDS Integers, FiniteSets, Sequences

CONSTANTS
  WindowWords,    \* slidingWindowWords
  WordBits,       \* 64
  WindowCap,      \* slidingWindowCap
  CounterLowMax,  \* ^uint64(0)
  CounterHighMax  \* ^uint16(0)

ASSUME SlidingWindowAssumption ==
  /\ WindowWords \in Nat \ {0} /\ WordBits \in Nat \ {0}
  /\ CounterLowMax \in Nat /\ CounterHighMax \in Nat
  /\ WindowCap \in Nat \ {0}

VARIABLES
  sendNonce,      \* Session.nonce of the sender
  used,           \* the nonces that were used to encrypt
  wins,           \* SlidingWindow.wins of the receiver
  opened          \* the nonces whose datagrams were decrypted

slidingVars == <<sendNonce, used, wins, opened>>

WindowBits == WindowWords * WordBits
Word == 0 .. WindowWords - 1
Bit == 0 .. WordBits - 1
EmptyBitmap == [i \in Word |-> {}]

SlidingInit ==
  /\ sendNonce = [low |-> 0, high |-> 0]
  /\ used = {}
  /\ wins = <<>>
  /\ opened = {}

-----------------------------------------------------------------------------
(* The counter. *)

NonceOverflow(n) == n.high = CounterHighMax /\ n.low = CounterLowMax

Increment(n) ==
  IF n.low = CounterLowMax THEN [low |-> 0, high |-> n.high + 1] ELSE [n EXCEPT !.low = @ + 1]

SessionEncrypt ==
  /\ ~NonceOverflow(sendNonce)
  /\ sendNonce' = Increment(sendNonce)
  /\ used' = used \cup {Increment(sendNonce)}
  /\ UNCHANGED <<wins, opened>>

-----------------------------------------------------------------------------
(* The bitmap.  A word is the set of its bits. *)

LeftShift(word, n) == {b + n : b \in word} \cap Bit
CarriedOver(word, n) == {b - (WordBits - n) : b \in {c \in word : c >= WordBits - n}}

(* mutant: the bits that leave a word are lost *)
ShiftBitmapNoCarry(b, n) ==
  IF n >= WindowBits THEN EmptyBitmap
  ELSE LET words == n \div WordBits
           moved == [i \in Word |-> IF i >= words THEN b[i - words] ELSE {}]
       IN  [i \in Word |-> LeftShift(moved[i], n % WordBits)]

ShiftBitmap(b, n) ==
  IF n >= WindowBits THEN EmptyBitmap
  ELSE LET words == n \div WordBits
           bits == n % WordBits
           moved == [i \in Word |-> IF i >= words THEN b[i - words] ELSE {}]
       IN  [i \in Word |-> LeftShift(moved[i], bits)
              \cup (IF i > 0 THEN CarriedOver(moved[i - 1], bits) ELSE {})]

SetBit(b, d) == [b EXCEPT ![d \div WordBits] = @ \cup {d % WordBits}]
HasBit(b, d) == d % WordBits \in b[d \div WordBits]

-----------------------------------------------------------------------------
(* The windows. *)

IndexFor(high) == {i \in DOMAIN wins : wins[i].high = high}

Check(n) ==
  \A i \in IndexFor(n.high) :
    LET w == wins[i] IN
      n.low <= w.max => w.max - n.low < WindowBits /\ ~HasBit(w.bitmap, w.max - n.low)

(* The windows when one for n.high is there: the oldest makes room for it. *)
WithWindow(n) ==
  IF IndexFor(n.high) # {} THEN wins
  ELSE Append(IF Len(wins) = WindowCap THEN Tail(wins) ELSE wins,
              [high |-> n.high, max |-> 0, bitmap |-> EmptyBitmap])

Marked(w, low) ==
  IF low > w.max
    THEN [w EXCEPT !.bitmap = SetBit(ShiftBitmap(@, low - w.max), 0), !.max = low]
  ELSE IF w.max - low < WindowBits
    THEN [w EXCEPT !.bitmap = SetBit(@, w.max - low)]
  ELSE w

Accept(n) ==
  [i \in DOMAIN WithWindow(n) |->
     IF WithWindow(n)[i].high = n.high THEN Marked(WithWindow(n)[i], n.low) ELSE WithWindow(n)[i]]

(* A datagram that was not sealed by the sender does not open and changes  *)
(* nothing.                                                                *)
SessionDecrypt(n) ==
  /\ n \in used
  /\ Check(n)
  /\ wins' = Accept(n)
  /\ opened' = opened \cup {n}
  /\ UNCHANGED <<sendNonce, used>>

SlidingNext ==
  \/ SessionEncrypt
  \/ \E n \in used : SessionDecrypt(n)

SlidingSpec == SlidingInit /\ [][SlidingNext]_slidingVars

-----------------------------------------------------------------------------
MaxOf(h) == IF IndexFor(h) = {} THEN 0 ELSE wins[CHOOSE i \in IndexFor(h) : TRUE].max
BitsOf(h) ==
  IF IndexFor(h) = {} THEN {}
  ELSE {d \in 0 .. WindowBits - 1 : HasBit(wins[CHOOSE i \in IndexFor(h) : TRUE].bitmap, d)}

Promise == INSTANCE ReplayWindow WITH
  Size <- WindowBits, LowMax <- CounterLowMax, HighMax <- CounterHighMax,
  counter <- sendNonce, sent <- used, accepted <- opened,
  max <- [h \in 0 .. CounterHighMax |-> MaxOf(h)],
  held <- [h \in 0 .. CounterHighMax |-> BitsOf(h)]

(* Words, bits and the list of windows are a window over the counters: the *)
(* datagrams the code accepts are the ones ReplayWindow accepts.           *)
ImplementsReplayWindow == Promise!ReplaySpec
=============================================================================
