--------------------------- MODULE InterfaceProofs ---------------------------
(***************************************************************************)
(* The operator's side, for every value of the constants.  What the rings  *)
(* of the text user interface show is the end of what was written to them, *)
(* for every size of the rings; its chains of messages neither die nor     *)
(* double, however often the screens are left and entered again; the       *)
(* configuration of the server stays sound while the manager, its cache, a *)
(* person at the file and a failing write change it, and however much      *)
(* fails no client is lost from it (ClientsStay); and the screens of       *)
(* the configurator (ScreenInv) keep their cursor on an option, start      *)
(* nothing beside an active unit and leave the unit they set up, or none.  *)
(***************************************************************************)
EXTENDS RingBuffers, RuntimeDashboard, ServerConfiguration, Configurator,
        SequenceTheorems, FiniteSetTheorems, TLAPS

-----------------------------------------------------------------------------
(* The rings of the interface. *)

(* Where the i-th of c entries is, when the next goes to h.                *)
Place(h, c, i) == (h - c + i - 1 + RingSize) % RingSize
SlotOf(r, i) == Place(r.head, r.count, i)

RingRecord ==
  [slots : [0 .. RingSize - 1 -> Entry], head : 0 .. RingSize - 1, count : 0 .. RingSize]

(* A ring holds a history: its last entries, in their order.               *)
HoldsHistory(r, s) ==
  /\ r \in RingRecord
  /\ s \in Seq(Entry) /\ r.count = Len(s)
  /\ \A i \in 1 .. Len(s) : r.slots[SlotOf(r, i)] = s[i]

RingInv == HoldsHistory(lines, logged) /\ HoldsHistory(samples, sampled)

(* Positions in a ring wrap around once.                                   *)
LEMMA RingWraps ==
  ASSUME NEW i \in 0 .. (2 * RingSize - 1)
  PROVE  i % RingSize = IF i < RingSize THEN i ELSE i - RingSize
  BY RingAssumption

LEMMA PlaceIs ==
  ASSUME NEW h \in 0 .. RingSize - 1, NEW c \in 0 .. RingSize, NEW i \in 1 .. c
  PROVE  /\ Place(h, c, i) = IF h - c + i - 1 < 0 THEN h - c + i - 1 + RingSize ELSE h - c + i - 1
         /\ Place(h, c, i) \in 0 .. RingSize - 1
<1>1. RingSize \in Nat \ {0} /\ h - c + i - 1 + RingSize \in 0 .. (2 * RingSize - 1)
  BY RingAssumption
<1>2. PICK x : x = h - c + i - 1 + RingSize
  OBVIOUS
<1>3. x % RingSize = IF x < RingSize THEN x ELSE x - RingSize
  BY <1>1, <1>2, RingWraps
<1>4. Place(h, c, i) = x % RingSize
  BY <1>2 DEF Place
<1> QED
  BY <1>1, <1>2, <1>3, <1>4

(* One more entry goes to the head, and leaves the others where they are.  *)
LEMMA PlacesKept ==
  ASSUME NEW h \in 0 .. RingSize - 1, NEW c \in 0 .. RingSize, NEW g, NEW m,
         g = (h + 1) % RingSize, m = IF c < RingSize THEN c + 1 ELSE RingSize,
         NEW i \in 1 .. m
  PROVE  /\ g \in 0 .. RingSize - 1 /\ m \in 1 .. RingSize
         /\ i = m => Place(g, m, i) = h
         /\ i # m => /\ c + 1 - m + i \in 1 .. c
                     /\ Place(g, m, i) = Place(h, c, c + 1 - m + i)
                     /\ Place(g, m, i) # h /\ Place(g, m, i) \in 0 .. RingSize - 1
<1>1. RingSize \in Nat \ {0} /\ m \in 1 .. RingSize /\ h + 1 \in 0 .. (2 * RingSize - 1)
  BY RingAssumption
<1>2. (h + 1) % RingSize = IF h + 1 < RingSize THEN h + 1 ELSE h + 1 - RingSize
  BY <1>1, RingWraps
<1>3. g = (IF h + 1 < RingSize THEN h + 1 ELSE 0) /\ g \in 0 .. RingSize - 1
  BY <1>1, <1>2
<1>4. /\ Place(g, m, i) = IF g - m + i - 1 < 0 THEN g - m + i - 1 + RingSize ELSE g - m + i - 1
      /\ Place(g, m, i) \in 0 .. RingSize - 1
  <2>1. g \in 0 .. RingSize - 1 /\ m \in 0 .. RingSize /\ i \in 1 .. m
    BY <1>1, <1>3
  <2> QED
    BY <2>1, PlaceIs
<1>5. CASE i = m
  BY <1>1, <1>3, <1>4, <1>5
<1>6. CASE i # m
  <2>1. PICK k : k = c + 1 - m + i
    OBVIOUS
  <2>2. k \in 1 .. c
    BY <1>1, <1>6, <2>1
  <2>3. Place(h, c, k) = IF h - c + k - 1 < 0 THEN h - c + k - 1 + RingSize ELSE h - c + k - 1
    BY <2>2, PlaceIs
  <2>4. h - c + k - 1 = h - m + i
    BY <1>1, <2>1
  <2>5. Place(g, m, i) = Place(h, c, k) /\ Place(g, m, i) # h
    BY <1>1, <1>3, <1>4, <1>6, <2>3, <2>4
  <2> QED
    BY <1>1, <1>3, <1>4, <1>6, <2>1, <2>2, <2>5
<1> QED
  BY <1>1, <1>3, <1>5, <1>6

LEMMA LastOfAre ==
  ASSUME NEW S, NEW s \in Seq(S), NEW n \in 0 .. Len(s)
  PROVE  /\ LastOf(s, n) \in Seq(S) /\ Len(LastOf(s, n)) = n
         /\ \A i \in 1 .. n : LastOf(s, n)[i] = s[Len(s) - n + i]
<1>1. Len(s) \in Nat /\ Len(s) - n + 1 \in 1 .. (Len(s) + 1)
  OBVIOUS
<1>2. \A j \in (Len(s) - n + 1) .. Len(s) : s[j] \in S
  BY <1>1
<1>3. LastOf(s, n) = [i \in 1 .. n |-> s[Len(s) - n + i]]
  <2>1. \A i \in 1 .. n : i + (Len(s) - n + 1) - 1 = Len(s) - n + i
    BY <1>1
  <2>2. 1 + Len(s) - (Len(s) - n + 1) = n
    BY <1>1
  <2> QED
    BY <1>1, <2>1, <2>2 DEF LastOf
<1>4. \A i \in 1 .. n : Len(s) - n + i \in 1 .. Len(s)
  BY <1>1
<1>5. [i \in 1 .. n |-> s[Len(s) - n + i]] \in Seq(S)
  BY <1>4
<1> QED
  BY <1>3, <1>5

LEMMA EmptyHolds ==
  ASSUME NEW r, r.count = 0, r \in RingRecord
  PROVE  HoldsHistory(r, << >>)
  BY DEF HoldsHistory

(* One more entry: the oldest is overwritten when the ring is full.        *)
LEMMA PutHolds ==
  ASSUME NEW r, NEW s, HoldsHistory(r, s), NEW e \in Entry
  PROVE  HoldsHistory(Put(r, e), Remembered(s, e))
<1>1. PICK c, m, t, q, u :
        /\ c = Len(s) /\ m = (IF c < RingSize THEN c + 1 ELSE RingSize)
        /\ t = Append(s, e) /\ q = Put(r, e) /\ u = Remembered(s, e)
  OBVIOUS
<1>2. /\ c \in 0 .. RingSize /\ s \in Seq(Entry) /\ r \in RingRecord /\ r.count = c
      /\ r.head \in 0 .. RingSize - 1 /\ r.slots \in [0 .. RingSize - 1 -> Entry]
      /\ \A i \in 1 .. c : r.slots[Place(r.head, c, i)] = s[i]
  BY <1>1 DEF HoldsHistory, RingRecord, SlotOf
<1>3. /\ t \in Seq(Entry) /\ Len(t) = c + 1
      /\ \A i \in 1 .. (c + 1) : t[i] = IF i = c + 1 THEN e ELSE s[i]
  BY <1>1, <1>2
<1>4. RingSize \in Nat \ {0} /\ m \in 1 .. RingSize /\ m \in 0 .. (c + 1)
  BY <1>1, <1>2, RingAssumption
<1>5. /\ u \in Seq(Entry) /\ Len(u) = m
      /\ \A i \in 1 .. m : u[i] = t[c + 1 - m + i]
  <2>1. u = LastOf(t, m)
    BY <1>1 DEF Remembered
  <2>2. t \in Seq(Entry) /\ m \in 0 .. Len(t)
    BY <1>3, <1>4
  <2>3. /\ u \in Seq(Entry) /\ Len(u) = m
        /\ \A i \in 1 .. m : u[i] = t[Len(t) - m + i]
    BY <2>1, <2>2, LastOfAre
  <2>4. \A i \in 1 .. m : Len(t) - m + i = c + 1 - m + i
    BY <1>2, <1>3, <1>4
  <2> QED
    BY <2>3, <2>4
<1>6. /\ q = [slots |-> q.slots, head |-> q.head, count |-> q.count]
      /\ q.slots = [r.slots EXCEPT ![r.head] = e] /\ q.head = (r.head + 1) % RingSize /\ q.count = m
  BY <1>1, <1>2 DEF Put
<1>7. m \in 1 .. m
  BY <1>4
<1>8. q \in RingRecord
  <2>1. q.head \in 0 .. RingSize - 1
    BY <1>1, <1>2, <1>6, <1>7, PlacesKept
  <2>2. q.slots \in [0 .. RingSize - 1 -> Entry] /\ q.count \in 0 .. RingSize
    BY <1>2, <1>4, <1>6
  <2> QED
    BY <1>6, <2>1, <2>2 DEF RingRecord
<1>9. ASSUME NEW i \in 1 .. m PROVE q.slots[SlotOf(q, i)] = u[i]
  <2>1. PICK k, p : k = c + 1 - m + i /\ p = Place(q.head, m, i)
    OBVIOUS
  <2>2. SlotOf(q, i) = p
    BY <1>6, <2>1 DEF SlotOf
  <2>3. /\ i = m => p = r.head
        /\ i # m => k \in 1 .. c /\ p = Place(r.head, c, k) /\ p # r.head /\ p \in 0 .. RingSize - 1
    <3>1. r.head \in 0 .. RingSize - 1 /\ c \in 0 .. RingSize /\ i \in 1 .. m
          /\ q.head = (r.head + 1) % RingSize /\ m = (IF c < RingSize THEN c + 1 ELSE RingSize)
      BY <1>1, <1>2, <1>6
    <3> QED
      BY <2>1, <3>1, PlacesKept
  <2>4. CASE i = m
    <3>0. u[i] = t[k]
      BY <1>5, <2>1
    <3>1. k = c + 1 /\ u[i] = t[k]
      BY <1>2, <1>4, <2>1, <2>4, <3>0
    <3>2. u[i] = e
      BY <1>2, <1>3, <3>1
    <3>3. q.slots[p] = e
      BY <1>2, <1>6, <2>3, <2>4
    <3> QED
      BY <2>2, <3>2, <3>3
  <2>5. CASE i # m
    <3>1. q.slots[p] = r.slots[p] /\ r.slots[p] = s[k]
      BY <1>2, <1>6, <2>3, <2>5
    <3>2. k # c + 1 /\ k \in 1 .. (c + 1)
      BY <1>2, <2>3, <2>5
    <3>3. u[i] = t[k]
      BY <1>5, <2>1
    <3> QED
      BY <1>3, <2>2, <3>1, <3>2, <3>3
  <2> QED
    BY <2>4, <2>5
<1> QED
  BY <1>1, <1>5, <1>6, <1>8, <1>9 DEF HoldsHistory

(* What is read from the head backwards is the end of the history.         *)
LEMMA LatestIsLast ==
  ASSUME NEW r, NEW s, HoldsHistory(r, s), NEW n \in 0 .. r.count
  PROVE  Latest(r, n) = LastOf(s, n)
<1>1. PICK c, h, start : c = Len(s) /\ h = r.head /\ start = (h - n + RingSize) % RingSize
  OBVIOUS
<1>2. /\ RingSize \in Nat \ {0} /\ c \in 0 .. RingSize /\ s \in Seq(Entry) /\ r.count = c
      /\ h \in 0 .. RingSize - 1 /\ n \in 0 .. c
      /\ \A i \in 1 .. c : r.slots[Place(h, c, i)] = s[i]
  BY <1>1, RingAssumption DEF HoldsHistory, RingRecord, SlotOf
<1>3. /\ LastOf(s, n) \in Seq(Entry) /\ Len(LastOf(s, n)) = n
      /\ \A i \in 1 .. n : LastOf(s, n)[i] = s[c - n + i]
  <2>1. n \in 0 .. Len(s)
    BY <1>1, <1>2
  <2>2. /\ LastOf(s, n) \in Seq(Entry) /\ Len(LastOf(s, n)) = n
        /\ \A i \in 1 .. n : LastOf(s, n)[i] = s[Len(s) - n + i]
    BY <1>2, <2>1, LastOfAre
  <2> QED
    BY <1>1, <2>2
<1>4. start = IF h - n < 0 THEN h - n + RingSize ELSE h - n
  <2>1. PICK x : x = h - n + RingSize
    OBVIOUS
  <2>2. x \in 0 .. (2 * RingSize - 1)
    BY <1>2, <2>1
  <2>3. x % RingSize = IF x < RingSize THEN x ELSE x - RingSize
    BY <2>2, RingWraps
  <2>4. start = x % RingSize
    BY <1>1, <2>1
  <2>5. h \in Int /\ n \in Int /\ RingSize \in Int
    BY <1>2
  <2>6. (x < RingSize <=> h - n < 0) /\ x - RingSize = h - n
    BY <2>1, <2>5
  <2> QED
    BY <2>1, <2>3, <2>4, <2>6
<1>5. ASSUME NEW i \in 1 .. n PROVE r.slots[(start + i - 1) % RingSize] = LastOf(s, n)[i]
  <2>1. PICK k, y : k = c - n + i /\ y = start + i - 1
    OBVIOUS
  <2>2. k \in 1 .. c /\ h - c + k - 1 = h - n + i - 1
    BY <1>2, <2>1
  <2>3. Place(h, c, k) = IF h - n + i - 1 < 0 THEN h - n + i - 1 + RingSize ELSE h - n + i - 1
    <3>1. Place(h, c, k) = IF h - c + k - 1 < 0 THEN h - c + k - 1 + RingSize ELSE h - c + k - 1
      BY <1>2, <2>2, PlaceIs
    <3> QED
      BY <2>2, <3>1
  <2>4. y \in 0 .. (2 * RingSize - 1)
    BY <1>2, <1>4, <2>1
  <2>5. y % RingSize = IF y < RingSize THEN y ELSE y - RingSize
    BY <2>4, RingWraps
  <2>6. y % RingSize = Place(h, c, k)
    BY <1>2, <1>4, <2>1, <2>3, <2>5
  <2> QED
    BY <1>2, <1>3, <2>1, <2>2, <2>6
<1>6. Latest(r, n) = [i \in 1 .. n |-> r.slots[(start + i - 1) % RingSize]]
  BY <1>1 DEF Latest
<1>7. LastOf(s, n) = [i \in 1 .. n |-> LastOf(s, n)[i]]
  BY <1>3
<1> QED
  BY <1>5, <1>6, <1>7

LEMMA RingStep == RingInv /\ [RingNext]_ringVars => RingInv'
<1> SUFFICES ASSUME RingInv, [RingNext]_ringVars PROVE RingInv'
  OBVIOUS
<1>1. CASE WriteLogLine
  BY <1>1, PutHolds DEF WriteLogLine, RingInv
<1>2. ASSUME NEW e \in Entry, Sampled(e) PROVE HoldsHistory(samples', sampled')
  BY <1>2, PutHolds DEF Sampled, RingInv
<1>3. CASE TakeSample
  BY <1>2, <1>3 DEF TakeSample, RingInv
<1>4. CASE ToggleGraph
  <2>1. HoldsHistory(ClearedRing(samples), << >>)
    <3>1. ClearedRing(samples) \in RingRecord /\ ClearedRing(samples).count = 0
      <4>1. samples \in RingRecord
        BY DEF RingInv, HoldsHistory
      <4>2. 0 \in 0 .. RingSize - 1 /\ 0 \in 0 .. RingSize
        BY RingAssumption
      <4> QED
        BY <4>1, <4>2 DEF ClearedRing, RingRecord
    <3> QED
      BY <3>1, EmptyHolds
  <2> QED
    BY <1>2, <1>4, <2>1 DEF ToggleGraph, RingInv
<1>5. CASE UNCHANGED ringVars
  BY <1>5 DEF ringVars, RingInv
<1> QED
  BY <1>1, <1>3, <1>4, <1>5 DEF RingNext

(* However often the log and the graph wrap around or the graph is         *)
(* switched off, what is drawn are the last entries in their order.        *)
THEOREM RingsHold == RingSpec => []RingsAreHistory
<1>1. RingInit => RingInv
  <2> SUFFICES ASSUME RingInit PROVE RingInv
    OBVIOUS
  <2>1. \A e \in Entry : EmptyRing(e) \in RingRecord /\ EmptyRing(e).count = 0
    BY RingAssumption DEF EmptyRing, RingRecord
  <2> QED
    BY <2>1, EmptyHolds DEF RingInit, RingInv
<1>2. RingInv => RingsAreHistory
  BY LatestIsLast DEF RingInv, RingsAreHistory, HoldsHistory
<1> QED
  BY <1>1, <1>2, RingStep, PTL DEF RingSpec

-----------------------------------------------------------------------------
(* The dashboard. *)

(* Channels and waiters are numbered by the visit they were made for; a    *)
(* visit has its waiter from its beginning, and only the latest has the    *)
(* channel that is open.                                                   *)
VisitsNumbered ==
  /\ visits \in 0 .. MaxVisits /\ waitStop \in 0 .. visits /\ stopped \subseteq 1 .. visits
  /\ display \in {"dataplane", "settings", "logs"} /\ ticks \in Nat
  /\ screens = "running" /\ display = "logs" => visits > 0

ChainsInv == VisitsNumbered /\ ChainsAlive

LEMMA ChannelClosed ==
  ASSUME ChainsInv, StopWait
  PROVE  /\ waitStop' = 0 /\ stopped' \subseteq 1 .. visits /\ 0 \notin stopped'
         /\ waitStop = 0 \/ waitStop \in stopped'
         /\ stopped \subseteq stopped'
  BY DashboardAssumption DEF ChainsInv, VisitsNumbered, ChainsAlive, StopWait

(* A program that ends has nothing more to lose.                           *)
LEMMA QuitKeeps ==
  ASSUME ChainsInv, StopWait, screens' # "running", UNCHANGED <<visits, waiters, display, ticks>>
  PROVE  ChainsInv'
  BY ChannelClosed DEF ChainsInv, VisitsNumbered, ChainsAlive

LEMMA ChainsUntouched ==
  ASSUME ChainsInv, UNCHANGED <<visits, waiters, display, ticks, waitStop, stopped>>,
         screens' = "running" => screens = "running"
  PROVE  ChainsInv'
  BY DEF ChainsInv, VisitsNumbered, ChainsAlive

(* Back on the dataplane, with the channel of the logs closed.             *)
LEMMA DataplaneEntered ==
  ASSUME ChainsInv, screens = "running", EnterDataplane, UNCHANGED <<screens, visits, waiters>>,
         IF display = "logs" THEN StopWait ELSE UNCHANGED <<stopped, waitStop>>
  PROVE  ChainsInv'
<1>1. CASE display = "logs"
  <2>1. StopWait
    BY <1>1
  <2>2. \A v \in Visit : waiters'[v] = "waits" => v \in stopped'
    BY <2>1, ChannelClosed DEF ChainsInv, ChainsAlive, VisitsNumbered, Visit
  <2> QED
    BY <2>1, <2>2, ChannelClosed DEF ChainsInv, ChainsAlive, VisitsNumbered, EnterDataplane, Reentered
<1>2. CASE display # "logs"
  <2>1. UNCHANGED <<screens, visits, waiters, stopped, waitStop>> /\ display' = "dataplane" /\ ticks' = 1
    BY <1>2 DEF EnterDataplane, Reentered
  <2>2. \A v \in Visit : waiters[v] = "waits" => v \in stopped
    BY <1>2 DEF ChainsInv, ChainsAlive
  <2>3. VisitsNumbered'
    BY <2>1 DEF ChainsInv, VisitsNumbered
  <2> QED
    BY <2>1, <2>2, <2>3 DEF ChainsInv, ChainsAlive
<1> QED
  BY <1>1, <1>2

LEMMA ChainsStep == ChainsInv /\ [DashboardNext]_dashboardVars => ChainsInv'
<1> SUFFICES ASSUME ChainsInv, [DashboardNext]_dashboardVars PROVE ChainsInv'
  OBVIOUS
<1>1. CASE Tick
  BY <1>1 DEF Tick, Shown, logWait, life, ChainsInv, VisitsNumbered, ChainsAlive
<1>2. CASE Tab
  <2>1. CASE display = "dataplane"
    <3>1. /\ UNCHANGED <<screens, visits, waiters, stopped, waitStop, ticks>>
          /\ display' = "settings" /\ screens = "running"
      BY <1>2, <2>1 DEF Tab, Shown, life
    <3>2. \A v \in Visit : waiters[v] = "waits" => v \in stopped
      BY <2>1, <3>1 DEF ChainsInv, ChainsAlive
    <3>3. VisitsNumbered'
      BY <3>1 DEF ChainsInv, VisitsNumbered
    <3> QED
      BY <3>1, <3>2, <3>3 DEF ChainsInv, ChainsAlive
  <2>2. CASE display = "settings"
    <3>1. EnterLogs /\ UNCHANGED <<change, leaving, life, dialog>> /\ Shown
      BY <1>2, <2>2 DEF Tab
    <3>2. /\ visits' = visits + 1 /\ visits' \in Visit /\ waitStop' = visits' /\ display' = "logs" /\ ticks' = ticks
          /\ stopped' = stopped \cup ({waitStop} \ {0}) /\ waiters' = [waiters EXCEPT ![visits'] = "waits"]
      BY <3>1, DashboardAssumption DEF EnterLogs, ChainsInv, VisitsNumbered, Visit
    <3>3. stopped' \subseteq 1 .. visits /\ visits' \notin stopped' /\ stopped \subseteq stopped'
      BY <3>2 DEF ChainsInv, VisitsNumbered
    <3>4. waiters' \in [Visit -> Waiter] /\ waiters'[visits'] = "waits"
      BY <3>2 DEF ChainsInv, ChainsAlive, Waiter
    <3>5. \A v \in Visit : waiters'[v] = "waits" => (v \in stopped') # (v = waitStop')
      BY <2>2, <3>1, <3>2, <3>3 DEF Shown, ChainsInv, ChainsAlive
    <3>6. VisitsNumbered'
      BY <3>2, <3>3 DEF ChainsInv, VisitsNumbered, Visit
    <3>7. ticks' <= 1 /\ waitStop' \notin stopped'
      BY <3>1, <3>2, <3>3 DEF Shown, ChainsInv, ChainsAlive
    <3> QED
      BY <3>2, <3>4, <3>5, <3>6, <3>7 DEF ChainsInv, ChainsAlive
  <2>3. CASE display = "logs"
    BY <1>2, <2>3, DataplaneEntered DEF Tab, Shown, life
  <2> QED
    BY <1>2, <2>1, <2>2, <2>3 DEF Tab
<1>3. CASE EscBack
  BY <1>3, DataplaneEntered DEF EscBack, Shown, life
<1>4. CASE EscLeaves
  BY <1>4, QuitKeeps, ChainsUntouched DEF EscLeaves, QuitProgram
<1>5. CASE Answer
  BY <1>5, QuitKeeps, ChainsUntouched DEF Answer, QuitProgram
<1>6. CASE CtrlC
  BY <1>6, QuitKeeps DEF CtrlC, QuitProgram, onScreen
<1>7. CASE ContextDoneMsg
  BY <1>7, QuitKeeps DEF ContextDoneMsg, QuitProgram, onScreen
<1>8. ASSUME NEW v \in Visit, LogChanged(v) PROVE ChainsInv'
  BY <1>8 DEF LogChanged, Expected, Shown, onScreen, life, ChainsInv, VisitsNumbered, ChainsAlive, Waiter
<1>9. ASSUME NEW v \in Visit, WaiterWakes(v) PROVE ChainsInv'
  <2>1. PICK w \in {"over", "ended", "changed"} :
          /\ waiters' = [waiters EXCEPT ![v] = w]
          /\ w = "ended" => v \in stopped
          /\ UNCHANGED <<visits, waitStop, stopped, display, ticks, screens>>
    BY <1>9 DEF WaiterWakes, onScreen, life
  <2>2. /\ waiters' \in [Visit -> Waiter] /\ waiters'[v] = w
        /\ \A x \in Visit : x # v => waiters'[x] = waiters[x]
    <3>1. waiters \in [Visit -> Waiter] /\ w \in Waiter
      BY <2>1 DEF ChainsInv, ChainsAlive, Waiter
    <3> QED
      BY <2>1, <3>1
  <2>3. VisitsNumbered' /\ waitStop \notin stopped
    BY <2>1 DEF ChainsInv, VisitsNumbered, ChainsAlive
  <2>4. ASSUME screens = "running", display = "logs"
        PROVE  waiters'[visits] \in {"waits", "changed", "over"}
    <3>1. visits \in Visit /\ waitStop = visits
      BY <2>4 DEF ChainsInv, ChainsAlive, VisitsNumbered, Visit
    <3> QED
      BY <2>1, <2>2, <2>3, <2>4, <3>1 DEF ChainsInv, ChainsAlive
  <2> QED
    BY <2>1, <2>2, <2>3, <2>4 DEF ChainsInv, ChainsAlive
<1>10. CASE LogWritten \/ ReadyChanges \/ ContextEnds \/ WorkerEnds \/ RunReturns
  BY <1>10, ChainsUntouched DEF LogWritten, ReadyChanges, ContextEnds, WorkerEnds, RunReturns,
     onScreen, logWait, life
<1>11. CASE ProgramFails \/ UIReturns
  BY <1>11, ChainsUntouched DEF ProgramFails, UIReturns, onScreen, logWait
<1>12. CASE UNCHANGED dashboardVars
  BY <1>12, ChainsUntouched DEF dashboardVars, onScreen, logWait, life
<1> QED
  BY <1>1, <1>2, <1>3, <1>4, <1>5, <1>6, <1>7, <1>8, <1>9, <1>10, <1>11, <1>12 DEF DashboardNext

(* However often the logs are shown and however late ticks and goroutines  *)
(* come, each chain of messages of the screen that is shown lives once.    *)
THEOREM ChainsHold == DashboardSpec => []ChainsAlive
<1>1. DashboardInit => ChainsInv
  BY DashboardAssumption DEF DashboardInit, ChainsInv, VisitsNumbered, ChainsAlive, Visit, Waiter
<1>2. ChainsInv => ChainsAlive
  BY DEF ChainsInv
<1> QED
  BY <1>1, <1>2, ChainsStep, PTL DEF DashboardSpec
-----------------------------------------------------------------------------
(* The configuration of the server. *)

Served(c, id, key) == \E p \in c.peers : p.id = id /\ p.key = key

(* As long as at most one thing goes wrong, identifiers are counted.       *)
Numbered(c, clients) ==
  MaxFlaws <= 1 =>
    /\ \A p \in c.peers : p.id <= c.counter
    /\ \A p, q \in c.peers : p.id = q.id => p = q
    /\ \A h \in clients : h.id <= c.counter

(* Peers of a copy of the configuration: each has an identifier and a key  *)
(* that was generated for it, and every client that has its configuration  *)
(* and was not to be removed is among them.                                *)
PeersSound(c, keys, clients, left) ==
  /\ c \in Configuration
  /\ \A p \in c.peers : p.id > 0 /\ p.key <= keys
  /\ \A p, q \in c.peers : p.key = q.key => p = q
  /\ \A h \in clients : h.id \notin left => Served(c, h.id, h.key)
  /\ Numbered(c, clients)

PortsSound(c) ==
  /\ \A p \in Protocols : c.ports[p] # 0
  /\ \A p, q \in c.enabled : c.ports[p] = c.ports[q] => p = q

Sound(c) == PeersSound(c, publicKeys, handed, asked) /\ PortsSound(c)
Present(c) == c # NoConfiguration
Complete == file.state = "complete"

(* The three copies: in the file, in the cache, and being written.         *)
FileKept ==
  /\ file \in [state : {"absent", "partial", "complete"}, conf : Configuration \cup {NoConfiguration},
               author : {"nobody", "manager", "person"}]
  /\ Complete => PeersSound(file.conf, publicKeys, handed, asked)
  /\ Complete /\ file.author = "manager" => PortsSound(file.conf)

CacheKept == Present(uiCache) => Sound(uiCache)

Alteration == {"enable", "disable", "remove"}
Generation == {"keys", "read", "ipv6", "reread", "count", "add", "save"}
FirstStep == {"keys"} \cup Alteration

WriteKept ==
  Present(request.conf) =>
    /\ Sound(request.conf) /\ file.state = "partial" /\ uiCache \in {NoConfiguration, request.conf}
    /\ request.step \in FirstStep \cup {"ipv6", "count", "add"}

RequestKept ==
  /\ request \in [kind : {"none", "generate"} \cup Alteration, step : {"none"} \cup Generation \cup Alteration,
                  id : Nat, client : Nat, conf : Configuration \cup {NoConfiguration}]
  /\ request.kind = "generate" => request.step \in Generation
  /\ request.kind # "generate" => request.step = request.kind
  /\ request.step = "none" => request = NoRequest
  /\ request.step = "remove" => request.id \in asked
  /\ request.conf = WithDefaults(DefaultConfiguration) => request.step \in FirstStep

NothingYet ==
  file.state = "absent" =>
    /\ ~Present(uiCache) /\ ~Present(request.conf) /\ handed = {}
    /\ request.step \in FirstStep \cup {"none"}

(* Before anything has gone wrong the cache knows the clients of the file. *)
CopiesAgree ==
  flaws = 0 /\ ~Present(request.conf) =>
    /\ file.state # "partial"
    /\ Present(uiCache) => uiCache.peers = file.conf.peers /\ uiCache.counter = file.conf.counter

(* What an operation would read now. *)
Source(c) == IF Present(uiCache) THEN c = uiCache ELSE Complete /\ c = file.conf

(* An identifier is taken from the counter, then counted, then used; no    *)
(* step of this is taken on a copy that has not seen the step before.      *)
IDIsCounted ==
  /\ request.step \in {"count", "add", "save"} => \A h \in handed : h.id < request.id
  /\ request.step = "count" /\ ~Present(request.conf) =>
       \A c \in {uiCache, file.conf} : Source(c) => request.id = c.counter + 1
  /\ request.step = "add" /\ ~Present(request.conf) =>
       \A c \in {uiCache, file.conf} : Source(c) => request.id = c.counter /\ \A p \in c.peers : p.id < request.id
  /\ request.step = "count" /\ Present(request.conf) =>
       request.id = request.conf.counter /\ \A p \in request.conf.peers : p.id < request.id

IDIsNew ==
  /\ request.step \in {"count", "add", "save"} => request.id > 0
  /\ MaxFlaws <= 1 => IDIsCounted

ClientIsAdded ==
  /\ request.step = "add" /\ Present(request.conf) => Served(request.conf, request.id, request.client)
  /\ request.step = "save" =>
       /\ Present(uiCache) => Served(uiCache, request.id, request.client)
       /\ Complete => Served(file.conf, request.id, request.client)

HandedKept ==
  /\ handed \subseteq [id : Nat, key : Nat]
  /\ MaxFlaws <= 1 => \A h, g \in handed : h.id = g.id => h = g

ConfigInv ==
  /\ ConfigTypes /\ HandedKept
  /\ FileKept /\ CacheKept /\ WriteKept /\ RequestKept /\ NothingYet /\ CopiesAgree /\ IDIsNew /\ ClientIsAdded

(* Defaults are ports; nothing else of a configuration changes.            *)
LEMMA DefaultsFilled ==
  ASSUME NEW c \in Configuration
  PROVE  /\ WithDefaults(c) \in Configuration
         /\ WithDefaults(c).peers = c.peers /\ WithDefaults(c).counter = c.counter
         /\ WithDefaults(c).keys = c.keys /\ WithDefaults(c).ipv6 = c.ipv6
         /\ WithDefaults(c).enabled = c.enabled
         /\ \A p \in Protocols : WithDefaults(c).ports[p] = IF c.ports[p] = 0 THEN DefaultPort[p] ELSE c.ports[p]
         /\ \A p \in Protocols : WithDefaults(c).ports[p] # 0
<1>1. PICK f : f = [p \in Protocols |-> IF c.ports[p] = 0 THEN DefaultPort[p] ELSE c.ports[p]]
  OBVIOUS
<1>2. WithDefaults(c) = [c EXCEPT !.ports = f]
  BY <1>1 DEF WithDefaults
<1>3. \A p \in Protocols : DefaultPort[p] \in Nat \ {0}
  BY DEF Protocols, DefaultPort
<1>4. f \in [Protocols -> Nat] /\ \A p \in Protocols : f[p] # 0
  BY <1>1, <1>3 DEF Configuration
<1>5. \A p \in Protocols : f[p] = IF c.ports[p] = 0 THEN DefaultPort[p] ELSE c.ports[p]
  BY <1>1
<1> HIDE <1>1
<1> QED
  BY <1>2, <1>4, <1>5 DEF Configuration

LEMMA DefaultIsSound ==
  /\ WithDefaults(DefaultConfiguration) \in Configuration
  /\ WithDefaults(DefaultConfiguration).peers = {} /\ WithDefaults(DefaultConfiguration).counter = 0
  /\ WithDefaults(DefaultConfiguration).keys = 0 /\ WithDefaults(DefaultConfiguration).ipv6 = FALSE
  /\ PortsSound(WithDefaults(DefaultConfiguration))
<1>1. /\ DefaultConfiguration \in Configuration
      /\ DefaultConfiguration.peers = {} /\ DefaultConfiguration.counter = 0
      /\ DefaultConfiguration.keys = 0 /\ DefaultConfiguration.ipv6 = FALSE
      /\ DefaultConfiguration.enabled = {"UDP"}
  BY DEF DefaultConfiguration, Configuration, Protocols
<1> QED
  BY <1>1, DefaultsFilled DEF PortsSound

(* What is known of a copy only grows less strict.                         *)
LEMMA StaysSound ==
  ASSUME NEW c, NEW keys \in Nat, NEW more \in Nat, keys <= more,
         NEW clients, NEW left, NEW gone, left \subseteq gone,
         PeersSound(c, keys, clients, left)
  PROVE  PeersSound(c, more, clients, gone)
<1>1. \A p \in c.peers : p.key \in Nat
  BY DEF PeersSound, Numbered, Configuration
<1> QED
  BY <1>1 DEF PeersSound, Numbered

LEMMA SamePeers ==
  ASSUME NEW c, NEW d \in Configuration, d.peers = c.peers, d.counter = c.counter,
         NEW keys, NEW clients, NEW left, PeersSound(c, keys, clients, left)
  PROVE  PeersSound(d, keys, clients, left)
  BY DEF PeersSound, Numbered, Served

(* Whatever is read is sound, be it the cache or a file a person edited.   *)
LEMMA ReadIsSound ==
  ASSUME ConfigInv, Readable(uiCache)
  PROVE  /\ Sound(Read(uiCache)) /\ Read(uiCache) \in Configuration /\ Present(Read(uiCache))
         /\ \E c \in {uiCache, file.conf} :
              Source(c) /\ c.peers = Read(uiCache).peers /\ c.counter = Read(uiCache).counter
<1>1. CASE Present(uiCache)
  BY <1>1 DEF ConfigInv, CacheKept, Present, Read, Source, Sound, PeersSound, Numbered
<1>2. CASE ~Present(uiCache)
  <2>1. Complete /\ Valid(FromDisk) /\ PeersSound(file.conf, publicKeys, handed, asked)
    BY <1>2 DEF Present, Readable, OnDiskReadable, Complete, ConfigInv, FileKept
  <2>2. file.conf \in Configuration /\ FromDisk = WithDefaults(file.conf)
    BY <2>1 DEF PeersSound, Numbered, FromDisk
  <2>3. /\ FromDisk \in Configuration /\ FromDisk.peers = file.conf.peers
        /\ FromDisk.counter = file.conf.counter /\ \A p \in Protocols : FromDisk.ports[p] # 0
    BY <2>2, DefaultsFilled
  <2>4. PeersSound(FromDisk, publicKeys, handed, asked)
    BY <2>1, <2>3, SamePeers
  <2>5. PortsSound(FromDisk)
    BY <2>1, <2>3 DEF Valid, PortsValid, Distinctly, PortsSound
  <2>6. Read(uiCache) = FromDisk /\ Source(file.conf) /\ Present(FromDisk)
    BY <1>2, <2>1, <2>3, ConfigurationAssumption DEF Read, Present, Source
  <2> QED
    BY <2>3, <2>4, <2>5, <2>6 DEF Sound
<1> QED
  BY <1>1, <1>2

(* No request, nothing to keep of one.                                     *)
LEMMA NoRequestKept ==
  ASSUME request = NoRequest
  PROVE  /\ WriteKept /\ RequestKept /\ IDIsNew /\ ClientIsAdded
         /\ ~Present(request.conf) /\ request.step = "none"
  BY DefaultIsSound, ConfigurationAssumption
     DEF NoRequest, WriteKept, RequestKept, IDIsNew, IDIsCounted, ClientIsAdded, Present

(* The steps of an operation follow one another.                           *)
LEMMA StepsFollow ==
  /\ StepFollowing("generate", "keys") = "read" /\ StepFollowing("generate", "read") = "ipv6"
  /\ StepFollowing("generate", "ipv6") = "reread" /\ StepFollowing("generate", "reread") = "count"
  /\ StepFollowing("generate", "count") = "add" /\ StepFollowing("generate", "add") = "save"
  /\ \A k \in Alteration : StepFollowing(k, k) = "none"
<1>1. StepFollowing("generate", "keys") = "read" /\ StepFollowing("generate", "read") = "ipv6"
  BY DEF StepFollowing, StepsOf
<1>2. StepFollowing("generate", "ipv6") = "reread" /\ StepFollowing("generate", "reread") = "count"
  BY DEF StepFollowing, StepsOf
<1>3. StepFollowing("generate", "count") = "add" /\ StepFollowing("generate", "add") = "save"
  BY DEF StepFollowing, StepsOf
<1>4. \A k \in Alteration : StepFollowing(k, k) = "none"
  BY DEF StepFollowing, StepsOf, Alteration
<1> QED
  BY <1>1, <1>2, <1>3, <1>4

(* The step after the present one, with nothing being written.             *)
LEMMA OperationAdvances ==
  ASSUME RequestKept, request.step # "none", request.step # "save"
  PROVE  \/ request.step \in Alteration /\ Advanced = NoRequest
         \/ /\ request.kind = "generate"
            /\ <<request.step, Advanced.step>> \in
                 {<<"keys", "read">>, <<"read", "ipv6">>, <<"ipv6", "reread">>, <<"reread", "count">>,
                  <<"count", "add">>, <<"add", "save">>}
            /\ Advanced = [request EXCEPT !.step = Advanced.step, !.conf = NoConfiguration]
<1>1. CASE request.kind = "generate"
  <2>1. request.step \in Generation \ {"save"}
    BY <1>1 DEF RequestKept
  <2>2. <<request.step, StepFollowing(request.kind, request.step)>> \in
          {<<"keys", "read">>, <<"read", "ipv6">>, <<"ipv6", "reread">>, <<"reread", "count">>,
           <<"count", "add">>, <<"add", "save">>}
    BY <1>1, <2>1, StepsFollow DEF Generation
  <2>3. Advanced = [request EXCEPT !.step = StepFollowing(request.kind, request.step), !.conf = NoConfiguration]
    BY <2>2 DEF Advanced
  <2>4. Advanced.step = StepFollowing(request.kind, request.step)
    BY <2>3 DEF RequestKept
  <2> QED
    BY <1>1, <2>2, <2>3, <2>4
<1>2. CASE request.kind # "generate"
  <2>1. request.step = request.kind /\ request.kind \in Alteration
    BY <1>2 DEF RequestKept
  <2> QED
    BY <2>1, StepsFollow DEF Advanced
<1> QED
  BY <1>1, <1>2

-----------------------------------------------------------------------------
(* What the steps of the file, the cache and the request keep.             *)

LEMMA CopiesKept ==
  ASSUME ConfigInv, UNCHANGED <<file, uiCache, handed>>, asked \subseteq asked', publicKeys' = publicKeys
  PROVE  FileKept' /\ CacheKept' /\ HandedKept'
<1>1. publicKeys \in Nat /\ publicKeys <= publicKeys
  BY DEF ConfigInv, ConfigTypes
<1>2. \A c : PeersSound(c, publicKeys, handed, asked) => PeersSound(c, publicKeys, handed, asked')
  BY <1>1, StaysSound
<1> QED
  BY <1>2 DEF ConfigInv, FileKept, CacheKept, HandedKept, Present, Complete, Sound

(* What was read before anything has gone wrong is in the file.            *)
LEMMA ReadAgrees ==
  ASSUME ConfigInv, Readable(uiCache), ~Present(request.conf), flaws = 0
  PROVE  Read(uiCache).peers = file.conf.peers /\ Read(uiCache).counter = file.conf.counter
  BY ReadIsSound DEF ConfigInv, CopiesAgree, Source

LEMMA FileIsThere ==
  ASSUME ConfigInv, ~NoFileYet
  PROVE  file.state # "absent"
  BY DEF ConfigInv, NothingYet, NoFileYet, Present

LEMMA BeginKeeps ==
  ASSUME ConfigInv, NEW kind \in {"generate"} \cup Alteration, NEW id \in Nat, Begin(kind, id)
  PROVE  ConfigInv'
<1>1. Head(StepsOf(kind)) = (IF kind = "generate" THEN "keys" ELSE kind)
  BY DEF StepsOf, Alteration
<1>2. /\ request'.kind = kind /\ request'.step = (IF kind = "generate" THEN "keys" ELSE kind)
      /\ request'.id = id /\ request'.client = 0 /\ request'.conf = NoConfiguration
      /\ request' = [kind |-> request'.kind, step |-> request'.step, id |-> request'.id,
                     client |-> request'.client, conf |-> request'.conf]
  BY <1>1 DEF Begin, NoRequest
<1>3. FileKept' /\ CacheKept' /\ HandedKept'
  BY CopiesKept DEF Begin
<1>4. ConfigTypes'
  BY ConfigurationAssumption DEF ConfigInv, ConfigTypes, Begin
<1>5. RequestKept'
  <2>1. WithDefaults(DefaultConfiguration) # NoConfiguration
    BY DefaultIsSound, ConfigurationAssumption
  <2>2. kind = "remove" => id \in asked'
    BY DEF Begin
  <2> QED
    BY <1>2, <2>1, <2>2 DEF RequestKept, Alteration, Generation, FirstStep, NoRequest
<1>6. WriteKept' /\ IDIsNew' /\ ClientIsAdded'
  BY <1>2 DEF WriteKept, IDIsNew, IDIsCounted, ClientIsAdded, Present, Alteration
<1>7. NothingYet' /\ CopiesAgree'
  <2>1. ~Present(request.conf)
    BY NoRequestKept DEF Begin
  <2> QED
    BY <1>2, <2>1 DEF ConfigInv, NothingYet, CopiesAgree, Present, FirstStep, Begin
<1> QED
  BY <1>3, <1>4, <1>5, <1>6, <1>7 DEF ConfigInv

LEMMA OperationsKeep ==
  ASSUME ConfigInv, Operations
  PROVE  ConfigInv'
<1>1. CASE Begin("generate", 0)
  BY <1>1, BeginKeeps
<1>2. ASSUME NEW kind \in Alteration, NEW id \in {h.id : h \in handed} \cup {1}, Begin(kind, id)
      PROVE  ConfigInv'
  <2>1. id \in Nat
    BY DEF ConfigInv, HandedKept
  <2> QED
    BY <1>2, <2>1, BeginKeeps
<1> QED
  BY <1>1, <1>2 DEF Operations, Alteration

LEMMA RequestForgotten ==
  ASSUME ConfigInv, request' = NoRequest, ConfigTypes', HandedKept', FileKept', CacheKept',
         file'.state = "absent" => file.state = "absent" /\ ~Present(uiCache)' /\ handed' = handed,
         CopiesAgree'
  PROVE  ConfigInv'
<1>1. WriteKept' /\ RequestKept' /\ IDIsNew' /\ ClientIsAdded' /\ ~Present(request.conf)' /\ request'.step = "none"
  BY DefaultIsSound, ConfigurationAssumption
     DEF NoRequest, WriteKept, RequestKept, IDIsNew, IDIsCounted, ClientIsAdded, Present
<1>2. NothingYet'
  BY <1>1 DEF ConfigInv, NothingYet
<1> QED
  BY <1>1, <1>2 DEF ConfigInv

LEMMA WriteFailsKeeps ==
  ASSUME ConfigInv, WriteFails
  PROVE  ConfigInv'
<1>1. FileKept' /\ CacheKept' /\ HandedKept'
  BY CopiesKept DEF WriteFails
<1>2. ConfigTypes' /\ flaws' # 0
  BY ConfigurationAssumption DEF ConfigInv, ConfigTypes, WriteFails, Flaw
<1>3. file.state = "partial" /\ file' = file /\ request' = NoRequest
  BY DEF ConfigInv, WriteKept, WriteFails, Present
<1> QED
  BY <1>1, <1>2, <1>3, RequestForgotten DEF CopiesAgree

LEMMA InterfaceDiesKeeps ==
  ASSUME ConfigInv, InterfaceDies
  PROVE  ConfigInv'
<1>1. ConfigTypes' /\ flaws' # 0
  BY ConfigurationAssumption DEF ConfigInv, ConfigTypes, InterfaceDies, Flaw
<1>2. UNCHANGED <<file, handed, asked, publicKeys>> /\ ~Present(uiCache)' /\ request' = NoRequest
  BY DEF InterfaceDies, Present
<1>3. FileKept' /\ CacheKept' /\ HandedKept'
  BY <1>2 DEF ConfigInv, FileKept, CacheKept, HandedKept, Complete
<1> QED
  BY <1>1, <1>2, <1>3, RequestForgotten DEF CopiesAgree

LEMMA RefuseKeeps ==
  ASSUME ConfigInv, Refuse
  PROVE  ConfigInv'
<1>1. /\ UNCHANGED <<file, handed, asked, publicKeys, flaws, requests, handEdits>> /\ request' = NoRequest
      /\ request.conf = NoConfiguration /\ ~NoFileYet
  BY DEF Refuse
<1>2. file.state # "absent"
  BY <1>1, FileIsThere
<1>3. \/ uiCache' = uiCache
      \/ Readable(uiCache) /\ uiCache' = Read(uiCache)
  BY DEF Refuse
<1>4. FileKept' /\ HandedKept' /\ ConfigTypes'
  BY <1>1 DEF ConfigInv, FileKept, HandedKept, ConfigTypes, Complete
<1>5. CacheKept' /\ CopiesAgree'
  <2>1. CASE uiCache' = uiCache
    BY <1>1, <2>1 DEF ConfigInv, CacheKept, CopiesAgree, Present, Sound
  <2>2. CASE Readable(uiCache) /\ uiCache' = Read(uiCache)
    BY <1>1, <2>2, ReadIsSound, ReadAgrees DEF ConfigInv, CacheKept, CopiesAgree, Present, Sound
  <2> QED
    BY <1>3, <2>1, <2>2
<1> QED
  BY <1>1, <1>2, <1>4, <1>5, RequestForgotten

LEMMA SaveKeeps ==
  ASSUME ConfigInv, Save
  PROVE  ConfigInv'
<1>1. /\ UNCHANGED <<file, uiCache, asked, publicKeys, requests, handEdits>> /\ request' = NoRequest
      /\ request.step = "save" /\ flaws' \in {flaws, flaws + 1}
      /\ ~Present(request.conf) /\ file.state # "absent"
  BY DEF Save, Flaw, ConfigInv, WriteKept, NothingYet, FirstStep, Alteration
<1>2. ConfigTypes'
  BY <1>1, ConfigurationAssumption DEF ConfigInv, ConfigTypes, Save, Flaw
<1>3. CopiesAgree'
  <2>1. flaws' = 0 => flaws = 0
    BY <1>1 DEF ConfigInv, ConfigTypes
  <2> QED
    BY <1>1, <2>1 DEF ConfigInv, CopiesAgree, Present
<1>4. CASE handed' = handed
  <2>1. FileKept' /\ CacheKept' /\ HandedKept'
    BY <1>1, <1>4, CopiesKept
  <2> QED
    BY <1>1, <1>2, <1>3, <2>1, RequestForgotten
<1>5. CASE handed' = handed \cup {[id |-> request.id, key |-> request.client]}
  <2>1. /\ request.id \in Nat /\ request.client \in Nat /\ \A h \in handed : h.id \in Nat
        /\ MaxFlaws <= 1 => \A h \in handed : h.id < request.id
    BY <1>1 DEF ConfigInv, RequestKept, IDIsNew, IDIsCounted, HandedKept
  <2>2. HandedKept'
    BY <1>5, <2>1 DEF ConfigInv, HandedKept
  <2>3. ASSUME NEW c, PeersSound(c, publicKeys, handed, asked), Served(c, request.id, request.client)
        PROVE  PeersSound(c, publicKeys, handed', asked)
    <3>1. MaxFlaws <= 1 => request.id <= c.counter
      BY <2>3 DEF Served, PeersSound, Numbered
    <3> QED
      BY <1>5, <2>3, <3>1 DEF PeersSound, Numbered
  <2>4. FileKept' /\ CacheKept'
    BY <1>1, <2>3 DEF ConfigInv, FileKept, CacheKept, ClientIsAdded, Complete, Present, Sound
  <2> QED
    BY <1>1, <1>2, <1>3, <2>2, <2>4, RequestForgotten
<1> QED
  BY <1>4, <1>5 DEF Save

(* The cache expires: between operations, or within one before anything    *)
(* else has gone wrong, when the file has the same clients.                *)
LEMMA ExpiresKeeps ==
  ASSUME ConfigInv, Expires
  PROVE  ConfigInv'
<1>1. /\ UNCHANGED <<file, request, handed, asked, publicKeys, requests, handEdits>>
      /\ uiCache' = NoConfiguration /\ Present(uiCache) /\ ~Present(uiCache)'
  BY DEF Expires, Present
<1>2. ConfigTypes' /\ flaws \in Nat /\ (flaws' = flaws \/ flaws' = flaws + 1)
  BY ConfigurationAssumption DEF ConfigInv, ConfigTypes, Expires, Flaw
<1>3. FileKept' /\ CacheKept' /\ HandedKept' /\ RequestKept' /\ WriteKept' /\ NothingYet'
  BY <1>1 DEF ConfigInv, FileKept, CacheKept, HandedKept, RequestKept, WriteKept, NothingYet, Complete,
     Present, Sound
<1>4. CopiesAgree'
  BY <1>1, <1>2 DEF ConfigInv, CopiesAgree, Present
<1>5. CASE request = NoRequest
  <2>1. IDIsNew' /\ ClientIsAdded'
    BY <1>1, <1>5 DEF NoRequest, IDIsNew, IDIsCounted, ClientIsAdded
  <2> QED
    BY <1>2, <1>3, <1>4, <2>1 DEF ConfigInv
<1>6. CASE request # NoRequest
  <2>1. MaxFlaws <= 1 => flaws = 0
    BY <1>6, ConfigurationAssumption DEF Expires, Flaw, ConfigInv, ConfigTypes
  <2>2. MaxFlaws <= 1 /\ ~Present(request.conf) => uiCache.peers = file.conf.peers /\ uiCache.counter = file.conf.counter
    BY <1>1, <2>1 DEF ConfigInv, CopiesAgree
  <2>3. IDIsNew'
    BY <1>1, <2>2 DEF ConfigInv, IDIsNew, IDIsCounted, Source, Present
  <2>4. ClientIsAdded'
    BY <1>1 DEF ConfigInv, ClientIsAdded, Complete, Present
  <2> QED
    BY <1>2, <1>3, <1>4, <2>3, <2>4 DEF ConfigInv
<1> QED
  BY <1>5, <1>6

LEMMA HandEditKeeps ==
  ASSUME ConfigInv, HandEdit
  PROVE  ConfigInv'
<1>1. PICK enabled \in {{"UDP"}, Protocols}, port \in {0, 2} :
        file' = [file EXCEPT !.conf.enabled = enabled, !.conf.ports["TCP"] = port, !.author = "person"]
  BY DEF HandEdit
<1>2. /\ UNCHANGED <<flaws, requests, uiCache, request, handed, asked, publicKeys>>
      /\ file.state = "complete" /\ Complete
  BY DEF HandEdit, Complete
<1>3. file.conf \in Configuration /\ PeersSound(file.conf, publicKeys, handed, asked)
  BY <1>2 DEF ConfigInv, FileKept, PeersSound, Numbered
<1>4. /\ file'.state = "complete" /\ file'.author = "person" /\ file'.conf \in Configuration
      /\ file'.conf.peers = file.conf.peers /\ file'.conf.counter = file.conf.counter
      /\ file' = [state |-> file'.state, conf |-> file'.conf, author |-> file'.author]
  <2>1. enabled \in SUBSET Protocols /\ port \in Nat
    BY DEF Protocols
  <2>2. /\ file'.conf = [file.conf EXCEPT !.enabled = enabled, !.ports["TCP"] = port]
        /\ file'.state = "complete" /\ file'.author = "person"
        /\ file' = [state |-> file'.state, conf |-> file'.conf, author |-> file'.author]
    BY <1>1, <1>2, <1>3 DEF ConfigInv, FileKept, Configuration
  <2>3. file'.conf \in Configuration /\ file'.conf.peers = file.conf.peers /\ file'.conf.counter = file.conf.counter
    <3>1. PICK ports : ports = [file.conf.ports EXCEPT !["TCP"] = port]
      OBVIOUS
    <3>2. ports \in [Protocols -> Nat]
      BY <1>3, <2>1, <3>1 DEF Configuration, Protocols
    <3>3. file'.conf = [file.conf EXCEPT !.enabled = enabled, !.ports = ports]
      BY <1>3, <2>2, <3>1 DEF Configuration
    <3> QED
      BY <1>3, <2>1, <3>2, <3>3 DEF Configuration
  <2> QED
    BY <2>2, <2>3
<1>5. FileKept'
  <2>1. PeersSound(file'.conf, publicKeys, handed, asked)
    BY <1>3, <1>4, SamePeers
  <2> QED
    BY <1>2, <1>4, <2>1 DEF FileKept, Complete
<1>6. ConfigTypes' /\ HandedKept' /\ CacheKept' /\ RequestKept'
  BY <1>2, <1>4, ConfigurationAssumption
     DEF ConfigInv, ConfigTypes, HandedKept, CacheKept, RequestKept, HandEdit, Present, Sound
<1>7. ~Present(request.conf)
  BY <1>2 DEF ConfigInv, WriteKept
<1>8. WriteKept' /\ NothingYet' /\ CopiesAgree'
  BY <1>2, <1>4, <1>7 DEF ConfigInv, WriteKept, NothingYet, CopiesAgree, Present
<1>9. IDIsNew' /\ ClientIsAdded'
  <2>1. Served(file.conf, request.id, request.client) => Served(file'.conf, request.id, request.client)
    BY <1>4 DEF Served
  <2>2. ClientIsAdded'
    BY <1>2, <1>4, <1>7, <2>1 DEF ConfigInv, ClientIsAdded, Complete, Present
  <2>3. ASSUME NEW c \in {uiCache, file'.conf}, Source(c)'
        PROVE  \E d \in {uiCache, file.conf} : Source(d) /\ d.peers = c.peers /\ d.counter = c.counter
    BY <1>2, <1>4, <2>3 DEF Source, Present, Complete
  <2>4. IDIsNew'
    BY <1>2, <1>7, <2>3 DEF ConfigInv, IDIsNew, IDIsCounted, Present
  <2> QED
    BY <2>2, <2>4
<1> QED
  BY <1>5, <1>6, <1>8, <1>9 DEF ConfigInv

LEMMA CreateDefaultKeeps ==
  ASSUME ConfigInv, CreateDefault
  PROVE  ConfigInv'
<1> DEFINE default == WithDefaults(DefaultConfiguration)
<1>1. /\ UNCHANGED <<flaws, requests, handEdits, uiCache, handed, asked, publicKeys>>
      /\ request.step # "none" /\ uiCache = NoConfiguration /\ file.state = "absent"
      /\ file' = [file EXCEPT !.state = "partial"] /\ request' = [request EXCEPT !.conf = default]
  BY DEF CreateDefault, NoFileYet
<1>2. handed = {} /\ request.step \in FirstStep
  BY <1>1 DEF ConfigInv, NothingYet
<1>3. default \in Configuration /\ Sound(default) /\ default # NoConfiguration
  BY <1>2, DefaultIsSound, ConfigurationAssumption DEF Sound, PeersSound, Numbered
<1> HIDE DEF default
<1>4. /\ request'.step = request.step /\ request'.conf = default
      /\ file'.state = "partial"
  BY <1>1 DEF ConfigInv, RequestKept, FileKept
<1>5. FileKept'
  BY <1>1 DEF ConfigInv, FileKept, Complete
<1>6. ConfigTypes' /\ CacheKept' /\ HandedKept' /\ NothingYet' /\ CopiesAgree'
  BY <1>1, <1>3, <1>4 DEF ConfigInv, ConfigTypes, CacheKept, HandedKept, NothingYet, CopiesAgree, Present
<1>7. RequestKept'
  BY <1>1, <1>2, <1>3, <1>4 DEF ConfigInv, RequestKept, FirstStep, NoRequest
<1>8. WriteKept' /\ IDIsNew' /\ ClientIsAdded'
  BY <1>1, <1>2, <1>3, <1>4 DEF WriteKept, IDIsNew, IDIsCounted, ClientIsAdded, FirstStep, Alteration, Sound
<1> QED
  BY <1>5, <1>6, <1>7, <1>8 DEF ConfigInv

LEMMA WriteEndsKeeps ==
  ASSUME ConfigInv, WriteEnds
  PROVE  ConfigInv'
<1> DEFINE c == request.conf
<1>1. /\ UNCHANGED <<flaws, requests, handEdits, uiCache, handed, asked, publicKeys>>
      /\ file' = [state |-> "complete", conf |-> c, author |-> "manager"] /\ Present(c)
  BY DEF WriteEnds, Present
<1>2. Sound(c) /\ c \in Configuration /\ uiCache \in {NoConfiguration, c}
      /\ request.step \in FirstStep \cup {"ipv6", "count", "add"}
  BY <1>1 DEF ConfigInv, WriteKept, Sound, PeersSound, Numbered
<1>3. ConfigTypes' /\ HandedKept' /\ FileKept' /\ CacheKept'
  BY <1>1, <1>2 DEF ConfigInv, ConfigTypes, HandedKept, FileKept, CacheKept, Complete, Present, Sound
<1>4. CopiesAgree'
  BY <1>1, <1>2 DEF CopiesAgree, Present
<1>5. file'.state # "absent" /\ NothingYet'
  BY <1>1 DEF NothingYet
<1>6. ASSUME NEW d \in {uiCache', file'.conf}, Source(d)' PROVE d = c
  BY <1>1, <1>2, <1>6 DEF Source, Present
<1>7. CASE c = WithDefaults(DefaultConfiguration)
  <2>1. request' = [request EXCEPT !.conf = NoConfiguration] /\ request.step \in FirstStep
    BY <1>7 DEF WriteEnds, ConfigInv, RequestKept
  <2>2. RequestKept' /\ ~Present(request.conf)' /\ request'.step = request.step
    BY <2>1, <1>1, DefaultIsSound, ConfigurationAssumption DEF ConfigInv, RequestKept, Present, NoRequest, FirstStep, Alteration
  <2>3. WriteKept' /\ IDIsNew' /\ ClientIsAdded'
    BY <2>1, <2>2 DEF WriteKept, IDIsNew, IDIsCounted, ClientIsAdded, FirstStep, Alteration
  <2> QED
    BY <1>3, <1>4, <1>5, <2>2, <2>3 DEF ConfigInv
<1>8. CASE c # WithDefaults(DefaultConfiguration)
  <2>1. request' = Advanced
    BY <1>8 DEF WriteEnds
  <2>2. CASE request.step \in Alteration /\ Advanced = NoRequest
    BY <1>3, <1>4, <1>5, <2>1, <2>2, RequestForgotten
  <2>3. CASE /\ request.kind = "generate"
             /\ <<request.step, Advanced.step>> \in
                  {<<"keys", "read">>, <<"read", "ipv6">>, <<"ipv6", "reread">>, <<"reread", "count">>,
                   <<"count", "add">>, <<"add", "save">>}
             /\ Advanced = [request EXCEPT !.step = Advanced.step, !.conf = NoConfiguration]
    <3>1. <<request.step, request'.step>> \in
            {<<"keys", "read">>, <<"ipv6", "reread">>, <<"count", "add">>, <<"add", "save">>}
      BY <1>2, <2>1, <2>3 DEF FirstStep, Alteration
    <3>2. /\ request'.conf = NoConfiguration /\ request'.id = request.id /\ request'.client = request.client
          /\ request'.kind = "generate" /\ request'.step \in Generation
          /\ request' = [kind |-> request'.kind, step |-> request'.step, id |-> request'.id,
                         client |-> request'.client, conf |-> request'.conf]
      BY <2>1, <2>3, <3>1 DEF ConfigInv, RequestKept, Generation
    <3>3. RequestKept'
      BY <3>1, <3>2, DefaultIsSound, ConfigurationAssumption DEF ConfigInv, RequestKept, Generation
    <3>4. WriteKept'
      BY <3>2 DEF WriteKept, Present
    <3>5. IDIsNew'
      <4>1. CASE request.step = "count" /\ request'.step = "add"
        <5>1. /\ request.id > 0
              /\ MaxFlaws <= 1 => /\ \A h \in handed : h.id < request.id
                                  /\ request.id = c.counter /\ \A p \in c.peers : p.id < request.id
          BY <1>1, <4>1 DEF ConfigInv, IDIsNew, IDIsCounted
        <5> QED
          BY <1>1, <1>6, <3>2, <4>1, <5>1 DEF IDIsNew, IDIsCounted, Present
      <4>2. CASE request.step = "add" /\ request'.step = "save"
        BY <1>1, <3>2, <4>2 DEF ConfigInv, IDIsNew, IDIsCounted
      <4>3. CASE request'.step \in {"read", "reread"}
        BY <4>3 DEF IDIsNew, IDIsCounted
      <4> QED
        BY <3>1, <4>1, <4>2, <4>3
    <3>6. ClientIsAdded'
      <4>1. CASE request.step = "add" /\ request'.step = "save"
        <5>1. Served(c, request.id, request.client)
          BY <1>1, <4>1 DEF ConfigInv, ClientIsAdded
        <5> QED
          BY <1>1, <1>2, <3>2, <4>1, <5>1 DEF ClientIsAdded, Present
      <4>2. CASE request'.step \in {"read", "reread", "add"}
        BY <3>2, <4>2 DEF ClientIsAdded, Present
      <4> QED
        BY <3>1, <4>1, <4>2
    <3> QED
      BY <1>3, <1>4, <1>5, <3>3, <3>4, <3>5, <3>6 DEF ConfigInv
  <2>4. request.step # "none" /\ request.step # "save" /\ RequestKept
    BY <1>2 DEF FirstStep, Alteration, ConfigInv
  <2> QED
    BY <2>2, <2>3, <2>4, OperationAdvances
<1> QED
  BY <1>7, <1>8

LEMMA ReadOnKeeps ==
  ASSUME ConfigInv, ReadOn
  PROVE  ConfigInv'
<1> DEFINE c == Read(uiCache)
<1>1. /\ UNCHANGED <<flaws, requests, handEdits, file, handed, asked, publicKeys>> /\ uiCache' = c
      /\ request.conf = NoConfiguration /\ request.step \in {"read", "reread", "keys", "ipv6"}
      /\ Readable(uiCache) /\ ~NoFileYet
  BY DEF ReadOn, OnlyReads, UpToDate
<1>2. Sound(c) /\ c \in Configuration /\ Present(c) /\ file.state # "absent"
  BY <1>1, ReadIsSound, FileIsThere
<1>3. PICK r \in {Advanced} \cup (IF request.step = "read" THEN {[request EXCEPT !.step = "count"]} ELSE {}) :
        request' = [r EXCEPT !.id = IF OnlyReads THEN NextClientID(Read(uiCache)) ELSE @]
  BY DEF ReadOn
<1>4. flaws = 0 => c.peers = file.conf.peers /\ c.counter = file.conf.counter
  BY <1>1, ReadAgrees DEF Present
<1> HIDE DEF c
<1>5. ConfigTypes' /\ HandedKept' /\ FileKept' /\ CacheKept' /\ CopiesAgree' /\ NothingYet'
  BY <1>1, <1>2, <1>4
     DEF ConfigInv, ConfigTypes, HandedKept, FileKept, CacheKept, CopiesAgree, NothingYet, Complete, Present, Sound
<1>6. /\ request.kind = "generate"
      /\ <<request.step, r.step>> \in {<<"keys", "read">>, <<"read", "ipv6">>, <<"ipv6", "reread">>,
                                       <<"reread", "count">>, <<"read", "count">>}
      /\ r = [request EXCEPT !.step = r.step, !.conf = NoConfiguration]
  <2>1. \/ request.step \in Alteration /\ Advanced = NoRequest
        \/ /\ request.kind = "generate"
           /\ <<request.step, Advanced.step>> \in
                {<<"keys", "read">>, <<"read", "ipv6">>, <<"ipv6", "reread">>, <<"reread", "count">>,
                 <<"count", "add">>, <<"add", "save">>}
           /\ Advanced = [request EXCEPT !.step = Advanced.step, !.conf = NoConfiguration]
    BY <1>1, OperationAdvances DEF ConfigInv
  <2>2. request.step \notin Alteration
    BY <1>1 DEF Alteration
  <2>3. CASE r = Advanced
    BY <1>1, <2>1, <2>2, <2>3
  <2>4. CASE request.step = "read" /\ r = [request EXCEPT !.step = "count"]
    <3>1. r.step = "count" /\ r = [request EXCEPT !.step = r.step, !.conf = NoConfiguration]
      BY <1>1, <2>4 DEF ConfigInv, RequestKept
    <3> QED
      BY <2>1, <2>2, <2>4, <3>1
  <2> QED
    BY <1>3, <2>3, <2>4
<1>7. /\ request'.conf = NoConfiguration /\ request'.client = request.client
      /\ request'.kind = "generate" /\ request'.step = r.step /\ request'.step \in Generation
      /\ request' = [kind |-> request'.kind, step |-> request'.step, id |-> request'.id,
                     client |-> request'.client, conf |-> request'.conf]
      /\ request'.id = (IF OnlyReads THEN c.counter + 1 ELSE request.id)
  BY <1>3, <1>6 DEF ConfigInv, RequestKept, Generation, NextClientID, c
<1>8. RequestKept'
  <2>1. request'.id \in Nat
    BY <1>2, <1>7 DEF ConfigInv, RequestKept, Configuration
  <2>2. request'.step \in Generation \ {"keys"}
    BY <1>6, <1>7 DEF Generation
  <2> QED
    BY <1>7, <2>1, <2>2, DefaultIsSound, ConfigurationAssumption DEF ConfigInv, RequestKept, Generation
<1>9. WriteKept'
  BY <1>7 DEF WriteKept, Present
<1>10. IDIsNew' /\ ClientIsAdded'
  <2>1. CASE request'.step = "count"
    <3>1. request'.id = c.counter + 1 /\ c.counter \in Nat
      BY <1>2, <1>6, <1>7, <2>1 DEF OnlyReads, Configuration
    <3>2. /\ \A h \in handed : h.id \in Nat
          /\ MaxFlaws <= 1 => \A h \in handed : h.id <= c.counter
      BY <1>2 DEF Sound, PeersSound, Numbered, ConfigInv, HandedKept
    <3> QED
      BY <1>1, <1>2, <1>7, <2>1, <3>1, <3>2 DEF IDIsNew, IDIsCounted, ClientIsAdded, Source, Present
  <2>2. CASE request'.step \in {"read", "ipv6", "reread"}
    BY <2>2 DEF IDIsNew, IDIsCounted, ClientIsAdded
  <2> QED
    BY <1>6, <1>7, <2>1, <2>2
<1> QED
  BY <1>5, <1>8, <1>9, <1>10 DEF ConfigInv

(* What an update makes of a sound configuration is sound.                 *)
LEMMA UpdatedIsSound ==
  ASSUME ConfigInv, NEW c, PeersSound(c, publicKeys, handed, asked), PortsSound(c),
         request.step \in FirstStep \cup {"ipv6", "count", "add"},
         MaxFlaws <= 1 /\ request.step = "add" => request.id = c.counter /\ \A p \in c.peers : p.id < request.id
  PROVE  LET d == Updated(c)
             drawn == IF DrawsKey THEN publicKeys + 1 ELSE publicKeys
         IN  /\ PeersSound(d, drawn, handed, asked) /\ PortsSound(d)
             /\ request.step = "count" => d.counter = c.counter + 1 /\ d.peers = c.peers
             /\ request.step = "add" => Served(d, request.id, publicKeys + 1)
             /\ request.step \in {"ipv6", "count", "add"} => d # WithDefaults(DefaultConfiguration)
<1> DEFINE d == Updated(c)
           drawn == IF DrawsKey THEN publicKeys + 1 ELSE publicKeys
<1>1. /\ c \in Configuration /\ c.counter \in Nat /\ publicKeys \in Nat
      /\ drawn \in Nat /\ publicKeys <= drawn
      /\ request.id \in Nat
  BY DEF PeersSound, Numbered, Configuration, ConfigInv, ConfigTypes, RequestKept
<1>2. PeersSound(c, drawn, handed, asked)
  BY <1>1, StaysSound
<1>3. ASSUME d \in Configuration, d.enabled = c.enabled, d.ports = c.ports
      PROVE  PortsSound(d)
  BY <1>3 DEF PortsSound
<1>4. CASE request.step = "keys"
  <2>1. d = [c EXCEPT !.keys = publicKeys + 1]
    BY <1>4 DEF Updated
  <2>2. d \in Configuration /\ d.peers = c.peers /\ d.counter = c.counter /\ d.enabled = c.enabled /\ d.ports = c.ports
    BY <1>1, <2>1 DEF Configuration
  <2> QED
    BY <1>2, <1>3, <1>4, <2>2, SamePeers
<1>5. CASE request.step = "ipv6"
  <2>1. d = [c EXCEPT !.ipv6 = TRUE]
    BY <1>5 DEF Updated
  <2>2. /\ d \in Configuration /\ d.peers = c.peers /\ d.counter = c.counter /\ d.enabled = c.enabled
        /\ d.ports = c.ports /\ d.ipv6 = TRUE
    BY <1>1, <2>1 DEF Configuration
  <2> QED
    BY <1>2, <1>3, <1>5, <2>2, SamePeers, DefaultIsSound
<1>6. CASE request.step = "count"
  <2>1. d = [c EXCEPT !.counter = @ + 1]
    BY <1>6 DEF Updated
  <2>2. /\ d \in Configuration /\ d.peers = c.peers /\ d.counter = c.counter + 1 /\ d.enabled = c.enabled
        /\ d.ports = c.ports
    BY <1>1, <2>1 DEF Configuration
  <2>3. PeersSound(d, drawn, handed, asked)
    <3>1. /\ \A p \in c.peers : p.id \in Nat
          /\ \A h \in handed : h.id \in Nat
      BY <1>1 DEF Configuration, ConfigInv, HandedKept
    <3>2. Numbered(d, handed)
      BY <1>1, <1>2, <2>2, <3>1 DEF PeersSound, Numbered
    <3> QED
      BY <1>2, <2>2, <3>2 DEF PeersSound, Served
  <2> QED
    BY <1>1, <1>3, <1>6, <2>2, <2>3, DefaultIsSound
<1>7. CASE request.step = "add"
  <2> DEFINE new == [key |-> publicKeys + 1, id |-> request.id, enabled |-> TRUE]
  <2>1. d = [c EXCEPT !.peers = @ \cup {new}] /\ drawn = publicKeys + 1
    BY <1>7 DEF Updated, DrawsKey
  <2>2. /\ new \in [key : Nat, id : Nat, enabled : BOOLEAN]
        /\ new.id = request.id /\ new.key = publicKeys + 1
    BY <1>1
  <2> HIDE DEF new
  <2>3. /\ d \in Configuration /\ d.peers = c.peers \cup {new} /\ d.counter = c.counter /\ d.enabled = c.enabled
        /\ d.ports = c.ports
    BY <1>1, <2>1, <2>2 DEF Configuration
  <2>4. request.id > 0 /\ (MaxFlaws <= 1 => request.id = c.counter)
    BY <1>1, <1>7 DEF ConfigInv, IDIsNew
  <2>5. /\ \A p \in c.peers : p.key # publicKeys + 1 /\ p.key \in Nat /\ p.key <= publicKeys
        /\ MaxFlaws <= 1 => \A p \in c.peers : p.id # request.id
    BY <1>1, <1>7 DEF PeersSound, Configuration
  <2>6. PeersSound(d, drawn, handed, asked)
    <3>1. \A p \in d.peers : p.id > 0 /\ p.key <= drawn
      BY <1>1, <1>2, <2>1, <2>3, <2>4, <2>2 DEF PeersSound
    <3>2. \A p, q \in d.peers : p.key = q.key => p = q
      BY <1>2, <2>3, <2>5, <2>2 DEF PeersSound
    <3>3. \A h \in handed : h.id \notin asked => Served(d, h.id, h.key)
      BY <1>2, <2>3 DEF PeersSound, Served
    <3>4. Numbered(d, handed)
      BY <1>1, <1>2, <2>2, <2>3, <2>4, <2>5 DEF PeersSound, Numbered
    <3> QED
      BY <2>3, <3>1, <3>2, <3>3, <3>4 DEF PeersSound
  <2>7. Served(d, request.id, publicKeys + 1) /\ d.peers # {}
    BY <2>3, <2>2 DEF Served
  <2> QED
    BY <1>3, <1>7, <2>3, <2>6, <2>7, DefaultIsSound
<1>8. CASE request.step \in {"enable", "disable"}
  <2>1. PICK on \in BOOLEAN : d = [c EXCEPT !.peers = PeersWith(c, request.id, on)]
    BY <1>8 DEF Updated
  <2> DEFINE With(p) == IF p.id = request.id THEN [p EXCEPT !.enabled = on] ELSE p
  <2>2. PeersWith(c, request.id, on) = {With(p) : p \in c.peers}
    BY DEF PeersWith
  <2>3. \A p \in c.peers : /\ With(p) \in [key : Nat, id : Nat, enabled : BOOLEAN]
                           /\ With(p).id = p.id /\ With(p).key = p.key
    BY <1>1 DEF Configuration
  <2> HIDE DEF With
  <2>4. /\ d \in Configuration /\ d.peers = {With(p) : p \in c.peers} /\ d.counter = c.counter
        /\ d.enabled = c.enabled /\ d.ports = c.ports
    BY <1>1, <2>1, <2>2, <2>3 DEF Configuration
  <2>5. PeersSound(d, drawn, handed, asked)
    <3>1. \A p \in d.peers : p.id > 0 /\ p.key <= drawn
      BY <1>2, <2>3, <2>4 DEF PeersSound
    <3>2. \A p, q \in d.peers : p.key = q.key => p = q
      BY <1>2, <2>3, <2>4 DEF PeersSound
    <3>3. \A h \in handed : h.id \notin asked => Served(d, h.id, h.key)
      BY <1>2, <2>3, <2>4 DEF PeersSound, Served
    <3>4. Numbered(d, handed)
      BY <1>2, <2>3, <2>4 DEF PeersSound, Numbered
    <3> QED
      BY <2>4, <3>1, <3>2, <3>3, <3>4 DEF PeersSound
  <2> QED
    BY <1>3, <1>8, <2>4, <2>5
<1>9. CASE request.step = "remove"
  <2>1. d = [c EXCEPT !.peers = {p \in @ : p.id # request.id}] /\ request.id \in asked
    BY <1>9 DEF Updated, ConfigInv, RequestKept
  <2>2. /\ d \in Configuration /\ d.peers = {p \in c.peers : p.id # request.id} /\ d.counter = c.counter
        /\ d.enabled = c.enabled /\ d.ports = c.ports
    BY <1>1, <2>1 DEF Configuration
  <2>3. PeersSound(d, drawn, handed, asked)
    BY <1>2, <2>1, <2>2 DEF PeersSound, Numbered, Served
  <2> QED
    BY <1>3, <1>9, <2>2, <2>3
<1> QED
  BY <1>4, <1>5, <1>6, <1>7, <1>8, <1>9 DEF FirstStep, Alteration

LEMMA UpdateKeeps ==
  ASSUME ConfigInv, Update
  PROVE  ConfigInv'
<1>1. PICK s, c : s = Read(uiCache) /\ c = Updated(s)
  OBVIOUS
<1>2. /\ request.step \notin {"none", "save", "read", "reread"} /\ request.conf = NoConfiguration
      /\ ~NoFileYet /\ Readable(uiCache) /\ uiCache' = c
      /\ publicKeys' = (IF DrawsKey THEN publicKeys + 1 ELSE publicKeys)
      /\ UNCHANGED <<requests, handEdits, handed, asked>>
  BY <1>1 DEF Update, OnlyReads
<1>3. request.step \in FirstStep \cup {"ipv6", "count", "add"}
  BY <1>2 DEF ConfigInv, RequestKept, FirstStep, Generation, Alteration
<1>4. /\ PeersSound(s, publicKeys, handed, asked) /\ PortsSound(s)
      /\ MaxFlaws <= 1 =>
           /\ request.step = "count" => request.id = s.counter + 1
           /\ request.step = "add" => request.id = s.counter /\ \A p \in s.peers : p.id < request.id
  <2>1. PICK x \in {uiCache, file.conf} : Source(x) /\ x.peers = s.peers /\ x.counter = s.counter
    BY <1>1, <1>2, ReadIsSound
  <2> QED
    BY <1>1, <1>2, <2>1, ReadIsSound DEF ConfigInv, IDIsNew, IDIsCounted, Sound, Present
<1>5. /\ PeersSound(c, publicKeys', handed, asked) /\ PortsSound(c)
      /\ request.step = "count" => c.counter = s.counter + 1 /\ c.peers = s.peers
      /\ request.step = "add" => Served(c, request.id, publicKeys + 1)
      /\ request.step \in {"ipv6", "count", "add"} => c # WithDefaults(DefaultConfiguration)
  BY <1>1, <1>2, <1>3, <1>4, UpdatedIsSound
<1>6. c \in Configuration /\ Present(c) /\ Present(uiCache)' /\ file.state # "absent"
  BY <1>2, <1>5, FileIsThere, ConfigurationAssumption DEF PeersSound, Numbered, Present
<1>7. publicKeys \in Nat /\ publicKeys' \in Nat /\ publicKeys <= publicKeys'
  BY <1>2 DEF ConfigInv, ConfigTypes
<1>8. HandedKept' /\ CacheKept'
  BY <1>2, <1>5 DEF ConfigInv, HandedKept, CacheKept, Sound
<1>9. CASE /\ file' = [file EXCEPT !.state = "partial"] /\ flaws' = flaws
           /\ request' = [request EXCEPT !.conf = c,
                            !.client = IF request.step = "add" THEN publicKeys + 1 ELSE @]
  <2>1. /\ request'.conf = c /\ request'.step = request.step /\ request'.id = request.id
        /\ request'.kind = request.kind
        /\ request.step = "add" => request'.client = publicKeys + 1
        /\ request'.client \in Nat
        /\ request' = [kind |-> request'.kind, step |-> request'.step, id |-> request'.id,
                       client |-> request'.client, conf |-> request'.conf]
    <3>1. PICK k : k = IF request.step = "add" THEN publicKeys + 1 ELSE request.client
      OBVIOUS
    <3>2. request' = [request EXCEPT !.conf = c, !.client = k] /\ k \in Nat
      BY <1>7, <1>9, <3>1 DEF ConfigInv, RequestKept
    <3> QED
      BY <3>1, <3>2 DEF ConfigInv, RequestKept
  <2>2. ConfigTypes' /\ FileKept' /\ file'.state = "partial"
    BY <1>2, <1>7, <1>9 DEF ConfigInv, ConfigTypes, FileKept, Complete
  <2>3. RequestKept'
    BY <1>2, <1>5, <1>6, <1>3, <2>1 DEF ConfigInv, RequestKept, NoRequest
  <2>4. WriteKept'
    BY <1>2, <1>3, <1>5, <2>1, <2>2 DEF WriteKept, Sound
  <2>5. NothingYet' /\ CopiesAgree'
    BY <1>6, <2>1, <2>2 DEF NothingYet, CopiesAgree, Present
  <2>6. IDIsNew'
    <3>1. MaxFlaws <= 1 /\ request.step = "count" => request.id = c.counter /\ \A p \in c.peers : p.id < request.id
      BY <1>4, <1>5 DEF PeersSound, Numbered, Configuration
    <3> QED
      BY <1>2, <1>6, <2>1, <3>1 DEF ConfigInv, IDIsNew, IDIsCounted, Present
  <2>7. ClientIsAdded'
    BY <1>2, <1>5, <1>6, <2>1 DEF ClientIsAdded, Present
  <2> QED
    BY <1>8, <2>2, <2>3, <2>4, <2>5, <2>6, <2>7 DEF ConfigInv
<1>10. CASE Flaw /\ request' = NoRequest /\ file' = file
  <2>1. ConfigTypes' /\ flaws' # 0
    BY <1>2, <1>7, <1>10, ConfigurationAssumption DEF ConfigInv, ConfigTypes, Flaw
  <2>2. FileKept'
    <3>1. PeersSound(file.conf, publicKeys, handed, asked) => PeersSound(file.conf, publicKeys', handed, asked)
      BY <1>7, StaysSound
    <3> QED
      BY <1>2, <1>10, <3>1 DEF ConfigInv, FileKept, Complete
  <2> QED
    BY <1>6, <1>8, <1>10, <2>1, <2>2, RequestForgotten DEF CopiesAgree
<1> QED
  BY <1>1, <1>9, <1>10 DEF Update

(* The daemon reads the file and has copies of its own.                    *)
LEMMA OthersKeep ==
  ASSUME ConfigInv,
         UNCHANGED <<flaws, requests, handEdits, file, uiCache, request, handed, asked, publicKeys>>
  PROVE  ConfigInv'
  BY DEF ConfigInv, ConfigTypes, HandedKept, FileKept, CacheKept, WriteKept, RequestKept, NothingYet,
         CopiesAgree, IDIsNew, IDIsCounted, ClientIsAdded, Present, Complete, Sound, Source

LEMMA ConfigInvHolds == ConfigSpec => []ConfigInv
<1>1. ASSUME ConfigInit PROVE ConfigInv
  <2>1. WithDefaults(DefaultConfiguration) # NoConfiguration
    BY DefaultIsSound, ConfigurationAssumption
  <2> QED
    BY <1>1, <2>1, ConfigurationAssumption
       DEF ConfigInit, NoRequest, ConfigInv, ConfigTypes, HandedKept, FileKept, CacheKept, WriteKept, RequestKept,
           NothingYet, CopiesAgree, IDIsNew, IDIsCounted, ClientIsAdded, Present, Complete
<1>2. ASSUME ConfigInv, [ConfigNext]_configVars PROVE ConfigInv'
  <2>1. CASE Operations \/ Update \/ CreateDefault \/ WriteEnds \/ WriteFails \/ ReadOn \/ Refuse \/ Save
    BY <1>2, <2>1, OperationsKeep, UpdateKeeps, CreateDefaultKeeps, WriteEndsKeeps, WriteFailsKeeps,
       ReadOnKeeps, RefuseKeeps, SaveKeeps
  <2>2. CASE Expires \/ InterfaceDies \/ HandEdit
    BY <1>2, <2>2, ExpiresKeeps, InterfaceDiesKeeps, HandEditKeeps
  <2>3. CASE DaemonStarts \/ CheckAndRevoke
    BY <1>2, <2>3, OthersKeep DEF DaemonStarts, CheckAndRevoke
  <2>4. CASE UNCHANGED configVars
    BY <1>2, <2>4, OthersKeep DEF configVars
  <2> QED
    BY <1>2, <2>1, <2>2, <2>3, <2>4 DEF ConfigNext
<1> QED
  BY <1>1, <1>2, PTL DEF ConfigSpec

(* However much goes wrong: a complete file has every client that got its  *)
(* configuration and was not to be removed, under its identifier and key,  *)
(* no two clients share a key, and if what a manager has written is        *)
(* refused, then because two clients have one identifier.                  *)
ClientsStay ==
  Complete =>
    /\ \A h \in handed : h.id \notin asked => Served(file.conf, h.id, h.key)
    /\ \A p, q \in file.conf.peers : p.key = q.key => p = q
    /\ file.author = "manager" /\ ~Valid(FromDisk) =>
         \E p, q \in file.conf.peers : p # q /\ p.id = q.id

(* No failed write, expiry of the cache or death of the interface, in any  *)
(* number, loses a client that has its configuration (Manager.update,      *)
(* TTLReader.Read).                                                        *)
THEOREM ClientsStayHolds == ConfigSpec => []ClientsStay
<1>1. ASSUME ConfigInv PROVE ClientsStay
  <2> SUFFICES ASSUME Complete PROVE ClientsStay
    BY DEF ClientsStay
  <2>1. /\ file.conf \in Configuration /\ PeersSound(file.conf, publicKeys, handed, asked)
        /\ file.author = "manager" => PortsSound(file.conf)
    BY <1>1 DEF ConfigInv, FileKept, PeersSound
  <2>2. /\ FromDisk.peers = file.conf.peers /\ FromDisk.enabled = file.conf.enabled
        /\ file.author = "manager" => \A p \in Protocols : FromDisk.ports[p] = file.conf.ports[p]
    BY <2>1, DefaultsFilled DEF FromDisk, PortsSound
  <2>3. file.author = "manager" => PortsValid(FromDisk)
    BY <2>1, <2>2 DEF PortsValid, Distinctly, PortsSound, Configuration
  <2>4. (\A p, q \in file.conf.peers : p.id = q.id => p = q) => PeersValid(FromDisk)
    BY <2>1, <2>2 DEF PeersValid, Distinctly, PeersSound
  <2> QED
    BY <2>1, <2>3, <2>4 DEF ClientsStay, PeersSound, Valid
<1> QED
  BY <1>1, ConfigInvHolds, PTL

(* As long as at most one thing goes wrong, what the manager has written   *)
(* can be read, no two clients get the same identifier, and none that has  *)
(* its configuration is lost from the file (Manager.update, generator.go). *)
(* After a failed write and an expiry within the next operation two        *)
(* clients can get the same one.                                           *)
THEOREM ConfigurationHolds ==
  ASSUME MaxFlaws <= 1
  PROVE  ConfigSpec => []ConfigurationSound
<1>1. ASSUME ConfigInv PROVE ConfigurationSound
  <2>1. ASSUME Complete, file.author = "manager" PROVE Valid(FromDisk)
    <3>1. /\ file.conf \in Configuration /\ PeersSound(file.conf, publicKeys, handed, asked)
          /\ PortsSound(file.conf)
      BY <1>1, <2>1 DEF ConfigInv, FileKept, PeersSound, Numbered
    <3>2. /\ FromDisk.peers = file.conf.peers /\ FromDisk.enabled = file.conf.enabled
          /\ \A p \in Protocols : FromDisk.ports[p] = file.conf.ports[p]
      BY <3>1, DefaultsFilled DEF FromDisk, PortsSound
    <3>3. PortsValid(FromDisk)
      BY <3>1, <3>2 DEF PortsValid, Distinctly, PortsSound, Configuration
    <3>4. PeersValid(FromDisk)
      BY <3>1, <3>2 DEF PeersValid, Distinctly, PeersSound, Numbered, Configuration
    <3> QED
      BY <3>3, <3>4 DEF Valid
  <2>2. Distinctly(handed, LAMBDA h : h.id)
    BY <1>1 DEF ConfigInv, HandedKept, Distinctly
  <2>3. Complete => \A h \in handed : h.id \notin asked =>
          \E p \in file.conf.peers : p.id = h.id /\ p.key = h.key
    BY <1>1 DEF ConfigInv, FileKept, PeersSound, Numbered, Served
  <2> QED
    BY <1>1, <2>1, <2>2, <2>3 DEF ConfigInv, ConfigurationSound, Complete
<1> QED
  BY <1>1, ConfigInvHolds, PTL

-----------------------------------------------------------------------------
(* The user interface: the invariant of its screens. *)
Screen ==
  {"mode", "clientSelect", "clientRemove", "clientAddName", "clientAddJSON", "clientInvalid",
   "serverSelect", "serverManage", "serverDeleteConfirm",
   "daemonManage", "daemonReconfigureConfirm"} \cup StartConfirmation
Config == Name \cup {"none"}
Preference == [mode : Mode \cup {"none"}, auto : BOOLEAN, config : Config]
Question ==
  [mode : Mode \cup {"none"}, back : {"mode", "clientSelect", "serverSelect"}, config : Config,
   setup : Mode \cup {"none"}]

IsList(s) == Len(s) \in Nat /\ s = [i \in 1 .. Len(s) |-> s[i]]

(* The cursor is on an option, and a question about a peer is about a row. *)
ShownInv ==
  /\ tui \in {"start", "configure", "runtime", "ended"} /\ screen \in Screen
  /\ cursor \in Nat /\ IsList(list) /\ about \in [name : Config, row : Nat]
  /\ tui = "configure" =>
       /\ cursor = 0 \/ cursor + 1 \in DOMAIN Options
       /\ screen = "serverDeleteConfirm" => about.row + 1 \in DOMAIN list

(* What waits for an answer: a client to start waits with the configuration *)
(* that is active, and a new configurator waits for nothing.               *)
PendingInv ==
  /\ question \in Question
  /\ question.mode = "client" <=> question.config # "none"
  /\ question.config # "none" => activeConf.name = question.config
  /\ tui = "start" => question = NoQuestion
  /\ tui = "configure" =>
       /\ screen \in StartConfirmation <=> question.mode # "none"
       /\ screen = "daemonReconfigureConfirm" <=> question.setup # "none"

UnitInv == unit \in Unit /\ surprises \in 0 .. MaxSurprises /\ preferences \in Preference

ScreenInv == ShownInv /\ PendingInv /\ UnitInv
-----------------------------------------------------------------------------
(* What an operation on the unit can come to. *)
Outcome == [unit : Unit, ok : BOOLEAN, left : 0 .. MaxSurprises]

(* A command that succeeds has done its work; one that cannot succeed, or  *)
(* fails by itself, has done nothing.                                      *)
Came(o, possible, result, x) ==
  /\ x \in Outcome
  /\ \/ possible /\ x.ok /\ x.unit = result /\ x.left = o.left
     \/ ~x.ok /\ x.unit = o.unit /\ x.left \in {o.left, o.left - 1} /\ (possible => x.left = o.left - 1)

LEMMA TryComes ==
  ASSUME NEW o \in Outcome, o.ok, NEW possible \in BOOLEAN, NEW result \in Unit, NEW x \in Try(o, possible, result)
  PROVE  Came(o, possible, result, x)
<1>1. /\ o.unit \in Unit /\ o.left \in Nat /\ o.left <= MaxSurprises
      /\ o = [unit |-> o.unit, ok |-> TRUE, left |-> o.left]
  BY ConfiguratorAssumption DEF Outcome
<1>2. \/ x = IF possible THEN [o EXCEPT !.unit = result] ELSE [o EXCEPT !.ok = FALSE]
      \/ o.left > 0 /\ x = [[o EXCEPT !.ok = FALSE] EXCEPT !.left = @ - 1]
  BY DEF Try
<1>3. CASE possible /\ x = [o EXCEPT !.unit = result]
  <2>1. x = [unit |-> result, ok |-> TRUE, left |-> o.left]
    BY <1>1, <1>3
  <2> QED
    BY <1>1, <1>3, <2>1 DEF Came, Outcome
<1>4. CASE ~possible /\ x = [o EXCEPT !.ok = FALSE]
  <2>1. x = [unit |-> o.unit, ok |-> FALSE, left |-> o.left]
    BY <1>1, <1>4
  <2> QED
    BY <1>1, <1>4, <2>1 DEF Came, Outcome
<1>5. CASE o.left > 0 /\ x = [[o EXCEPT !.ok = FALSE] EXCEPT !.left = @ - 1]
  <2>1. x = [unit |-> o.unit, ok |-> FALSE, left |-> o.left - 1]
    BY <1>1, <1>5
  <2>2. o.left - 1 \in 0 .. MaxSurprises
    BY <1>1, <1>5, ConfiguratorAssumption
  <2> QED
    BY <1>1, <2>1, <2>2 DEF Came, Outcome
<1> QED
  BY <1>2, <1>3, <1>4, <1>5

LEMMA RetriedIs ==
  ASSUME NEW o \in Outcome
  PROVE  Retried(o) \in Outcome /\ Retried(o).ok /\ Retried(o).unit = o.unit /\ Retried(o).left = o.left
  BY DEF Retried, Outcome

LEMMA FailedIs ==
  ASSUME NEW outcomes \in SUBSET Outcome, NEW x \in Failed(outcomes)
  PROVE  \E o \in outcomes : x \in Outcome /\ ~x.ok /\ x.unit = o.unit /\ x.left = o.left
  BY DEF Failed, Outcome

(* The commands. *)
LEMMA CommandsCome ==
  ASSUME NEW o \in Outcome, o.ok
  PROVE  /\ \A x \in StopUnit(o) :
              Came(o, o.unit.active # "inactive" \/ Definition(o.unit) # "none",
                   [o.unit EXCEPT !.active = IF @ = "failed" THEN "failed" ELSE "inactive", !.runs = "none"], x)
         /\ \A x \in StartUnit(o) :
              Came(o, Definition(o.unit) # "none",
                   IF IsActive(o.unit) THEN o.unit
                   ELSE [o.unit EXCEPT !.active = "active", !.known = Definition(o.unit), !.runs = Definition(o.unit)], x)
         /\ \A x \in Reload(o) : Came(o, TRUE, [o.unit EXCEPT !.known = o.unit.file], x)
         /\ \A x \in EnableUnit(o) : Came(o, o.unit.file # "none", [o.unit EXCEPT !.enabled = TRUE], x)
         /\ \A x \in DisableUnit(o) : Came(o, o.unit.file # "none", [o.unit EXCEPT !.enabled = FALSE], x)
         /\ \A mode \in Mode : \A x \in WriteFile(o, mode) : Came(o, TRUE, [o.unit EXCEPT !.file = mode], x)
         /\ \A x \in RemoveFile(o) : Came(o, TRUE, [o.unit EXCEPT !.file = "none"], x)
         /\ \A x \in Try(o, TRUE, o.unit) : Came(o, TRUE, o.unit, x)
<1>1. o.unit \in Unit
  BY DEF Outcome
<1>2. /\ [o.unit EXCEPT !.active = IF @ = "failed" THEN "failed" ELSE "inactive", !.runs = "none"] \in Unit
      /\ [o.unit EXCEPT !.known = o.unit.file] \in Unit
      /\ [o.unit EXCEPT !.enabled = TRUE] \in Unit /\ [o.unit EXCEPT !.enabled = FALSE] \in Unit
      /\ \A mode \in Mode : [o.unit EXCEPT !.file = mode] \in Unit
      /\ [o.unit EXCEPT !.file = "none"] \in Unit
  BY <1>1 DEF Unit, ActiveState
<1>3. /\ Definition(o.unit) \in Mode \cup {"none"}
      /\ (IF IsActive(o.unit) THEN o.unit
          ELSE [o.unit EXCEPT !.active = "active", !.known = Definition(o.unit), !.runs = Definition(o.unit)]) \in Unit
  <2>1. Definition(o.unit) \in Mode \cup {"none"}
    BY <1>1 DEF Unit, Definition
  <2>2. [o.unit EXCEPT !.active = "active", !.known = Definition(o.unit), !.runs = Definition(o.unit)] \in Unit
    BY <1>1, <2>1 DEF Unit, ActiveState
  <2> QED
    BY <1>1, <2>1, <2>2
<1>4. \A possible \in BOOLEAN : \A result \in Unit : \A x \in Try(o, possible, result) : Came(o, possible, result, x)
  BY TryComes
<1> HIDE DEF Unit
<1>5. \A x \in StopUnit(o) :
        Came(o, o.unit.active # "inactive" \/ Definition(o.unit) # "none",
             [o.unit EXCEPT !.active = IF @ = "failed" THEN "failed" ELSE "inactive", !.runs = "none"], x)
  BY <1>2, <1>4, Zenon DEF StopUnit
<1>6. \A x \in StartUnit(o) :
        Came(o, Definition(o.unit) # "none",
             IF IsActive(o.unit) THEN o.unit
             ELSE [o.unit EXCEPT !.active = "active", !.known = Definition(o.unit), !.runs = Definition(o.unit)], x)
  BY <1>3, <1>4, Zenon DEF StartUnit
<1>7. \A x \in EnableUnit(o) : Came(o, o.unit.file # "none", [o.unit EXCEPT !.enabled = TRUE], x)
  BY <1>2, <1>4, Zenon DEF EnableUnit
<1>8. \A x \in DisableUnit(o) : Came(o, o.unit.file # "none", [o.unit EXCEPT !.enabled = FALSE], x)
  BY <1>2, <1>4, Zenon DEF DisableUnit
<1>9. /\ \A x \in Reload(o) : Came(o, TRUE, [o.unit EXCEPT !.known = o.unit.file], x)
      /\ \A mode \in Mode : \A x \in WriteFile(o, mode) : Came(o, TRUE, [o.unit EXCEPT !.file = mode], x)
      /\ \A x \in RemoveFile(o) : Came(o, TRUE, [o.unit EXCEPT !.file = "none"], x)
      /\ \A x \in Try(o, TRUE, o.unit) : Came(o, TRUE, o.unit, x)
  BY <1>1, <1>2, <1>4 DEF Reload, WriteFile, RemoveFile
<1> QED
  BY <1>5, <1>6, <1>7, <1>8, <1>9

Settled(before, after) ==
  after.file # before.file =>
    IF after.file = "none" THEN after.known = "none" \/ after.runs = "none"
    ELSE after.known = after.file /\ after.enabled /\ (after.active = "active" => after.runs = after.file)

LEMMA RollbackComes ==
  ASSUME NEW o \in Outcome, NEW x \in Rollback(o)
  PROVE  /\ x \in Outcome /\ ~x.ok /\ x.left <= o.left
         /\ x.left = o.left => x.unit = [o.unit EXCEPT !.file = "none", !.known = "none"]
<1>1. PICK r \in RemoveFile(Retried(o)) : \E y \in Reload(Retried(r)) : x = [y EXCEPT !.ok = FALSE]
  BY DEF Rollback, Failed
<1>2. PICK y \in Reload(Retried(r)) : x = [y EXCEPT !.ok = FALSE]
  BY <1>1
<1>3. /\ Retried(o) \in Outcome /\ Retried(o).ok /\ Retried(o).unit = o.unit /\ Retried(o).left = o.left
      /\ o.left \in Nat
  BY RetriedIs DEF Outcome
<1>4. Came(Retried(o), TRUE, [o.unit EXCEPT !.file = "none"], r)
  BY <1>1, <1>3, CommandsCome
<1>5. r \in Outcome /\ r.left <= o.left /\ (r.left = o.left => r.unit = [o.unit EXCEPT !.file = "none"]) /\ r.left \in Nat
  BY <1>3, <1>4 DEF Came, Outcome
<1>6. Retried(r) \in Outcome /\ Retried(r).ok /\ Retried(r).unit = r.unit /\ Retried(r).left = r.left
  BY <1>5, RetriedIs
<1>7. Came(Retried(r), TRUE, [r.unit EXCEPT !.known = r.unit.file], y)
  BY <1>2, <1>6, CommandsCome
<1>8. y \in Outcome /\ y.left <= r.left /\ (y.left = r.left => y.unit = [r.unit EXCEPT !.known = r.unit.file]) /\ y.left \in Nat
  BY <1>6, <1>5, <1>7 DEF Came, Outcome
<1>9. x \in Outcome /\ ~x.ok /\ x.left = y.left /\ x.unit = y.unit
  BY <1>2, <1>8 DEF Outcome
<1>10. o.unit \in Unit
  BY DEF Outcome
<1>11. ASSUME x.left = o.left PROVE x.unit = [o.unit EXCEPT !.file = "none", !.known = "none"]
  <2>1. y.left = r.left /\ r.left = o.left
    BY <1>3, <1>5, <1>8, <1>9, <1>11
  <2>2. r.unit = [o.unit EXCEPT !.file = "none"] /\ x.unit = [r.unit EXCEPT !.known = r.unit.file]
    BY <1>5, <1>8, <1>9, <2>1
  <2> QED
    BY <1>10, <2>2 DEF Unit
<1> QED
  BY <1>3, <1>5, <1>8, <1>9, <1>11

(* What becomes of the unit when a unit file is written, loaded and        *)
(* enabled: all of it, nothing, or a rollback that leaves no unit unless a *)
(* second command fails.                                                   *)
LEMMA InstallComes ==
  ASSUME NEW s \in Outcome, s.ok, NEW mode \in Mode, NEW i \in InstallUnit(s, mode)
  PROVE  /\ i \in Outcome /\ i.left <= s.left
         /\ \/ i.ok /\ i.unit = [s.unit EXCEPT !.file = mode, !.known = mode, !.enabled = TRUE]
            \/ ~i.ok /\ i.unit = s.unit
            \/ ~i.ok /\ i.unit = [s.unit EXCEPT !.file = "none", !.known = "none"]
            \/ ~i.ok /\ i.left < s.left - 1
<1>1. s.unit \in Unit /\ s.left \in Nat /\ mode # "none" /\ mode \in Mode \cup {"none"}
  BY DEF Outcome, Mode
<1>2. PICK w \in WriteFile(s, mode) :
        IF w.ok THEN i \in OrElse(AndThen(Reload(w), EnableUnit), Rollback) ELSE i = w
  BY DEF InstallUnit, AndThen
<1>3. Came(s, TRUE, [s.unit EXCEPT !.file = mode], w)
  BY <1>2, CommandsCome
<1>4. CASE ~w.ok
  BY <1>1, <1>2, <1>3, <1>4 DEF Came
<1>5. CASE w.ok
  <2>1. w \in Outcome /\ w.unit = [s.unit EXCEPT !.file = mode] /\ w.left = s.left
    BY <1>3, <1>5 DEF Came
  <2>2. PICK e \in AndThen(Reload(w), EnableUnit) : IF e.ok THEN i = e ELSE i \in Rollback(e)
    BY <1>2, <1>5 DEF OrElse
  <2>3. PICK r \in Reload(w) : IF r.ok THEN e \in EnableUnit(r) ELSE e = r
    BY <2>2 DEF AndThen
  <2>4. Came(w, TRUE, [w.unit EXCEPT !.known = w.unit.file], r)
    BY <1>5, <2>1, <2>3, CommandsCome
  <2>5. /\ e \in Outcome /\ e.left <= s.left
        /\ \/ e.ok /\ e.unit = [s.unit EXCEPT !.file = mode, !.known = mode, !.enabled = TRUE]
           \/ /\ ~e.ok /\ e.left < s.left
              /\ [e.unit EXCEPT !.file = "none", !.known = "none"] = [s.unit EXCEPT !.file = "none", !.known = "none"]
    <3>1. CASE ~r.ok
      <4>1. e = r /\ r \in Outcome /\ r.unit = w.unit /\ r.left = w.left - 1
        BY <2>3, <2>4, <3>1 DEF Came
      <4>2. [r.unit EXCEPT !.file = "none", !.known = "none"] = [s.unit EXCEPT !.file = "none", !.known = "none"]
        BY <1>1, <2>1, <4>1 DEF Unit
      <4> QED
        BY <1>1, <2>1, <3>1, <4>1, <4>2
    <3>2. CASE r.ok
      <4>1. r \in Outcome /\ r.unit = [w.unit EXCEPT !.known = w.unit.file] /\ r.left = s.left
        BY <2>1, <2>4, <3>2 DEF Came
      <4>2. r.unit = [s.unit EXCEPT !.file = mode, !.known = mode]
        BY <1>1, <2>1, <4>1 DEF Unit
      <4>3. r.unit.file = mode
        BY <1>1, <4>2 DEF Unit
      <4>4. Came(r, r.unit.file # "none", [r.unit EXCEPT !.enabled = TRUE], e)
        BY <2>3, <3>2, <4>1, CommandsCome
      <4>5. [r.unit EXCEPT !.file = "none", !.known = "none"] = [s.unit EXCEPT !.file = "none", !.known = "none"]
        BY <1>1, <4>2 DEF Unit
      <4>6. [r.unit EXCEPT !.enabled = TRUE] = [s.unit EXCEPT !.file = mode, !.known = mode, !.enabled = TRUE]
        BY <1>1, <4>2 DEF Unit
      <4>7. CASE e.ok
        BY <1>1, <4>1, <4>4, <4>6, <4>7 DEF Came
      <4>8. CASE ~e.ok
        <5>1. e \in Outcome /\ e.unit = r.unit /\ e.left = r.left - 1
          BY <1>1, <4>3, <4>4, <4>8 DEF Came
        <5> QED
          BY <1>1, <4>1, <4>5, <4>8, <5>1
      <4> QED
        BY <4>7, <4>8
    <3> QED
      BY <3>1, <3>2
  <2>6. CASE e.ok
    BY <2>2, <2>5, <2>6
  <2>7. CASE ~e.ok
    <3>1. i \in Rollback(e)
      BY <2>2, <2>7
    <3>2. /\ i \in Outcome /\ ~i.ok /\ i.left <= e.left
          /\ i.left = e.left => i.unit = [e.unit EXCEPT !.file = "none", !.known = "none"]
      BY <2>5, <3>1, RollbackComes
    <3>3. e.left < s.left /\ e.left \in Nat /\ i.left \in Nat
      BY <2>5, <2>7, <3>2 DEF Outcome
    <3>4. CASE i.left = e.left
      BY <1>1, <2>5, <2>7, <3>2, <3>3, <3>4
    <3>5. CASE i.left # e.left
      BY <1>1, <3>2, <3>3, <3>5
    <3> QED
      BY <3>4, <3>5
  <2> QED
    BY <2>6, <2>7
<1> QED
  BY <1>4, <1>5

(* What an operation promises: it counts the commands that fail, and the   *)
(* unit is settled when at most one did.                                   *)
OperatesWell(o, x) ==
  x \in Outcome /\ x.left <= o.left /\ (x.left >= o.left - 1 => Settled(o.unit, x.unit))

LEMMA StartsAgain ==
  ASSUME NEW i \in Outcome, NEW wasActive \in BOOLEAN, NEW x \in StartedAgain(i, wasActive)
  PROVE  /\ x \in Outcome /\ x.left <= i.left
         /\ \/ x.unit = i.unit
            \/ /\ wasActive /\ Definition(i.unit) # "none" /\ ~IsActive(i.unit)
               /\ x.unit = [i.unit EXCEPT !.active = "active", !.known = Definition(i.unit), !.runs = Definition(i.unit)]
<1> DEFINE started == [i.unit EXCEPT !.active = "active", !.known = Definition(i.unit), !.runs = Definition(i.unit)]
<1>1. i.left \in Nat
  BY DEF Outcome
<1>2. CASE ~wasActive
  BY <1>1, <1>2 DEF StartedAgain
<1>3. CASE wasActive
  <2>1. PICK y \in Outcome : /\ x \in Outcome /\ x.unit = y.unit /\ x.left = y.left
                             /\ \E c \in {i, Retried(i)} : c.ok /\ y \in StartUnit(c)
    <3>1. CASE i.ok
      <4>1. x \in StartUnit(i)
        BY <1>3, <3>1 DEF StartedAgain
      <4>2. x \in Outcome
        BY <3>1, <4>1, CommandsCome DEF Came, Outcome
      <4> QED
        BY <3>1, <4>1, <4>2
    <3>2. CASE ~i.ok
      <4>1. x \in Failed(StartUnit(Retried(i)))
        BY <1>3, <3>2 DEF StartedAgain
      <4>2. Retried(i) \in Outcome /\ Retried(i).ok
        BY RetriedIs
      <4>3. StartUnit(Retried(i)) \subseteq Outcome
        BY <4>2, CommandsCome DEF Came, Outcome
      <4>4. \E y \in StartUnit(Retried(i)) : x \in Outcome /\ ~x.ok /\ x.unit = y.unit /\ x.left = y.left
        BY <4>1, <4>3, FailedIs
      <4> QED
        BY <4>2, <4>3, <4>4
    <3> QED
      BY <3>1, <3>2
  <2>2. PICK c \in {i, Retried(i)} : c.ok /\ y \in StartUnit(c)
    BY <2>1
  <2>3. c \in Outcome /\ c.unit = i.unit /\ c.left = i.left
    BY <2>2, RetriedIs
  <2>4. Came(c, Definition(i.unit) # "none", IF IsActive(i.unit) THEN i.unit ELSE started, y)
    BY <2>2, <2>3, CommandsCome
  <2> HIDE DEF started
  <2>5. y.left <= i.left
    BY <1>1, <2>3, <2>4 DEF Came, Outcome
  <2>6. y.unit = i.unit \/ (Definition(i.unit) # "none" /\ ~IsActive(i.unit) /\ y.unit = started)
    BY <2>3, <2>4 DEF Came, Outcome
  <2> QED
    BY <1>3, <2>1, <2>5, <2>6 DEF started
<1> QED
  BY <1>2, <1>3

LEMMA SetupComes ==
  ASSUME NEW o \in Outcome, o.ok, NEW mode \in Mode, NEW x \in Setup(o, mode)
  PROVE  OperatesWell(o, x)
<1> DEFINE wasActive == IsActive(o.unit)
           halt(c) == IF wasActive THEN StopUnit(c) ELSE {c}
           again(s) == UNION {StartedAgain(i, wasActive) : i \in InstallUnit(s, mode)}
<1>1. o.unit \in Unit /\ o.left \in Nat /\ mode # "none"
  BY DEF Outcome, Mode
<1>2. Setup(o, mode) = AndThen(AndThen(Try(o, TRUE, o.unit), halt), again)
  BY DEF Setup
<1>3. PICK s : /\ s \in AndThen(Try(o, TRUE, o.unit), halt)
              /\ IF s.ok THEN x \in again(s) ELSE x = s
  BY <1>2 DEF AndThen
<1>4. PICK c \in Try(o, TRUE, o.unit) : IF c.ok THEN s \in halt(c) ELSE s = c
  BY <1>3 DEF AndThen
<1>5. Came(o, TRUE, o.unit, c)
  BY <1>4, CommandsCome
<1>6. c \in Outcome /\ c.unit = o.unit /\ c.left <= o.left /\ (c.ok => c.left = o.left)
  BY <1>1, <1>5 DEF Came, Outcome
<1>7. /\ s \in Outcome /\ s.left <= o.left
      /\ s.unit.file = o.unit.file
      /\ s.ok => s.left = o.left /\ s.unit.active # "active"
  <2>1. CASE ~c.ok
    BY <1>4, <1>6, <2>1
  <2>2. CASE c.ok /\ ~wasActive
    <3>1. s = c
      BY <1>4, <2>2
    <3> QED
      BY <1>6, <2>2, <3>1 DEF IsActive
  <2>3. CASE c.ok /\ wasActive
    <3>1. s \in StopUnit(c)
      BY <1>4, <2>3
    <3> DEFINE ended == [c.unit EXCEPT !.active = IF @ = "failed" THEN "failed" ELSE "inactive", !.runs = "none"]
    <3>2. Came(c, c.unit.active # "inactive" \/ Definition(c.unit) # "none", ended, s)
      BY <1>6, <2>3, <3>1, CommandsCome
    <3>3. ended.file = o.unit.file /\ ended.active # "active"
      BY <1>1, <1>6 DEF Unit
    <3> HIDE DEF ended
    <3> QED
      BY <1>1, <1>6, <2>3, <3>2, <3>3 DEF Came, Outcome
  <2> QED
    BY <2>1, <2>2, <2>3
<1>8. CASE ~s.ok
  BY <1>1, <1>3, <1>7, <1>8 DEF OperatesWell, Settled
<1>9. CASE s.ok
  <2>1. PICK i \in InstallUnit(s, mode) : x \in StartedAgain(i, wasActive)
    BY <1>3, <1>9
  <2>2. /\ i \in Outcome /\ i.left <= o.left
        /\ \/ i.ok /\ i.unit = [s.unit EXCEPT !.file = mode, !.known = mode, !.enabled = TRUE]
           \/ ~i.ok /\ i.unit = s.unit
           \/ ~i.ok /\ i.unit = [s.unit EXCEPT !.file = "none", !.known = "none"]
           \/ ~i.ok /\ i.left < o.left - 1
    BY <1>7, <1>9, <2>1, InstallComes
  <2> DEFINE started == [i.unit EXCEPT !.active = "active", !.known = Definition(i.unit), !.runs = Definition(i.unit)]
  <2>3. /\ x \in Outcome /\ x.left <= i.left
        /\ x.unit = i.unit \/ (Definition(i.unit) # "none" /\ x.unit = started)
    <3>1. wasActive \in BOOLEAN
      BY DEF IsActive
    <3> HIDE DEF wasActive
    <3> QED
      BY <2>1, <2>2, <3>1, StartsAgain
  <2>4. s.unit \in Unit /\ i.unit \in Unit /\ i.left \in Nat /\ x.left \in Nat
    BY <1>7, <2>2, <2>3 DEF Outcome
  <2>5. x.left <= o.left
    BY <1>1, <2>2, <2>3, <2>4
  <2>6. /\ started.file = i.unit.file /\ started.known = Definition(i.unit)
        /\ started.runs = Definition(i.unit) /\ started.enabled = i.unit.enabled
    BY <2>4 DEF Unit
  <2> HIDE DEF started
  <2>7. ASSUME x.left >= o.left - 1 PROVE Settled(o.unit, x.unit)
    <3>1. CASE i.unit = [s.unit EXCEPT !.file = mode, !.known = mode, !.enabled = TRUE]
      <4>1. i.unit.file = mode /\ i.unit.known = mode /\ i.unit.enabled = TRUE /\ i.unit.active # "active"
        BY <1>7, <1>9, <2>4, <3>1 DEF Unit
      <4>2. Definition(i.unit) = mode
        BY <1>1, <4>1 DEF Definition
      <4> QED
        BY <1>1, <2>3, <2>6, <4>1, <4>2 DEF Settled
    <3>2. CASE i.unit = s.unit
      BY <1>7, <2>3, <2>6, <3>2 DEF Settled
    <3>3. CASE i.unit = [s.unit EXCEPT !.file = "none", !.known = "none"]
      <4>1. i.unit.file = "none" /\ i.unit.known = "none"
        BY <2>4, <3>3 DEF Unit
      <4>2. x.unit = i.unit
        BY <2>3, <4>1 DEF Definition
      <4> QED
        BY <4>1, <4>2 DEF Settled
    <3>4. CASE i.left < o.left - 1
      BY <1>1, <2>3, <2>4, <2>7, <3>4
    <3> QED
      BY <2>2, <3>1, <3>2, <3>3, <3>4
  <2> QED
    BY <2>3, <2>5, <2>7 DEF OperatesWell
<1> QED
  BY <1>8, <1>9

LEMMA RemoveComes ==
  ASSUME NEW o \in Outcome, o.ok, NEW x \in RemoveUnit(o)
  PROVE  OperatesWell(o, x)
<1> DEFINE absent(d) == {d} \cup (IF d.unit.file = "none" THEN {Retried(d)} ELSE {})
           disabled(s) == OrElse(DisableUnit(s), absent)
           ended == [o.unit EXCEPT !.active = IF @ = "failed" THEN "failed" ELSE "inactive", !.runs = "none"]
<1>1. o.unit \in Unit /\ o.left \in Nat
  BY DEF Outcome
<1>2. RemoveUnit(o) = AndThen(AndThen(AndThen(StopUnit(o), disabled), RemoveFile), Reload)
  BY DEF RemoveUnit
<1>3. PICK f : /\ f \in AndThen(AndThen(StopUnit(o), disabled), RemoveFile)
              /\ IF f.ok THEN x \in Reload(f) ELSE x = f
  BY <1>2 DEF AndThen
<1>4. PICK d : /\ d \in AndThen(StopUnit(o), disabled)
              /\ IF d.ok THEN f \in RemoveFile(d) ELSE f = d
  BY <1>3 DEF AndThen
<1>5. PICK s \in StopUnit(o) : IF s.ok THEN d \in disabled(s) ELSE d = s
  BY <1>4 DEF AndThen
<1>6. ended.file = o.unit.file /\ ended.runs = "none"
  BY <1>1 DEF Unit
<1>7. Came(o, o.unit.active # "inactive" \/ Definition(o.unit) # "none", ended, s)
  BY <1>5, CommandsCome
<1> HIDE DEF ended
<1>8. s \in Outcome /\ s.left <= o.left /\ s.unit.file = o.unit.file /\ (s.ok => s.unit.runs = "none")
  BY <1>1, <1>6, <1>7 DEF Came, Outcome
<1>9. d \in Outcome /\ d.left <= o.left /\ d.unit.file = o.unit.file /\ (d.ok => d.unit.runs = "none")
  <2>1. CASE ~s.ok
    BY <1>5, <1>8, <2>1
  <2>2. CASE s.ok
    <3>1. PICK e \in DisableUnit(s) : IF e.ok THEN d = e ELSE d \in absent(e)
      BY <1>5, <2>2 DEF OrElse
    <3> DEFINE off == [s.unit EXCEPT !.enabled = FALSE]
    <3>2. Came(s, s.unit.file # "none", off, e)
      BY <1>8, <2>2, <3>1, CommandsCome
    <3>3. s.unit \in Unit /\ s.left \in Nat
      BY <1>8 DEF Outcome
    <3>4. off.file = s.unit.file /\ off.runs = s.unit.runs
      BY <3>3 DEF Unit
    <3> HIDE DEF off
    <3>5. e \in Outcome /\ e.left <= s.left /\ e.unit.file = s.unit.file /\ e.unit.runs = s.unit.runs /\ e.left \in Nat
      BY <3>2, <3>3, <3>4 DEF Came, Outcome
    <3>6. d \in Outcome /\ d.unit = e.unit /\ d.left = e.left
      BY <3>1, <3>5, RetriedIs
    <3> QED
      BY <1>1, <1>8, <2>2, <3>3, <3>5, <3>6
  <2> QED
    BY <2>1, <2>2
<1>10. CASE ~d.ok
  <2>1. x = d
    BY <1>3, <1>4, <1>10
  <2> QED
    BY <1>9, <2>1 DEF OperatesWell, Settled
<1>11. CASE d.ok
  <2> DEFINE gone == [d.unit EXCEPT !.file = "none"]
  <2>1. Came(d, TRUE, gone, f)
    BY <1>4, <1>9, <1>11, CommandsCome
  <2>2. d.unit \in Unit /\ d.left \in Nat
    BY <1>9 DEF Outcome
  <2>3. CASE ~f.ok
    <3> HIDE DEF gone
    <3>1. x = f /\ f \in Outcome /\ f.unit = d.unit /\ f.left <= d.left /\ f.left \in Nat
      <4>1. x = f
        BY <1>3, <2>3, Zenon
      <4> QED
        BY <2>1, <2>2, <2>3, <4>1 DEF Came, Outcome
    <3> QED
      BY <1>1, <1>9, <2>2, <3>1 DEF OperatesWell, Settled
  <2>4. CASE f.ok
    <3>1. f \in Outcome /\ f.unit = [d.unit EXCEPT !.file = "none"] /\ f.left = d.left
      BY <2>1, <2>4 DEF Came, Outcome
    <3> DEFINE forgotten == [f.unit EXCEPT !.known = f.unit.file]
    <3>2. Came(f, TRUE, forgotten, x)
      BY <1>3, <2>4, <3>1, CommandsCome
    <3>3. f.unit.file = "none" /\ f.unit.runs = "none" /\ f.unit \in Unit
      BY <1>9, <1>11, <2>2, <3>1 DEF Unit
    <3>4. forgotten.file = "none" /\ forgotten.runs = "none"
      BY <3>3 DEF Unit
    <3> HIDE DEF forgotten
    <3>5. x \in Outcome /\ x.left \in Nat /\ f.left \in Nat
      BY <3>1, <3>2 DEF Came, Outcome
    <3>6. x.left <= f.left
      BY <3>2, <3>5 DEF Came
    <3>7. x.unit.file = "none" /\ x.unit.runs = "none"
      BY <3>2, <3>3, <3>4 DEF Came
    <3> QED
      BY <1>1, <1>9, <2>2, <3>1, <3>5, <3>6, <3>7 DEF OperatesWell, Settled
  <2> QED
    BY <2>3, <2>4
<1> QED
  BY <1>10, <1>11

-----------------------------------------------------------------------------
(* Lists on the screens. *)
LEMMA SeqIsList ==
  ASSUME NEW S, NEW s \in Seq(S)
  PROVE  IsList(s)
  BY DEF IsList

OptionText ==
  {"client", "server", "daemon", "add", "remove", "ok", "deleteInvalid", "startServer", "addClient", "manageClients",
   "deleteClient", "cancel", "reconfigureNow", "stopAndContinue", "retry", "startAnyway", "setupClient", "setupServer",
   "stop", "start", "disable", "enable", "reconfigureClient", "reconfigureServer", "delete"}

LEMMA KeptIsList ==
  ASSUME NEW S, NEW all \in Seq(S), NEW there
  PROVE  IsList(Kept(all, there))
<1> DEFINE places == {i \in DOMAIN all : all[i] \in there}
           nth(k) == CHOOSE i \in places : Cardinality({j \in places : j <= i}) = k
           n == Cardinality(places)
<1>1. n \in Nat
  <2>1. IsFiniteSet(1 .. Len(all))
    BY FS_Interval
  <2>2. places \subseteq 1 .. Len(all)
    OBVIOUS
  <2>3. IsFiniteSet(places)
    BY <2>1, <2>2, FS_Subset
  <2> QED
    BY <2>3, FS_CardinalityType
<1>2. Kept(all, there) = [k \in 1 .. n |-> all[nth(k)]]
  BY DEF Kept
<1> HIDE DEF places, nth, n
<1> DEFINE s == [k \in 1 .. n |-> all[nth(k)]]
<1>3. s \in Seq({all[nth(k)] : k \in 1 .. n})
  BY <1>1
<1>4. IsList(s)
  BY <1>3, SeqIsList
<1> QED
  BY <1>2, <1>4

LEMMA ListsOfFiles ==
  /\ \A files : IsList(Listed(files))
  /\ \A known : IsList(PeersListed(known))
  BY ConfiguratorAssumption, KeptIsList DEF Listed, PeersListed

LEMMA MenuIsList ==
  ASSUME NEW u
  PROVE  IsList(DaemonMenu(u))
<1>1. \A s, t \in Seq(OptionText) : s \o t \in Seq(OptionText)
  BY ConcatProperties
<1>2. /\ <<"setupClient", "setupServer">> \in Seq(OptionText)
      /\ <<"stop">> \in Seq(OptionText) /\ <<"start">> \in Seq(OptionText) /\ <<>> \in Seq(OptionText)
      /\ <<"disable">> \in Seq(OptionText) /\ <<"enable">> \in Seq(OptionText)
      /\ <<"reconfigureClient", "reconfigureServer", "delete">> \in Seq(OptionText)
  BY DEF OptionText
<1>3. DaemonMenu(u) \in Seq(OptionText)
  BY <1>1, <1>2, Zenon DEF DaemonMenu
<1> QED
  BY <1>3, SeqIsList

LEMMA ListNonEmpty ==
  ASSUME NEW s, IsList(s)
  PROVE  /\ DOMAIN s = 1 .. Len(s) /\ Len(s) \in Nat
         /\ s # <<>> => Len(s) - 1 \in Nat
         /\ s = <<>> <=> Len(s) = 0
  BY DEF IsList

LEMMA OptionsAreList ==
  ASSUME IsList(list)
  PROVE  IsList(Options)
<1>1. IsList(list \o <<"add">>) /\ IsList(list \o <<"remove", "add">>)
  <2> DEFINE T == {list[i] : i \in 1 .. Len(list)} \cup OptionText
  <2>1. list \in Seq(T)
    BY DEF IsList
  <2>2. <<"add">> \in Seq(T) /\ <<"remove", "add">> \in Seq(T)
    BY DEF OptionText
  <2> HIDE DEF T
  <2>3. list \o <<"add">> \in Seq(T) /\ list \o <<"remove", "add">> \in Seq(T)
    BY <2>1, <2>2, ConcatProperties
  <2> QED
    BY <2>3, SeqIsList
<1> DEFINE texts == {<<"client", "server", "daemon">>, <<"ok">>, <<"deleteInvalid", "ok">>,
                     <<"startServer", "addClient", "manageClients">>, <<"deleteClient", "cancel">>,
                     <<"reconfigureNow", "cancel">>, <<"stopAndContinue", "cancel">>,
                     <<"retry", "startAnyway", "cancel">>, <<>>}
<1>2. /\ <<"client", "server", "daemon">> \in Seq(OptionText) /\ <<"ok">> \in Seq(OptionText)
      /\ <<"deleteInvalid", "ok">> \in Seq(OptionText) /\ <<"startServer", "addClient", "manageClients">> \in Seq(OptionText)
      /\ <<"deleteClient", "cancel">> \in Seq(OptionText) /\ <<"reconfigureNow", "cancel">> \in Seq(OptionText)
      /\ <<"stopAndContinue", "cancel">> \in Seq(OptionText) /\ <<"retry", "startAnyway", "cancel">> \in Seq(OptionText)
      /\ <<>> \in Seq(OptionText)
  BY DEF OptionText
<1>3. \A s \in texts : IsList(s)
  BY <1>2, SeqIsList, Zenon
<1> HIDE DEF IsList
<1>4. Options \in texts \cup {list, list \o <<"add">>, list \o <<"remove", "add">>}
  BY DEF Options
<1> QED
  BY <1>1, <1>3, <1>4

-----------------------------------------------------------------------------
(* What handlers share keeps. *)
LEMMA ShowAtKeeps ==
  ASSUME NEW s \in Screen, NEW at \in Nat, NEW items, IsList(items), NEW thing \in [name : Config, row : Nat],
         ShowAt(s, at, items, thing),
         at = 0 \/ (s \in {"serverManage", "daemonManage"} /\ at + 1 \in DOMAIN items) \/ (s = "mode" /\ at = 2),
         s = "serverDeleteConfirm" => thing.row + 1 \in DOMAIN items
  PROVE  ShownInv' /\ tui' = "configure" /\ screen' = s
<1>1. /\ tui' = "configure" /\ screen' = s /\ cursor' = at /\ list' = items /\ about' = thing
  BY DEF ShowAt
<1>2. cursor' = 0 \/ cursor' + 1 \in DOMAIN Options'
  <2>1. CASE s \in {"serverManage", "daemonManage"}
    <3>1. Options' = items
      BY <1>1, <2>1 DEF Options
    <3> QED
      BY <1>1, <2>1, <3>1
  <2>2. CASE s = "mode" /\ at = 2
    <3>1. Options' = <<"client", "server", "daemon">>
      BY <1>1, <2>2 DEF Options
    <3> QED
      BY <1>1, <2>2, <3>1
  <2> QED
    BY <1>1, <2>1, <2>2
<1> QED
  BY <1>1, <1>2 DEF ShownInv, IsList

LEMMA ShowKeeps ==
  ASSUME NEW s \in Screen \ {"serverDeleteConfirm"}, NEW items, IsList(items), Show(s, items)
  PROVE  ShownInv' /\ tui' = "configure" /\ screen' = s
<1>1. Nothing \in [name : Config, row : Nat]
  BY DEF Nothing, Config
<1> QED
  BY <1>1, ShowAtKeeps DEF Show

LEMMA LeaveKeeps ==
  ASSUME NEW where \in {"start", "runtime", "ended"}, NEW how, Leave(where, how)
  PROVE  ShownInv' /\ tui' = where
  BY DEF Leave, ShownInv, Screen, Nothing, Config, IsList

LEMMA FinishKeeps ==
  ASSUME NEW how, Finish(how)
  PROVE  ShownInv' /\ tui' = "ended"
<1>1. Leave("ended", how)
  BY DEF Finish
<1> QED
  BY <1>1, LeaveKeeps

LEMMA ShownStays ==
  ASSUME ShownInv, UNCHANGED <<tui, screen, cursor, list, about>>
  PROVE  ShownInv'
<1>1. Options' = Options
  BY DEF Options
<1> QED
  BY <1>1 DEF ShownInv, IsList

LEMMA CostsKeep ==
  ASSUME surprises \in 0 .. MaxSurprises, NEW failed, Costs(failed)
  PROVE  surprises' \in 0 .. MaxSurprises
  BY ConfiguratorAssumption DEF Costs

(* Away from the questions nothing waits. *)
LEMMA NothingAsked ==
  ASSUME PendingInv, tui \in {"configure", "start"},
         tui = "configure" => screen \notin StartConfirmation \cup {"daemonReconfigureConfirm"}
  PROVE  question.mode = "none" /\ question.config = "none" /\ question.setup = "none"
  BY DEF PendingInv, Question, NoQuestion, Mode

LEMMA PendingStays ==
  ASSUME question \in Question, question.mode = "none", question.config = "none", question' = question,
         tui' # "start" \/ question = NoQuestion,
         tui' = "configure" => /\ screen' \notin StartConfirmation \cup {"daemonReconfigureConfirm"}
                               /\ question.setup = "none"
  PROVE  PendingInv'
  BY DEF PendingInv

LEMMA ClearedIs ==
  ASSUME question \in Question
  PROVE  /\ Cleared \in Question /\ Cleared.mode = "none" /\ Cleared.config = "none"
         /\ Cleared.setup = question.setup
  BY DEF Question, Cleared, Config

LEMMA RefreshKeeps ==
  ASSUME ScreenInv, NEW s \in {"daemonManage", "mode"}, NEW at \in Nat, RefreshDaemonStatus(s, at),
         at = IF s = "mode" THEN 2 ELSE 0
  PROVE  ShownInv' /\ tui' = "configure" /\ screen' = s /\ surprises' \in 0 .. MaxSurprises
<1>1. PICK failed \in BOOLEAN : /\ Costs(failed)
                               /\ ShowAt(s, at, IF failed \/ s = "mode" THEN <<>> ELSE DaemonMenu(unit), Nothing)
  BY DEF RefreshDaemonStatus
<1>2. Nothing \in [name : Config, row : Nat] /\ s \in Screen
  BY DEF Nothing, Config, Screen
<1>3. IsList(IF failed \/ s = "mode" THEN <<>> ELSE DaemonMenu(unit))
  <2>1. IsList(<<>>)
    BY DEF IsList
  <2> QED
    BY <2>1, MenuIsList
<1> QED
  BY <1>1, <1>2, <1>3, ShowAtKeeps, CostsKeep DEF ScreenInv, UnitInv

LEMMA ReloadKeeps ==
  ASSUME ScreenInv, NEW files, ReloadClientConfigs(files)
  PROVE  ShownInv' /\ (tui' = "ended" \/ (tui' = "configure" /\ screen' = "clientSelect"))
         /\ surprises' \in 0 .. MaxSurprises
<1>1. surprises \in 0 .. MaxSurprises
  BY DEF ScreenInv, UnitInv
<1>2. CASE Costs(FALSE) /\ Show("clientSelect", Listed(files))
  <2>1. IsList(Listed(files)) /\ "clientSelect" \in Screen
    BY ListsOfFiles DEF Screen
  <2> QED
    BY <1>1, <1>2, <2>1, ShowKeeps, CostsKeep
<1>3. CASE Costs(TRUE) /\ Finish("error")
  <2>1. ShownInv' /\ tui' = "ended"
    BY <1>3, FinishKeeps
  <2>2. surprises' \in 0 .. MaxSurprises
    BY <1>1, <1>3, CostsKeep
  <2> QED
    BY <2>1, <2>2
<1> QED
  BY <1>2, <1>3 DEF ReloadClientConfigs

LEMMA GuardKeeps ==
  ASSUME ScreenInv, NEW mode \in Mode, NEW back \in {"mode", "clientSelect", "serverSelect"}, NEW config \in Config,
         NEW remember \in BOOLEAN, NEW items, IsList(items),
         StartModeWithDaemonGuard(mode, back, config, remember, items),
         mode = "client" <=> config # "none", config # "none" => activeConf'.name = config,
         question.setup = "none"
  PROVE  ShownInv' /\ PendingInv' /\ preferences' \in Preference /\ surprises' \in 0 .. MaxSurprises
<1>1. PICK answer \in {"error", IF IsActive(unit) THEN "active" ELSE "idle"} :
        /\ Costs(answer = "error")
        /\ IF answer = "idle"
             THEN /\ Leave("runtime", mode)
                  /\ question' = Cleared
                  /\ preferences' = IF remember THEN [preferences EXCEPT !.config = config] ELSE preferences
             ELSE /\ Show(IF answer = "active" THEN "daemonActiveConfirm" ELSE "daemonCheckErrorConfirm", items)
                  /\ question' = [question EXCEPT !.mode = mode, !.back = back, !.config = config]
                  /\ preferences' = preferences
  BY DEF StartModeWithDaemonGuard
<1>2. surprises' \in 0 .. MaxSurprises
  BY <1>1, CostsKeep DEF ScreenInv, UnitInv
<1>3. question \in Question /\ preferences \in Preference
  BY DEF ScreenInv, UnitInv, PendingInv
<1>4. CASE answer = "idle"
  <2>1. ShownInv' /\ tui' = "runtime"
    BY <1>1, <1>4, LeaveKeeps
  <2>2. PendingInv'
    BY <1>1, <1>3, <1>4, <2>1, ClearedIs DEF PendingInv, Mode
  <2>3. preferences' \in Preference
    BY <1>1, <1>3, <1>4 DEF Preference
  <2> QED
    BY <1>2, <2>1, <2>2, <2>3
<1>5. CASE answer # "idle"
  <2>1. ShownInv' /\ tui' = "configure" /\ screen' \in StartConfirmation
    BY <1>1, <1>5, ShowKeeps DEF Screen, StartConfirmation
  <2>2. /\ question' \in Question /\ question'.mode = mode /\ question'.config = config
        /\ question'.setup = "none"
    BY <1>1, <1>3, <1>5 DEF Question
  <2>3. PendingInv'
    BY <2>1, <2>2 DEF PendingInv, Mode, StartConfirmation
  <2> QED
    BY <1>1, <1>2, <1>3, <1>5, <2>1, <2>3
<1> QED
  BY <1>4, <1>5

-----------------------------------------------------------------------------
(* The steps. *)
LEMMA InterfaceStarts ==
  ASSUME ConfiguratorInit
  PROVE  ScreenInv
<1>1. /\ tui = "start" /\ screen = "mode" /\ cursor = 0 /\ list = <<>> /\ about = Nothing
      /\ question = NoQuestion /\ surprises = 0
      /\ preferences \in {[mode |-> "none", auto |-> FALSE, config |-> "none"]}
           \cup [mode : {"client"}, auto : {TRUE}, config : {NameOrder[1]}]
      /\ unit \in {NoUnit, [file |-> "client", known |-> "client", runs |-> "client",
                            enabled |-> TRUE, active |-> "active"]}
  BY DEF ConfiguratorInit
<1>2. ShownInv
  BY <1>1 DEF ShownInv, Screen, Nothing, Config, IsList
<1>3. PendingInv
  BY <1>1 DEF PendingInv, NoQuestion, Question, Config
<1>4. NameOrder[1] \in Name
  BY ConfiguratorAssumption DEF Name
<1>5. preferences \in Preference
  <2>1. CASE preferences = [mode |-> "none", auto |-> FALSE, config |-> "none"]
    BY <2>1 DEF Preference, Config
  <2>2. CASE preferences \in [mode : {"client"}, auto : {TRUE}, config : {NameOrder[1]}]
    BY <1>4, <2>2 DEF Preference, Config, Mode
  <2> QED
    BY <1>1, <2>1, <2>2
<1>6. unit \in Unit
  <2>1. NoUnit \in Unit
    BY DEF Unit, NoUnit, Mode, ActiveState
  <2>2. [file |-> "client", known |-> "client", runs |-> "client", enabled |-> TRUE, active |-> "active"] \in Unit
    BY DEF Unit, Mode, ActiveState
  <2> QED
    BY <1>1, <2>1, <2>2
<1> QED
  BY <1>1, <1>2, <1>3, <1>5, <1>6, ConfiguratorAssumption DEF ScreenInv, UnitInv

LEMMA NewConfiguratorKeeps ==
  ASSUME ScreenInv, NewConfigurator \/ NewConfiguratorConnects
  PROVE  ScreenInv'
<1>1. /\ tui = "start" /\ question = NoQuestion /\ unit' = unit /\ unit \in Unit
      /\ surprises \in 0 .. MaxSurprises /\ preferences \in Preference
  BY DEF NewConfigurator, NewConfiguratorConnects, ScreenInv, PendingInv, UnitInv, world
<1>2. question \in Question /\ question.mode = "none" /\ question.config = "none" /\ question.setup = "none"
  BY <1>1 DEF NoQuestion, Question, Config
<1>3. CASE NewConfigurator
  <2>1. question' = question /\ preferences' \in Preference
    BY <1>1, <1>3 DEF NewConfigurator, Preference, Config
  <2>2. CASE preferences.mode = "client"
    <3>1. ReloadClientConfigs(disk)
      BY <1>3, <2>2 DEF NewConfigurator
    <3>2. ShownInv' /\ surprises' \in 0 .. MaxSurprises /\ (tui' = "ended" \/ (tui' = "configure" /\ screen' = "clientSelect"))
      BY <3>1, ReloadKeeps
    <3>3. PendingInv'
      BY <1>2, <2>1, <3>2, PendingStays DEF StartConfirmation
    <3> QED
      BY <1>1, <2>1, <3>2, <3>3 DEF ScreenInv, UnitInv
  <2>3. CASE preferences.mode # "client"
    <3>1. \E s \in {"serverSelect", "mode"} : Show(s, <<>>)
      BY <1>3, <2>3 DEF NewConfigurator
    <3>2. surprises' = surprises
      BY <1>3, <2>3 DEF NewConfigurator
    <3>3. ShownInv' /\ tui' = "configure" /\ screen' \in {"serverSelect", "mode"}
      <4>1. IsList(<<>>)
        BY DEF IsList
      <4> QED
        BY <3>1, <4>1, ShowKeeps DEF Screen
    <3>4. PendingInv'
      BY <1>2, <2>1, <3>3, PendingStays DEF StartConfirmation
    <3> QED
      BY <1>1, <2>1, <3>2, <3>3, <3>4 DEF ScreenInv, UnitInv
  <2> QED
    BY <2>2, <2>3
<1>4. CASE NewConfiguratorConnects
  <2>0. PICK n \in Name : \E result \in UseResults(n) :
          /\ ConnectsTo(n)
          /\ UseConfiguration(n, result)
          /\ IF result = "valid"
               THEN StartModeWithDaemonGuard("client", "clientSelect", n, FALSE, Listed(disk))
               ELSE /\ Costs(Surprise(n, result))
                    /\ IF result = "invalid"
                         THEN ShowAt("clientInvalid", 0, Listed(disk), [Nothing EXCEPT !.name = n])
                         ELSE Show("clientSelect", Listed(disk))
                    /\ UNCHANGED <<question, preferences>>
    BY <1>4 DEF NewConfiguratorConnects
  <2>1. PICK result \in UseResults(n) :
          /\ ConnectsTo(n)
          /\ UseConfiguration(n, result)
          /\ IF result = "valid"
               THEN StartModeWithDaemonGuard("client", "clientSelect", n, FALSE, Listed(disk))
               ELSE /\ Costs(Surprise(n, result))
                    /\ IF result = "invalid"
                         THEN ShowAt("clientInvalid", 0, Listed(disk), [Nothing EXCEPT !.name = n])
                         ELSE Show("clientSelect", Listed(disk))
                    /\ UNCHANGED <<question, preferences>>
    BY <2>0
  <2>2. n # "none" /\ n \in Config
    BY ConfiguratorAssumption DEF Config
  <2>3. IsList(Listed(disk))
    BY ListsOfFiles
  <2>4. CASE result = "valid"
    <3>1. activeConf'.name = n
      BY <2>1, <2>4 DEF UseConfiguration
    <3>2. StartModeWithDaemonGuard("client", "clientSelect", n, FALSE, Listed(disk))
      BY <2>1, <2>4
    <3>3. ShownInv' /\ PendingInv' /\ preferences' \in Preference /\ surprises' \in 0 .. MaxSurprises
      BY <1>2, <2>2, <2>3, <3>1, <3>2, GuardKeeps DEF Mode
    <3> QED
      BY <1>1, <3>3 DEF ScreenInv, UnitInv
  <2>5. CASE result # "valid"
    <3>1. surprises' \in 0 .. MaxSurprises /\ question' = question /\ preferences' = preferences
      BY <1>1, <2>1, <2>5, CostsKeep
    <3>2. \E s \in {"clientInvalid", "clientSelect"}, thing \in [name : Config, row : Nat] :
            ShowAt(s, 0, Listed(disk), thing)
      BY <2>1, <2>2, <2>5 DEF Show, Nothing, Config
    <3>3. ShownInv' /\ tui' = "configure" /\ screen' \in {"clientInvalid", "clientSelect"}
      BY <2>3, <3>2, ShowAtKeeps DEF Screen
    <3>4. PendingInv'
      BY <1>2, <3>1, <3>3, PendingStays DEF StartConfirmation
    <3> QED
      BY <1>1, <3>1, <3>3, <3>4 DEF ScreenInv, UnitInv
  <2> QED
    BY <2>4, <2>5
<1> QED
  BY <1>3, <1>4

(* A screen that asks nothing goes to one that asks nothing. *)
Asking == StartConfirmation \cup {"daemonReconfigureConfirm"}

LEMMA NothingIsAsked ==
  ASSUME ScreenInv, tui = "configure", screen \notin Asking, question' = question,
         ShownInv', tui' = "ended" \/ (tui' = "configure" /\ screen' \notin Asking), UnitInv'
  PROVE  ScreenInv'
<1>1. question.mode = "none" /\ question.config = "none" /\ question.setup = "none" /\ question \in Question
  BY NothingAsked DEF ScreenInv, Asking, PendingInv
<1>2. PendingInv'
  BY <1>1, PendingStays DEF Asking
<1> QED
  BY <1>2 DEF ScreenInv

LEMMA ScreenStays ==
  ASSUME ScreenInv, UNCHANGED <<tui, screen, cursor, list, about, question, activeConf>>, UnitInv'
  PROVE  ScreenInv'
<1>1. ShownInv'
  BY ShownStays DEF ScreenInv
<1>2. PendingInv'
  BY DEF ScreenInv, PendingInv
<1> QED
  BY <1>1, <1>2 DEF ScreenInv

LEMMA UnitStays ==
  ASSUME ScreenInv, UNCHANGED <<unit, preferences>>, surprises' \in 0 .. MaxSurprises
  PROVE  UnitInv'
  BY DEF ScreenInv, UnitInv

LEMMA RefusedKeeps ==
  ASSUME ScreenInv, NEW how, Finish(how), UNCHANGED question, UNCHANGED activeConf, UnitInv'
  PROVE  ScreenInv'
<1>1. ShownInv' /\ tui' = "ended"
  BY FinishKeeps
<1>2. /\ question \in Question
      /\ question.mode = "client" <=> question.config # "none"
      /\ question.config # "none" => activeConf'.name = question.config
  BY DEF ScreenInv, PendingInv
<1> QED
  BY <1>1, <1>2 DEF ScreenInv, PendingInv

LEMMA ForgetSetupKeeps ==
  ASSUME ScreenInv, tui = "configure", screen = "daemonReconfigureConfirm", ForgetSetup, UNCHANGED activeConf, UnitInv'
  PROVE  ScreenInv'
<1>1. IsList(list) /\ question \in Question /\ question.mode = "none" /\ question.config = "none"
  BY DEF ScreenInv, ShownInv, PendingInv, StartConfirmation, Question, Mode
<1>2. ShownInv' /\ tui' = "configure" /\ screen' = "daemonManage"
  BY <1>1, ShowKeeps DEF ForgetSetup, Screen
<1>3. /\ question' \in Question /\ question'.mode = "none" /\ question'.config = "none" /\ question'.setup = "none"
  BY <1>1 DEF ForgetSetup, Question
<1> QED
  BY <1>2, <1>3 DEF ScreenInv, PendingInv, StartConfirmation

LEMMA CancelKeeps ==
  ASSUME ScreenInv, tui = "configure", screen \in StartConfirmation, CancelPendingStart, UnitInv'
  PROVE  ScreenInv'
<1>1. /\ IsList(list) /\ question \in Question /\ question.setup = "none"
      /\ question.back \in {"mode", "clientSelect", "serverSelect"}
  BY DEF ScreenInv, ShownInv, PendingInv, StartConfirmation, Question, Mode
<1>2. ShownInv' /\ tui' = "configure" /\ screen' \in {"mode", "clientSelect", "serverSelect"}
  BY <1>1, ShowKeeps DEF CancelPendingStart, Screen
<1>3. /\ question' \in Question /\ question'.mode = "none" /\ question'.config = "none" /\ question'.setup = "none"
  BY <1>1, ClearedIs DEF CancelPendingStart
<1> QED
  BY <1>2, <1>3 DEF ScreenInv, PendingInv, StartConfirmation

LEMMA BackToPeersKeeps ==
  ASSUME NEW row \in Nat, NEW items, IsList(items), items # <<>>,
         ShowAt("serverManage", Least(row, Len(items) - 1), items, Nothing)
  PROVE  ShownInv' /\ tui' = "configure" /\ screen' = "serverManage"
<1> DEFINE at == Least(row, Len(items) - 1)
<1>1. Len(items) - 1 \in Nat /\ DOMAIN items = 1 .. Len(items)
  BY ListNonEmpty
<1>2. at \in Nat /\ at + 1 \in DOMAIN items
  BY <1>1 DEF Least
<1>3. Nothing \in [name : Config, row : Nat]
  BY DEF Nothing, Config
<1> HIDE DEF at
<1>4. ShowAt("serverManage", at, items, Nothing)
  BY DEF at
<1> QED
  BY <1>2, <1>3, <1>4, ShowAtKeeps DEF Screen

LEMMA EscKeeps ==
  ASSUME ScreenInv, Esc
  PROVE  ScreenInv'
<1>1. /\ tui = "configure" /\ surprises \in 0 .. MaxSurprises /\ UNCHANGED <<preferences, world, surprises>>
      /\ question \in Question /\ IsList(list) /\ IsList(<<>>)
      /\ about.row \in Nat
      /\ screen = "serverDeleteConfirm" => about.row + 1 \in DOMAIN list
  BY DEF Esc, ScreenInv, UnitInv, PendingInv, ShownInv, IsList
<1>2. UnitInv'
  BY <1>1, UnitStays DEF world
<1>3. CASE Back /\ question' = question
  <2>1. CASE screen = "mode"
    <3>1. Finish("exit")
      BY <1>3, <2>1 DEF Back
    <3> QED
      BY <1>1, <1>2, <1>3, <3>1, RefusedKeeps DEF world
  <2>2. CASE screen = "serverDeleteConfirm"
    <3>1. list # <<>>
      BY <1>1, <2>2
    <3>2. ShowAt("serverManage", Least(about.row, Len(list) - 1), list, Nothing)
      BY <1>3, <2>2 DEF Back, BackToPeers
    <3>3. ShownInv' /\ tui' = "configure" /\ screen' = "serverManage"
      BY <1>1, <3>1, <3>2, BackToPeersKeeps
    <3> QED
      BY <1>1, <1>2, <1>3, <2>2, <3>3, NothingIsAsked DEF Asking, StartConfirmation
  <2>3. CASE screen \notin {"mode", "serverDeleteConfirm"}
    <3>1. /\ screen \in {"clientSelect", "serverSelect", "clientRemove", "clientAddName", "clientInvalid",
                         "clientAddJSON", "serverManage"}
          /\ \E s \in {"mode", "clientSelect", "clientAddName", "serverSelect"}, items \in {<<>>, list} : Show(s, items)
      BY <1>3, <2>3 DEF Back
    <3>2. ShownInv' /\ tui' = "configure" /\ screen' \in {"mode", "clientSelect", "clientAddName", "serverSelect"}
      BY <1>1, <3>1, ShowKeeps DEF Screen
    <3> QED
      BY <1>1, <1>2, <1>3, <3>1, <3>2, NothingIsAsked DEF Asking, StartConfirmation
  <2> QED
    BY <2>1, <2>2, <2>3
<1>4. CASE screen = "daemonReconfigureConfirm" /\ ForgetSetup
  BY <1>1, <1>2, <1>4, ForgetSetupKeeps DEF world
<1>5. CASE screen \in StartConfirmation /\ CancelPendingStart
  BY <1>1, <1>2, <1>5, CancelKeeps
<1> QED
  BY <1>3, <1>4, <1>5 DEF Esc

LEMMA ModesFollow ==
  ASSUME NEW mode \in Mode \cup {"none"}, NEW step \in {-1, 1}
  PROVE  NextMode(mode, step) \in Mode \cup {"none"}
<1> DEFINE order == <<"none", "client", "server">>
           at == CHOOSE i \in 1 .. 3 : order[i] = mode
<1>1. at \in 1 .. 3
  BY DEF Mode
<1>2. NextMode(mode, step) = order[((at + step + 2) % 3) + 1]
  BY DEF NextMode
<1> HIDE DEF at
<1>3. ((at + step + 2) % 3) + 1 \in 1 .. 3
  BY <1>1
<1>4. \A i \in 1 .. 3 : order[i] \in Mode \cup {"none"}
  BY DEF Mode
<1> HIDE DEF order
<1> QED
  BY <1>2, <1>3, <1>4

LEMMA KeysKeep ==
  ASSUME ScreenInv, Move \/ Quit \/ UpdateSettings
  PROVE  ScreenInv'
<1>1. unit \in Unit /\ surprises \in 0 .. MaxSurprises /\ preferences \in Preference /\ IsList(list)
  BY DEF ScreenInv, UnitInv, ShownInv
<1>2. CASE Move
  <2>1. /\ UNCHANGED <<tui, screen, list, about, question, activeConf>> /\ tui = "configure"
        /\ cursor' \in 0 .. Len(Options) - 1
    BY <1>2 DEF Move, world
  <2>2. Options' = Options
    BY <2>1 DEF Options
  <2>3. DOMAIN Options = 1 .. Len(Options) /\ Len(Options) \in Nat
    BY <1>1, OptionsAreList, ListNonEmpty
  <2>4. cursor' \in Nat /\ cursor' + 1 \in DOMAIN Options'
    <3>1. \A n \in Nat : \A c \in 0 .. n - 1 : c \in Nat /\ c + 1 \in 1 .. n
      OBVIOUS
    <3>2. cursor' \in Nat /\ cursor' + 1 \in 1 .. Len(Options)
      BY <2>1, <2>3, <3>1
    <3> QED
      BY <2>2, <2>3, <3>2
  <2>5. ShownInv'
    BY <2>1, <2>4 DEF ScreenInv, ShownInv, IsList
  <2>6. PendingInv'
    BY <2>1 DEF ScreenInv, PendingInv
  <2> QED
    BY <1>1, <1>2, <2>5, <2>6 DEF Move, world, ScreenInv, UnitInv
<1>3. CASE Quit
  <2>1. UNCHANGED <<question, preferences, activeConf, unit, surprises>> /\ Finish("exit")
    BY <1>3 DEF Quit, world
  <2> QED
    BY <1>1, <2>1, UnitStays, RefusedKeeps
<1>4. CASE UpdateSettings
  <2>1. /\ UNCHANGED <<tui, screen, cursor, list, about, question, activeConf, unit, surprises>>
        /\ \E i \in DOMAIN SettingsRows(preferences), step \in {-1, 1} :
             preferences' = ApplySettingsChange(preferences, SettingsRows(preferences)[i], step)
    BY <1>4 DEF UpdateSettings, shown, world
  <2>2. preferences' \in Preference
    <3>1. PICK i \in DOMAIN SettingsRows(preferences), step \in {-1, 1} :
            preferences' = ApplySettingsChange(preferences, SettingsRows(preferences)[i], step)
      BY <2>1
    <3>2. NextMode(preferences.mode, step) \in Mode \cup {"none"}
      BY <1>1, ModesFollow DEF Preference
    <3> QED
      BY <1>1, <3>1, <3>2 DEF ApplySettingsChange, Preference
  <2> QED
    BY <1>1, <2>1, <2>2, ScreenStays DEF UnitInv
<1> QED
  BY <1>2, <1>3, <1>4

-----------------------------------------------------------------------------
(* The screens of the client. *)
LEMMA ListsKeep ==
  ASSUME ScreenInv, tui = "configure", screen \notin Asking, UNCHANGED <<question, preferences, unit>>,
         NEW files, ReloadClientConfigs(files)
  PROVE  ScreenInv'
<1>1. /\ ShownInv' /\ surprises' \in 0 .. MaxSurprises
      /\ tui' = "ended" \/ (tui' = "configure" /\ screen' = "clientSelect")
  BY ReloadKeeps
<1>2. UnitInv'
  BY <1>1, UnitStays
<1> QED
  BY <1>1, <1>2, NothingIsAsked DEF Asking, StartConfirmation

(* From a screen that asks nothing to one that asks nothing. *)
LEMMA GoesTo ==
  ASSUME ScreenInv, tui = "configure", screen \notin Asking, UNCHANGED <<question, preferences, unit>>,
         surprises' \in 0 .. MaxSurprises,
         NEW s \in Screen \ (Asking \cup {"serverDeleteConfirm"}), NEW items, IsList(items),
         NEW thing \in [name : Config, row : Nat], ShowAt(s, 0, items, thing)
  PROVE  ScreenInv'
<1>1. ShownInv' /\ tui' = "configure" /\ screen' = s
  BY ShowAtKeeps
<1>2. UnitInv'
  BY UnitStays
<1> QED
  BY <1>1, <1>2, NothingIsAsked

LEMMA Shows ==
  ASSUME ScreenInv, tui = "configure", screen \notin Asking, UNCHANGED <<question, preferences, unit>>,
         surprises' \in 0 .. MaxSurprises,
         NEW s \in Screen \ (Asking \cup {"serverDeleteConfirm"}), NEW items, IsList(items), Show(s, items)
  PROVE  ScreenInv'
<1>1. Nothing \in [name : Config, row : Nat]
  BY DEF Nothing, Config
<1> QED
  BY <1>1, GoesTo DEF Show

(* A failed call may end the interface. *)
LEMMA Ends ==
  ASSUME ScreenInv, tui = "configure", screen \notin Asking, UNCHANGED <<question, preferences, unit>>,
         surprises' \in 0 .. MaxSurprises, NEW how, Finish(how)
  PROVE  ScreenInv'
<1>1. ShownInv' /\ tui' = "ended"
  BY FinishKeeps
<1>2. UnitInv'
  BY UnitStays
<1> QED
  BY <1>1, <1>2, NothingIsAsked

LEMMA ScreensHave ==
  ASSUME ScreenInv
  PROVE  /\ IsList(list) /\ IsList(<<>>) /\ surprises \in 0 .. MaxSurprises
         /\ cursor \in Nat /\ about.row \in Nat /\ about.name \in Config
         /\ question \in Question /\ preferences \in Preference /\ unit \in Unit
  BY DEF ScreenInv, ShownInv, UnitInv, PendingInv, IsList

LEMMA ChooseKeeps ==
  ASSUME ScreenInv, ChooseMode \/ ChooseAddOrRemove \/ AcceptInvalid \/ EnterName
  PROVE  ScreenInv'
<1> USE ScreensHave
<1>1. CASE ChooseMode
  <2>1. /\ tui = "configure" /\ screen \notin Asking /\ UNCHANGED <<question, preferences, unit>>
        /\ \/ ReloadClientConfigs(disk)
           \/ Show("serverSelect", <<>>) /\ surprises' = surprises
           \/ RefreshDaemonStatus("daemonManage", 0)
    BY <1>1 DEF ChooseMode, Enter, On, world, Asking, StartConfirmation
  <2>2. CASE ReloadClientConfigs(disk)
    BY <2>1, <2>2, ListsKeep
  <2>3. CASE Show("serverSelect", <<>>) /\ surprises' = surprises
    BY <2>1, <2>3, Shows DEF Screen, Asking, StartConfirmation
  <2>4. CASE RefreshDaemonStatus("daemonManage", 0)
    <3>1. ShownInv' /\ tui' = "configure" /\ screen' = "daemonManage" /\ surprises' \in 0 .. MaxSurprises
      BY <2>4, RefreshKeeps
    <3> QED
      BY <2>1, <3>1, UnitStays, NothingIsAsked DEF Asking, StartConfirmation
  <2> QED
    BY <2>1, <2>2, <2>3, <2>4
<1>2. CASE ChooseAddOrRemove \/ AcceptInvalid
  <2>1. /\ tui = "configure" /\ screen \notin Asking /\ UNCHANGED <<question, preferences, unit, surprises>>
        /\ \E s \in {"clientRemove", "clientAddName", "clientSelect"} : Show(s, list)
    BY <1>2 DEF ChooseAddOrRemove, AcceptInvalid, Enter, On, world, Asking, StartConfirmation
  <2> QED
    BY <2>1, Shows DEF Screen, Asking, StartConfirmation
<1>3. CASE EnterName
  <2>1. PICK n \in Name : ShowAt("clientAddJSON", 0, list, [Nothing EXCEPT !.name = n])
    BY <1>3 DEF EnterName
  <2>2. /\ tui = "configure" /\ screen \notin Asking /\ UNCHANGED <<question, preferences, unit, surprises>>
    BY <1>3 DEF EnterName, On, world, Asking, StartConfirmation
  <2>3. [Nothing EXCEPT !.name = n] \in [name : Config, row : Nat]
    BY DEF Nothing, Config
  <2> QED
    BY <2>1, <2>2, <2>3, GoesTo DEF Screen, Asking, StartConfirmation
<1> QED
  BY <1>1, <1>2, <1>3

LEMMA SelectKeeps ==
  ASSUME ScreenInv, SelectClient
  PROVE  ScreenInv'
<1> USE ScreensHave
<1>1. /\ tui = "configure" /\ screen = "clientSelect" /\ screen \notin Asking /\ unit' = unit
  BY DEF SelectClient, Enter, On, Asking, StartConfirmation
<1>2. PICK n \in Name : \E result \in UseResults(n) :
        /\ UseConfiguration(n, result)
        /\ IF result = "valid" THEN StartModeWithDaemonGuard("client", "clientSelect", n, TRUE, list)
           ELSE /\ Costs(Surprise(n, result))
                /\ IF result = "invalid"
                     THEN ShowAt("clientInvalid", 0, list, [Nothing EXCEPT !.name = n])
                     ELSE Finish("error")
                /\ UNCHANGED <<question, preferences>>
  BY DEF SelectClient
<1>3. PICK result \in UseResults(n) :
        /\ UseConfiguration(n, result)
        /\ IF result = "valid" THEN StartModeWithDaemonGuard("client", "clientSelect", n, TRUE, list)
           ELSE /\ Costs(Surprise(n, result))
                /\ IF result = "invalid"
                     THEN ShowAt("clientInvalid", 0, list, [Nothing EXCEPT !.name = n])
                     ELSE Finish("error")
                /\ UNCHANGED <<question, preferences>>
  BY <1>2
<1>4. n # "none" /\ n \in Config
  BY ConfiguratorAssumption DEF Config
<1>5. CASE result = "valid"
  <2>1. activeConf'.name = n
    BY <1>3, <1>5 DEF UseConfiguration
  <2>2. StartModeWithDaemonGuard("client", "clientSelect", n, TRUE, list)
    BY <1>3, <1>5
  <2>3. question.setup = "none"
    BY <1>1, NothingAsked DEF ScreenInv, Asking
  <2>4. ShownInv' /\ PendingInv' /\ preferences' \in Preference /\ surprises' \in 0 .. MaxSurprises
    BY <1>4, <2>1, <2>2, <2>3, GuardKeeps DEF Mode
  <2> QED
    BY <1>1, <2>4 DEF ScreenInv, UnitInv
<1>6. CASE result # "valid"
  <2>1. surprises' \in 0 .. MaxSurprises /\ UNCHANGED <<question, preferences>>
    BY <1>3, <1>6, CostsKeep
  <2>2. CASE result = "invalid"
    <3>1. ShowAt("clientInvalid", 0, list, [Nothing EXCEPT !.name = n])
      BY <1>3, <1>6, <2>2
    <3>2. [Nothing EXCEPT !.name = n] \in [name : Config, row : Nat]
      BY <1>4 DEF Nothing
    <3> QED
      BY <1>1, <2>1, <3>1, <3>2, GoesTo DEF Screen, Asking, StartConfirmation
  <2>3. CASE result # "invalid"
    <3>1. Finish("error")
      BY <1>3, <1>6, <2>3
    <3> QED
      BY <1>1, <2>1, <3>1, Ends
  <2> QED
    BY <2>2, <2>3
<1> QED
  BY <1>5, <1>6

LEMMA FilesKeep ==
  ASSUME ScreenInv, RemoveClient \/ CreateFromJSON
  PROVE  ScreenInv'
<1> USE ScreensHave
<1>1. /\ tui = "configure" /\ screen \notin Asking /\ UNCHANGED <<question, preferences, unit>>
  BY DEF RemoveClient, CreateFromJSON, Enter, On, Asking, StartConfirmation
<1>2. \/ ReloadClientConfigs(disk')
      \/ \E failed : Costs(failed) /\ (Finish("error") \/ Show("clientInvalid", list))
  <2>1. CASE RemoveClient
    <3>1. \E n : DeleteConfiguration(n)
      BY <2>1 DEF RemoveClient
    <3> QED
      BY <3>1 DEF DeleteConfiguration
  <2>2. CASE CreateFromJSON
    BY <2>2 DEF CreateFromJSON
  <2> QED
    BY <2>1, <2>2
<1>3. CASE ReloadClientConfigs(disk')
  BY <1>1, <1>3, ListsKeep
<1>4. CASE \E failed : Costs(failed) /\ (Finish("error") \/ Show("clientInvalid", list))
  <2>1. surprises' \in 0 .. MaxSurprises
    BY <1>4, CostsKeep
  <2>2. CASE Finish("error")
    BY <1>1, <2>1, <2>2, Ends
  <2>3. CASE Show("clientInvalid", list)
    BY <1>1, <2>1, <2>3, Shows DEF Screen, Asking, StartConfirmation
  <2> QED
    BY <1>4, <2>2, <2>3
<1> QED
  BY <1>2, <1>3, <1>4

LEMMA TypingKeeps ==
  ASSUME ScreenInv, TypeJSON \/ DebouncePasses \/ UnitMoves \/ FilesMove
  PROVE  ScreenInv'
<1> USE ScreensHave
<1>1. UNCHANGED <<tui, screen, cursor, list, about, question, preferences, activeConf>>
  BY DEF TypeJSON, DebouncePasses, UnitMoves, FilesMove, shown, world
<1>2. surprises' \in 0 .. MaxSurprises
  <2>1. CASE TypeJSON \/ DebouncePasses
    BY <2>1 DEF TypeJSON, DebouncePasses
  <2>2. CASE UnitMoves \/ FilesMove
    <3>1. Costs(TRUE)
      BY <2>2 DEF UnitMoves, FilesMove
    <3> QED
      BY <3>1, CostsKeep
  <2> QED
    BY <2>1, <2>2
<1>3. unit' \in Unit
  <2>1. CASE UnitMoves
    <3>1. PICK next \in ActiveState :
            unit' = [unit EXCEPT !.active = next, !.known = IF next = "active" THEN Definition(unit) ELSE @,
                                 !.runs = IF next = "active" THEN Definition(unit) ELSE "none"]
      BY <2>1 DEF UnitMoves
    <3>2. Definition(unit) \in Mode \cup {"none"}
      BY DEF Definition, Unit
    <3> QED
      BY <3>1, <3>2 DEF Unit
  <2>2. CASE ~UnitMoves
    BY <2>2 DEF TypeJSON, DebouncePasses, FilesMove, world
  <2> QED
    BY <2>1, <2>2
<1> QED
  BY <1>1, <1>2, <1>3, ScreenStays DEF UnitInv

-----------------------------------------------------------------------------
(* The screens of the server. *)
LEMMA PeersKeep ==
  ASSUME ScreenInv, tui = "configure", screen \notin Asking, UNCHANGED <<question, preferences, unit>>,
         NEW known, NEW row \in Nat, ListPeers(known, row)
  PROVE  ScreenInv'
<1> USE ScreensHave
<1> DEFINE items == PeersListed(known)
<1>1. IsList(items)
  BY ListsOfFiles
<1>2. \/ /\ Costs(FALSE)
         /\ IF items = <<>> THEN Show("serverSelect", <<>>)
            ELSE ShowAt("serverManage", Least(row, Len(items) - 1), items, Nothing)
      \/ Costs(TRUE) /\ Finish("error")
  BY DEF ListPeers
<1> HIDE DEF items
<1>3. surprises' \in 0 .. MaxSurprises
  BY <1>2, CostsKeep
<1>4. CASE Finish("error")
  BY <1>3, <1>4, Ends
<1>5. CASE items = <<>> /\ Show("serverSelect", <<>>)
  BY <1>3, <1>5, Shows DEF Screen, Asking, StartConfirmation
<1>6. CASE items # <<>> /\ ShowAt("serverManage", Least(row, Len(items) - 1), items, Nothing)
  <2>1. ShownInv' /\ tui' = "configure" /\ screen' = "serverManage"
    BY <1>1, <1>6, BackToPeersKeeps
  <2> QED
    BY <1>3, <2>1, UnitStays, NothingIsAsked DEF Asking, StartConfirmation
<1> QED
  BY <1>2, <1>4, <1>5, <1>6

LEMMA StartServerKeeps ==
  ASSUME ScreenInv, StartServer
  PROVE  ScreenInv'
<1>1. /\ tui = "configure" /\ screen \notin Asking /\ unit' = unit
      /\ StartModeWithDaemonGuard("server", "serverSelect", "none", FALSE, <<>>)
  BY DEF StartServer, Enter, On, world, Asking, StartConfirmation
<1>2. question.setup = "none"
  BY <1>1, NothingAsked DEF ScreenInv, Asking
<1>3. ShownInv' /\ PendingInv' /\ preferences' \in Preference /\ surprises' \in 0 .. MaxSurprises
  BY <1>1, <1>2, ScreensHave, GuardKeeps DEF Mode, Config
<1> QED
  BY <1>1, <1>3, ScreensHave DEF ScreenInv, UnitInv

LEMMA PeerScreensKeep ==
  ASSUME ScreenInv, AddPeer \/ ManagePeers \/ TogglePeer
  PROVE  ScreenInv'
<1> USE ScreensHave
<1>1. /\ tui = "configure" /\ screen \notin Asking /\ UNCHANGED <<question, preferences, unit, activeConf>>
  BY DEF AddPeer, ManagePeers, TogglePeer, Enter, On, world, Asking, StartConfirmation
<1>2. \/ UNCHANGED <<shown, surprises>>
      \/ Costs(TRUE) /\ Finish("error")
      \/ \E known : \E row \in {0, cursor} : ListPeers(known, row)
      \/ \E failed : Costs(failed) /\ Show("serverSelect", <<>>)
  <2>1. CASE AddPeer
    BY <2>1 DEF AddPeer
  <2>2. CASE ManagePeers
    BY <2>2 DEF ManagePeers
  <2>3. CASE TogglePeer
    <3>1. ListPeers(peers, cursor) \/ (Costs(Chosen \in peers) /\ Show("serverSelect", <<>>))
      BY <2>3 DEF TogglePeer
    <3> QED
      BY <3>1
  <2> QED
    BY <2>1, <2>2, <2>3
<1>3. CASE UNCHANGED <<shown, surprises>>
  BY <1>1, <1>3, UnitStays, ScreenStays DEF shown
<1>4. CASE Costs(TRUE) /\ Finish("error")
  BY <1>1, <1>4, CostsKeep, Ends
<1>5. CASE \E known : \E row \in {0, cursor} : ListPeers(known, row)
  BY <1>1, <1>5, PeersKeep
<1>6. CASE \E failed : Costs(failed) /\ Show("serverSelect", <<>>)
  BY <1>1, <1>6, CostsKeep, Shows DEF Screen, Asking, StartConfirmation
<1> QED
  BY <1>2, <1>3, <1>4, <1>5, <1>6

LEMMA DeletePeerKeeps ==
  ASSUME ScreenInv, AskDeletePeer \/ DeletePeer
  PROVE  ScreenInv'
<1> USE ScreensHave
<1>1. /\ tui = "configure" /\ screen \notin Asking /\ UNCHANGED <<question, preferences, unit, activeConf>>
  BY DEF AskDeletePeer, DeletePeer, Enter, On, world, Asking, StartConfirmation
<1>2. CASE AskDeletePeer
  <2>1. /\ ShowAt("serverDeleteConfirm", 0, list, [Nothing EXCEPT !.row = cursor])
        /\ surprises' = surprises /\ cursor + 1 \in DOMAIN list
    BY <1>2 DEF AskDeletePeer, Enter, On, Options
  <2>2. /\ [Nothing EXCEPT !.row = cursor] \in [name : Config, row : Nat]
        /\ [Nothing EXCEPT !.row = cursor].row = cursor
    BY DEF Nothing, Config
  <2>3. ShownInv' /\ tui' = "configure" /\ screen' = "serverDeleteConfirm"
    BY <2>1, <2>2, ShowAtKeeps DEF Screen
  <2> QED
    BY <1>1, <2>1, <2>3, UnitStays, NothingIsAsked DEF Asking, StartConfirmation
<1>3. CASE DeletePeer
  <2>1. about.row + 1 \in DOMAIN list
    BY <1>3 DEF DeletePeer, Enter, On, ScreenInv, ShownInv
  <2>2. \/ BackToPeers(list) /\ surprises' = surprises
        \/ ListPeers(peers', about.row)
        \/ \E failed : Costs(failed) /\ Show("serverManage", list)
    BY <1>3 DEF DeletePeer
  <2>3. CASE BackToPeers(list) /\ surprises' = surprises
    <3>1. list # <<>> /\ ShowAt("serverManage", Least(about.row, Len(list) - 1), list, Nothing)
      BY <2>1, <2>3 DEF BackToPeers
    <3>2. ShownInv' /\ tui' = "configure" /\ screen' = "serverManage"
      BY <3>1, BackToPeersKeeps
    <3> QED
      BY <1>1, <2>3, <3>2, UnitStays, NothingIsAsked DEF Asking, StartConfirmation
  <2>4. CASE ListPeers(peers', about.row)
    BY <1>1, <2>4, PeersKeep
  <2>5. CASE \E failed : Costs(failed) /\ Show("serverManage", list)
    BY <1>1, <2>5, CostsKeep, Shows DEF Screen, Asking, StartConfirmation
  <2> QED
    BY <2>2, <2>3, <2>4, <2>5
<1> QED
  BY <1>2, <1>3

-----------------------------------------------------------------------------
(* The screens of the daemon. *)
LEMMA BegunIs ==
  ASSUME ScreenInv
  PROVE  /\ Begun \in Outcome /\ Begun.ok /\ Begun.unit = unit
         /\ Begun.left = MaxSurprises - surprises
<1>1. unit \in Unit /\ MaxSurprises - surprises \in 0 .. MaxSurprises
  BY ConfiguratorAssumption DEF ScreenInv, UnitInv
<1> QED
  BY <1>1 DEF Begun, Fresh, Outcome

LEMMA FailedOneIs ==
  ASSUME NEW o \in Outcome, NEW x, x = [o EXCEPT !.ok = FALSE]
  PROVE  x \in Outcome /\ x.unit = o.unit /\ x.left = o.left /\ o.left \in Nat
<1>1. o.left \in Nat
  BY DEF Outcome
<1> QED
  BY <1>1, FailedIs DEF Failed

(* Every operation does well. *)
LEMMA SetupOutcomesCome ==
  ASSUME ScreenInv, NEW mode \in Mode, NEW o \in SetupOutcomes(mode)
  PROVE  OperatesWell(Begun, o)
<1>1. CASE mode = "client" /\ activeConf.state # "valid"
  <2>1. o = [Begun EXCEPT !.ok = FALSE]
    BY <1>1 DEF SetupOutcomes
  <2>2. o \in Outcome /\ o.unit = Begun.unit /\ o.left = Begun.left /\ Begun.left \in Nat
    <3>1. Begun \in Outcome
      BY BegunIs
    <3> QED
      BY <2>1, <3>1, FailedOneIs
  <2> QED
    BY <2>2 DEF OperatesWell, Settled
<1>2. CASE ~(mode = "client" /\ activeConf.state # "valid")
  <2>1. o \in Setup(Begun, mode)
    BY <1>2 DEF SetupOutcomes
  <2> QED
    BY <2>1, BegunIs, SetupComes
<1> QED
  BY <1>1, <1>2

LEMMA CommandOperates ==
  ASSUME NEW o \in Outcome, NEW possible, NEW result \in Unit, result.file = o.unit.file, NEW x,
         Came(o, possible, result, x)
  PROVE  OperatesWell(o, x)
  BY DEF Came, OperatesWell, Settled, Outcome

LEMMA OperationComes ==
  ASSUME ScreenInv, NEW option, NEW o \in Operation(option)
  PROVE  OperatesWell(Begun, o)
<1> USE BegunIs
<1>1. Begun.unit \in Unit
  BY DEF Outcome
<1>2. CASE option = "start"
  <2> DEFINE result == IF IsActive(Begun.unit) THEN Begun.unit
                       ELSE [Begun.unit EXCEPT !.active = "active", !.known = Definition(Begun.unit), !.runs = Definition(Begun.unit)]
  <2>1. o \in StartUnit(Begun)
    BY <1>2 DEF Operation
  <2>2. Came(Begun, Definition(Begun.unit) # "none", result, o)
    BY <2>1, CommandsCome
  <2>3. Definition(Begun.unit) \in Mode \cup {"none"}
    BY <1>1 DEF Definition, Unit
  <2>4. result \in Unit /\ result.file = Begun.unit.file
    BY <1>1, <2>3 DEF Unit, ActiveState
  <2> HIDE DEF result
  <2> QED
    BY <2>2, <2>4, CommandOperates
<1>3. CASE option = "stop"
  <2> DEFINE result == [Begun.unit EXCEPT !.active = IF @ = "failed" THEN "failed" ELSE "inactive", !.runs = "none"]
  <2>1. o \in StopUnit(Begun)
    BY <1>3 DEF Operation
  <2>2. Came(Begun, Begun.unit.active # "inactive" \/ Definition(Begun.unit) # "none", result, o)
    BY <2>1, CommandsCome
  <2>3. result \in Unit /\ result.file = Begun.unit.file
    BY <1>1 DEF Unit, ActiveState
  <2> HIDE DEF result
  <2> QED
    BY <2>2, <2>3, CommandOperates
<1>4. CASE option \in {"enable", "disable"}
  <2>1. PICK e \in BOOLEAN : Came(Begun, Begun.unit.file # "none", [Begun.unit EXCEPT !.enabled = e], o)
    BY <1>4, CommandsCome DEF Operation
  <2> DEFINE result == [Begun.unit EXCEPT !.enabled = e]
  <2>2. result \in Unit /\ result.file = Begun.unit.file
    BY <1>1 DEF Unit
  <2> HIDE DEF result
  <2> QED
    BY <2>1, <2>2, CommandOperates DEF result
<1>5. CASE option = "delete"
  BY <1>5, RemoveComes DEF Operation
<1>6. CASE option \notin {"start", "stop", "enable", "disable", "delete"}
  <2>1. o \in SetupOutcomes(ModeOf(option)) /\ ModeOf(option) \in Mode
    BY <1>6 DEF Operation, ModeOf, Mode
  <2> QED
    BY <2>1, SetupOutcomesCome
<1> QED
  BY <1>2, <1>3, <1>4, <1>5, <1>6

LEMMA RefreshedRowExists ==
  ASSUME NEW items, IsList(items), NEW selected, NEW fallback \in Nat, NEW at,
         at = CursorAfterRefresh(items, selected, fallback)
  PROVE  at \in Nat /\ (at = 0 \/ at + 1 \in DOMAIN items)
<1>1. DOMAIN items = 1 .. Len(items) /\ Len(items) \in Nat /\ (items # <<>> => Len(items) - 1 \in Nat)
  BY ListNonEmpty
<1>2. CASE items = <<>>
  BY <1>2 DEF CursorAfterRefresh
<1>3. CASE items # <<>> /\ \E i \in DOMAIN items : items[i] = selected
  <2>1. PICK i \in DOMAIN items : at = i - 1
    <3>1. at = (CHOOSE i \in DOMAIN items : items[i] = selected) - 1
      BY <1>3 DEF CursorAfterRefresh
    <3> QED
      BY <1>3, <3>1
  <2> QED
    BY <1>1, <2>1
<1>4. CASE items # <<>> /\ ~\E i \in DOMAIN items : items[i] = selected
  <2>1. at = Least(fallback, Len(items) - 1)
    BY <1>4 DEF CursorAfterRefresh
  <2>2. PICK n : n = Len(items) - 1
    OBVIOUS
  <2>3. n \in Nat /\ at = IF fallback <= n THEN fallback ELSE n
    BY <1>1, <1>4, <2>1, <2>2 DEF Least
  <2>4. at \in Nat /\ at <= n
    BY <2>3
  <2>5. DOMAIN items = 1 .. n + 1
    BY <1>1, <2>2
  <2> QED
    BY <2>3, <2>4, <2>5
<1> QED
  BY <1>2, <1>3, <1>4

(* After an operation the menu is shown, with the cursor on a row of it. *)
Operates(outcomes, rows, otherwise) ==
  \E o \in outcomes :
    \/ /\ ~o.ok
       /\ unit' = o.unit /\ surprises' = MaxSurprises - o.left
       /\ ShowAt("daemonManage", otherwise, list, Nothing)
    \/ /\ o.ok
       /\ \E status \in Try(o, TRUE, o.unit) :
            /\ unit' = o.unit /\ surprises' = MaxSurprises - status.left
            /\ LET items == IF status.ok THEN DaemonMenu(o.unit) ELSE <<>>
               IN  \E at \in rows : ShowAt("daemonManage", at, items, Nothing) /\ (at = 0 \/ at + 1 \in DOMAIN items)

LEMMA OperatesKeeps ==
  ASSUME ScreenInv, NEW outcomes, \A o \in outcomes : OperatesWell(Begun, o), NEW rows \in SUBSET Nat,
         NEW otherwise \in Nat, otherwise = 0 \/ otherwise + 1 \in DOMAIN list,
         Operates(outcomes, rows, otherwise)
  PROVE  /\ ShownInv' /\ tui' = "configure" /\ screen' = "daemonManage"
         /\ unit' \in Unit /\ surprises' \in 0 .. MaxSurprises
         /\ surprises' <= surprises + 1 => Settled(unit, unit')
<1> USE ScreensHave, BegunIs
<1>1. PICK o \in outcomes :
        \/ /\ ~o.ok
           /\ unit' = o.unit /\ surprises' = MaxSurprises - o.left
           /\ ShowAt("daemonManage", otherwise, list, Nothing)
        \/ /\ o.ok
           /\ \E status \in Try(o, TRUE, o.unit) :
                /\ unit' = o.unit /\ surprises' = MaxSurprises - status.left
                /\ LET items == IF status.ok THEN DaemonMenu(o.unit) ELSE <<>>
                   IN  \E at \in rows : ShowAt("daemonManage", at, items, Nothing) /\ (at = 0 \/ at + 1 \in DOMAIN items)
  BY DEF Operates
<1>2. /\ o \in Outcome /\ o.unit \in Unit /\ o.left \in 0 .. MaxSurprises /\ o.left <= Begun.left
      /\ o.left >= Begun.left - 1 => Settled(unit, o.unit)
  BY <1>1 DEF OperatesWell, Outcome
<1>3. Nothing \in [name : Config, row : Nat] /\ "daemonManage" \in Screen
  BY DEF Nothing, Config, Screen
<1>4. MaxSurprises \in Nat
  BY ConfiguratorAssumption
<1>5. CASE /\ ~o.ok
           /\ unit' = o.unit /\ surprises' = MaxSurprises - o.left
           /\ ShowAt("daemonManage", otherwise, list, Nothing)
  <2>1. ShownInv' /\ tui' = "configure" /\ screen' = "daemonManage"
    BY <1>3, <1>5, ShowAtKeeps
  <2> QED
    BY <1>2, <1>4, <1>5, <2>1
<1>6. CASE /\ o.ok
           /\ \E status \in Try(o, TRUE, o.unit) :
                /\ unit' = o.unit /\ surprises' = MaxSurprises - status.left
                /\ LET items == IF status.ok THEN DaemonMenu(o.unit) ELSE <<>>
                   IN  \E at \in rows : ShowAt("daemonManage", at, items, Nothing) /\ (at = 0 \/ at + 1 \in DOMAIN items)
  <2>1. PICK status \in Try(o, TRUE, o.unit) :
          /\ unit' = o.unit /\ surprises' = MaxSurprises - status.left
          /\ LET items == IF status.ok THEN DaemonMenu(o.unit) ELSE <<>>
             IN  \E at \in rows : ShowAt("daemonManage", at, items, Nothing) /\ (at = 0 \/ at + 1 \in DOMAIN items)
    BY <1>6
  <2>2. Came(o, TRUE, o.unit, status)
    BY <1>2, <1>6, TryComes
  <2>3. status.left \in 0 .. MaxSurprises /\ status.left <= o.left
    BY <1>2, <2>2 DEF Came, Outcome
  <2>4. ShownInv' /\ tui' = "configure" /\ screen' = "daemonManage"
    <3> DEFINE items == IF status.ok THEN DaemonMenu(o.unit) ELSE <<>>
    <3>1. PICK at \in rows : ShowAt("daemonManage", at, items, Nothing) /\ (at = 0 \/ at + 1 \in DOMAIN items)
      BY <2>1
    <3>2. IsList(items)
      BY MenuIsList
    <3> HIDE DEF items
    <3> QED
      BY <1>3, <3>1, <3>2, ShowAtKeeps
  <2>5. unit' = o.unit /\ surprises' = MaxSurprises - status.left
    BY <2>1
  <2>6. surprises' \in 0 .. MaxSurprises /\ (surprises' <= surprises + 1 => o.left >= Begun.left - 1)
    BY <1>2, <1>4, <2>3, <2>5, SMTT(30)
  <2> QED
    BY <1>2, <2>4, <2>5, <2>6
<1> QED
  BY <1>1, <1>5, <1>6

LEMMA ManageDaemonOperates ==
  ASSUME ScreenInv, ManageDaemon
  PROVE  Operates(Operation(Chosen), Nat, cursor)
<1> USE ScreensHave
<1>1. PICK o \in Operation(Chosen) :
        \/ /\ ~o.ok
           /\ unit' = o.unit /\ surprises' = MaxSurprises - o.left
           /\ ShowAt("daemonManage", cursor, list, Nothing)
        \/ /\ o.ok
           /\ \E status \in Try(o, TRUE, o.unit) :
                LET items == IF status.ok THEN DaemonMenu(o.unit) ELSE <<>>
                IN  /\ unit' = o.unit /\ surprises' = MaxSurprises - status.left
                    /\ ShowAt("daemonManage", CursorAfterRefresh(items, Chosen, cursor), items, Nothing)
  BY DEF ManageDaemon, Operated
<1>2. ASSUME o.ok, NEW status \in Try(o, TRUE, o.unit), NEW items,
             items = IF status.ok THEN DaemonMenu(o.unit) ELSE <<>>,
             unit' = o.unit /\ surprises' = MaxSurprises - status.left,
             ShowAt("daemonManage", CursorAfterRefresh(items, Chosen, cursor), items, Nothing)
      PROVE  \E at \in Nat : ShowAt("daemonManage", at, items, Nothing) /\ (at = 0 \/ at + 1 \in DOMAIN items)
  <2>1. IsList(items)
    BY <1>2, MenuIsList
  <2>2. PICK at : at = CursorAfterRefresh(items, Chosen, cursor)
    OBVIOUS
  <2>3. at \in Nat /\ (at = 0 \/ at + 1 \in DOMAIN items)
    BY <2>1, <2>2, RefreshedRowExists
  <2> QED
    BY <1>2, <2>2, <2>3
<1> QED
  BY <1>1, <1>2 DEF Operates

LEMMA ReconfigureOperates ==
  ASSUME ReconfigureNow
  PROVE  Operates(SetupOutcomes(question.setup), {0}, 0)
  BY DEF ReconfigureNow, Operated, Operates

LEMMA DaemonKeeps ==
  ASSUME ScreenInv, ManageDaemon
  PROVE  ScreenInv' /\ (surprises' <= surprises + 1 => Settled(unit, unit'))
<1> USE ScreensHave
<1>1. /\ tui = "configure" /\ screen \notin Asking /\ UNCHANGED <<question, preferences>>
      /\ cursor + 1 \in DOMAIN list
  BY DEF ManageDaemon, Enter, On, Options, Asking, StartConfirmation
<1>2. Operates(Operation(Chosen), Nat, cursor)
  BY ManageDaemonOperates
<1>3. \A o \in Operation(Chosen) : OperatesWell(Begun, o)
  BY OperationComes
<1>4. /\ ShownInv' /\ tui' = "configure" /\ screen' = "daemonManage"
      /\ unit' \in Unit /\ surprises' \in 0 .. MaxSurprises
      /\ surprises' <= surprises + 1 => Settled(unit, unit')
  BY <1>1, <1>2, <1>3, OperatesKeeps
<1>5. UnitInv'
  BY <1>1, <1>4 DEF UnitInv
<1> QED
  BY <1>1, <1>4, <1>5, NothingIsAsked DEF Asking, StartConfirmation

LEMMA ReconfigureKeeps ==
  ASSUME ScreenInv, ReconfigureNow
  PROVE  ScreenInv' /\ (surprises' <= surprises + 1 => Settled(unit, unit'))
<1> USE ScreensHave
<1>1. /\ tui = "configure" /\ screen = "daemonReconfigureConfirm"
      /\ preferences' = preferences /\ question' = [question EXCEPT !.setup = "none"]
  BY DEF ReconfigureNow, Enter, On
<1>2. question.setup \in Mode /\ question.mode = "none" /\ question.config = "none"
  BY <1>1 DEF ScreenInv, PendingInv, Question, StartConfirmation, Mode
<1>3. \A o \in SetupOutcomes(question.setup) : OperatesWell(Begun, o)
  BY <1>2, SetupOutcomesCome
<1>4. /\ ShownInv' /\ tui' = "configure" /\ screen' = "daemonManage"
      /\ unit' \in Unit /\ surprises' \in 0 .. MaxSurprises
      /\ surprises' <= surprises + 1 => Settled(unit, unit')
  BY <1>3, ReconfigureOperates, OperatesKeeps
<1>5. /\ question' \in Question /\ question'.mode = "none" /\ question'.config = "none" /\ question'.setup = "none"
  BY <1>1, <1>2 DEF Question
<1>6. PendingInv'
  BY <1>4, <1>5 DEF PendingInv, StartConfirmation
<1> QED
  BY <1>1, <1>4, <1>6 DEF ScreenInv, UnitInv

LEMMA AskKeeps ==
  ASSUME ScreenInv, AskReconfigure \/ LeaveDaemonManage
  PROVE  ScreenInv'
<1> USE ScreensHave
<1>1. /\ tui = "configure" /\ screen = "daemonManage" /\ screen \notin Asking /\ UNCHANGED <<preferences, unit>>
  BY DEF AskReconfigure, LeaveDaemonManage, Enter, On, world, Asking, StartConfirmation
<1>2. question.mode = "none" /\ question.config = "none" /\ question.setup = "none"
  BY <1>1, NothingAsked DEF ScreenInv, Asking
<1>3. CASE AskReconfigure
  <2>1. /\ Show("daemonReconfigureConfirm", list) /\ surprises' = surprises
        /\ question' = [question EXCEPT !.setup = ModeOf(Chosen)] /\ ModeOf(Chosen) \in Mode
    BY <1>3 DEF AskReconfigure, ModeOf, Mode
  <2>2. ShownInv' /\ tui' = "configure" /\ screen' = "daemonReconfigureConfirm"
    BY <2>1, ShowKeeps DEF Screen
  <2>3. /\ question' \in Question /\ question'.mode = "none" /\ question'.config = "none"
        /\ question'.setup # "none"
    BY <1>2, <2>1 DEF Question, Mode
  <2>4. PendingInv'
    BY <2>2, <2>3 DEF PendingInv, StartConfirmation
  <2> QED
    BY <1>1, <2>1, <2>2, <2>4, UnitStays DEF ScreenInv
<1>4. CASE LeaveDaemonManage
  <2>1. RefreshDaemonStatus("mode", 2) /\ question' = [question EXCEPT !.setup = "none"]
    BY <1>4 DEF LeaveDaemonManage
  <2>2. ShownInv' /\ tui' = "configure" /\ screen' = "mode" /\ surprises' \in 0 .. MaxSurprises
    BY <2>1, RefreshKeeps
  <2>3. /\ question' \in Question /\ question'.mode = "none" /\ question'.config = "none" /\ question'.setup = "none"
    BY <1>2, <2>1 DEF Question
  <2>4. PendingInv'
    BY <2>2, <2>3 DEF PendingInv, StartConfirmation
  <2> QED
    BY <1>1, <2>2, <2>4, UnitStays DEF ScreenInv
<1> QED
  BY <1>3, <1>4

-----------------------------------------------------------------------------
(* A start that was asked about. *)
LEMMA StopComes ==
  ASSUME ScreenInv, NEW o \in StopUnit(Begun)
  PROVE  /\ o.unit \in Unit /\ MaxSurprises - o.left \in 0 .. MaxSurprises
         /\ o.unit.file = unit.file
         /\ o.ok => o.unit.active # "active"
<1> USE ScreensHave, BegunIs
<1> DEFINE ended == [unit EXCEPT !.active = IF @ = "failed" THEN "failed" ELSE "inactive", !.runs = "none"]
<1>1. Came(Begun, unit.active # "inactive" \/ Definition(unit) # "none", ended, o)
  BY CommandsCome
<1>2. ended.file = unit.file /\ ended.active # "active"
  BY DEF Unit
<1> HIDE DEF ended
<1>3. o \in Outcome /\ o.unit.file = unit.file /\ (o.ok => o.unit.active # "active")
  BY <1>1, <1>2 DEF Came
<1>4. o.unit \in Unit /\ o.left \in 0 .. MaxSurprises
  BY <1>3 DEF Outcome
<1> QED
  BY <1>3, <1>4, ConfiguratorAssumption

LEMMA CompleteKeeps ==
  ASSUME ScreenInv, tui = "configure", screen \in StartConfirmation, CompletePendingStart,
         unit' \in Unit, surprises' \in 0 .. MaxSurprises
  PROVE  ScreenInv'
<1> USE ScreensHave
<1>1. /\ Leave("runtime", question.mode) /\ question' = Cleared
      /\ preferences' \in {preferences, [preferences EXCEPT !.config = PendingConfig(question)]}
  BY DEF CompletePendingStart
<1>2. ShownInv' /\ tui' = "runtime"
  BY <1>1, LeaveKeeps
<1>3. PendingConfig(question) \in Config
  BY DEF PendingConfig, Question
<1>4. preferences' \in Preference
  BY <1>1, <1>3 DEF Preference
<1>5. PendingInv'
  BY <1>1, <1>2, ClearedIs DEF PendingInv
<1> QED
  BY <1>2, <1>4, <1>5 DEF ScreenInv, UnitInv

LEMMA AnswersKeep ==
  ASSUME ScreenInv, StopAndContinue \/ RetryCheck \/ StartAnyway \/ CancelQuestion
  PROVE  ScreenInv'
<1> USE ScreensHave
<1>1. CASE StopAndContinue
  <2>1. tui = "configure" /\ screen \in StartConfirmation
    BY <1>1 DEF StopAndContinue, Enter, On, StartConfirmation
  <2>2. PICK o \in StopUnit(Begun) :
          /\ unit' = o.unit /\ surprises' = MaxSurprises - o.left
          /\ IF o.ok THEN CompletePendingStart ELSE CancelPendingStart /\ preferences' = preferences
    BY <1>1 DEF StopAndContinue
  <2>3. unit' \in Unit /\ surprises' \in 0 .. MaxSurprises
    BY <2>2, StopComes
  <2>4. CASE o.ok
    BY <2>1, <2>2, <2>3, <2>4, CompleteKeeps
  <2>5. CASE ~o.ok
    <3>1. UnitInv'
      BY <2>2, <2>3, <2>5 DEF UnitInv
    <3> QED
      BY <2>1, <2>2, <2>5, <3>1, CancelKeeps
  <2> QED
    BY <2>4, <2>5
<1>2. CASE RetryCheck
  <2>1. /\ tui = "configure" /\ screen \in StartConfirmation /\ UNCHANGED <<unit, activeConf>>
        /\ StartModeWithDaemonGuard(question.mode, question.back, question.config, FALSE, list)
    BY <1>2 DEF RetryCheck, Enter, On, StartConfirmation, world
  <2>2. /\ question.mode \in Mode /\ question.back \in {"mode", "clientSelect", "serverSelect"}
        /\ question.config \in Config /\ question.setup = "none"
        /\ question.mode = "client" <=> question.config # "none"
        /\ question.config # "none" => activeConf'.name = question.config
    BY <2>1 DEF ScreenInv, PendingInv, Question, StartConfirmation, Mode
  <2>3. ShownInv' /\ PendingInv' /\ preferences' \in Preference /\ surprises' \in 0 .. MaxSurprises
    BY <2>1, <2>2, GuardKeeps
  <2> QED
    BY <2>1, <2>3 DEF ScreenInv, UnitInv
<1>3. CASE StartAnyway
  <2>1. /\ tui = "configure" /\ screen \in StartConfirmation /\ UNCHANGED <<unit, surprises>> /\ CompletePendingStart
    BY <1>3 DEF StartAnyway, Enter, On, StartConfirmation, world
  <2> QED
    BY <2>1, CompleteKeeps
<1>4. CASE CancelQuestion
  <2>1. /\ tui = "configure" /\ UNCHANGED <<preferences, unit, activeConf, surprises>>
        /\ \/ screen \in StartConfirmation /\ CancelPendingStart
           \/ screen = "daemonReconfigureConfirm" /\ ForgetSetup
    BY <1>4 DEF CancelQuestion, Enter, On, world
  <2> QED
    BY <2>1, UnitStays, CancelKeeps, ForgetSetupKeeps
<1> QED
  BY <1>1, <1>2, <1>3, <1>4

LEMMA RuntimeKeeps ==
  ASSUME ScreenInv, RuntimeFails \/ RuntimeReconfigures
  PROVE  ScreenInv'
<1> USE ScreensHave
<1>1. CASE RuntimeFails
  <2>1. UNCHANGED <<question, preferences, unit, activeConf>> /\ Costs(TRUE) /\ Finish("error")
    BY <1>1 DEF RuntimeFails, world
  <2>2. surprises' \in 0 .. MaxSurprises
    BY <2>1, CostsKeep
  <2> QED
    BY <2>1, <2>2, UnitStays, RefusedKeeps
<1>2. CASE RuntimeReconfigures
  <2>1. /\ Leave("start", "none") /\ question' = NoQuestion /\ UNCHANGED <<unit, surprises>>
        /\ preferences' \in {preferences, DisableAutoConnect(preferences)}
    BY <1>2 DEF RuntimeReconfigures, world
  <2>2. ShownInv' /\ tui' = "start"
    BY <2>1, LeaveKeeps
  <2>3. preferences' \in Preference
    BY <2>1 DEF DisableAutoConnect, Preference
  <2>4. PendingInv'
    BY <2>1, <2>2 DEF PendingInv, NoQuestion, Question, Config
  <2> QED
    BY <2>1, <2>2, <2>3, <2>4 DEF ScreenInv, UnitInv
<1> QED
  BY <1>1, <1>2

-----------------------------------------------------------------------------
(* The theorems. *)
LEMMA InterfaceStays ==
  ASSUME ScreenInv, UNCHANGED configuratorVars
  PROVE  ScreenInv'
<1>1. UNCHANGED <<tui, screen, cursor, list, about, question, activeConf, unit, preferences, surprises>>
  BY DEF configuratorVars, shown, world
<1> QED
  BY <1>1, ScreensHave, UnitStays, ScreenStays

LEMMA InterfaceSteps ==
  ASSUME ScreenInv, ConfiguratorStep
  PROVE  ScreenInv'
<1>1. CASE NewConfigurator \/ NewConfiguratorConnects
  BY <1>1, NewConfiguratorKeeps
<1>2. CASE Move \/ Quit \/ UpdateSettings
  BY <1>2, KeysKeep
<1>3. CASE Esc
  BY <1>3, EscKeeps
<1>4. CASE ChooseMode \/ ChooseAddOrRemove \/ AcceptInvalid \/ EnterName
  BY <1>4, ChooseKeeps
<1>5. CASE SelectClient
  BY <1>5, SelectKeeps
<1>6. CASE RemoveClient \/ CreateFromJSON
  BY <1>6, FilesKeep
<1>7. CASE TypeJSON \/ DebouncePasses \/ UnitMoves \/ FilesMove
  BY <1>7, TypingKeeps
<1>8. CASE StartServer
  BY <1>8, StartServerKeeps
<1>9. CASE AddPeer \/ ManagePeers \/ TogglePeer
  BY <1>9, PeerScreensKeep
<1>10. CASE AskDeletePeer \/ DeletePeer
  BY <1>10, DeletePeerKeeps
<1>11. CASE ManageDaemon
  BY <1>11, DaemonKeeps
<1>12. CASE AskReconfigure \/ LeaveDaemonManage
  BY <1>12, AskKeeps
<1>13. CASE ReconfigureNow
  BY <1>13, ReconfigureKeeps
<1>14. CASE StopAndContinue \/ RetryCheck \/ StartAnyway \/ CancelQuestion
  BY <1>14, AnswersKeep
<1>15. CASE RuntimeFails \/ RuntimeReconfigures
  BY <1>15, RuntimeKeeps
<1> QED
  BY <1>1, <1>2, <1>3, <1>4, <1>5, <1>6, <1>7, <1>8, <1>9, <1>10, <1>11, <1>12, <1>13, <1>14, <1>15
  DEF ConfiguratorStep

THEOREM ScreenInvHolds == ConfiguratorSpec => []ScreenInv
<1>1. ConfiguratorInit => ScreenInv
  BY InterfaceStarts
<1>2. ScreenInv /\ [ConfiguratorNext]_configuratorVars => ScreenInv'
  <2>1. ScreenInv /\ ConfiguratorNext => ScreenInv'
    BY InterfaceSteps DEF ConfiguratorNext
  <2>2. ScreenInv /\ UNCHANGED configuratorVars => ScreenInv'
    BY InterfaceStays
  <2> QED
    BY <2>1, <2>2
<1> QED
  BY <1>1, <1>2, PTL DEF ConfiguratorSpec

(* The cursor is on an option, whatever lists shrink below it, a question  *)
(* is asked on the screens that ask it only, and the configuration that    *)
(* waits to be remembered is the active one: configurator.go indexes its   *)
(* menus with the cursor, and completePendingDaemonStart starts what waits. *)
THEOREM InterfaceHolds == ConfiguratorSpec => []InterfaceSound
<1>1. ScreenInv => InterfaceSound
  BY DEF ScreenInv, ShownInv, PendingInv, UnitInv, InterfaceSound
<1> QED
  BY <1>1, ScreenInvHolds, PTL

(* Steps that do not start a runtime. *)
LEMMA NothingStarts ==
  ASSUME ScreenInv, ConfiguratorStep, tui # "runtime",
         ~(NewConfiguratorConnects \/ SelectClient \/ StartServer \/ StopAndContinue \/ RetryCheck \/ StartAnyway)
  PROVE  tui' # "runtime"
<1>1. \A files : ReloadClientConfigs(files) => tui' # "runtime"
  BY DEF ReloadClientConfigs, Show, ShowAt, Finish, Leave
<1>2. \A known, row : ListPeers(known, row) => tui' # "runtime"
  BY DEF ListPeers, Show, ShowAt, Finish, Leave
<1>3. \A s, at : RefreshDaemonStatus(s, at) => tui' # "runtime"
  BY DEF RefreshDaemonStatus, ShowAt
<1>4. /\ \A s, at, items, thing : ShowAt(s, at, items, thing) => tui' # "runtime"
      /\ \A s, items : Show(s, items) => tui' # "runtime"
      /\ \A how : Finish(how) => tui' # "runtime"
      /\ \A how : Leave("start", how) => tui' # "runtime"
  BY DEF Show, ShowAt, Finish, Leave
<1>5. CASE NewConfigurator
  BY <1>1, <1>4, <1>5 DEF NewConfigurator
<1>6. CASE Move \/ Quit \/ UpdateSettings
  BY <1>4, <1>6 DEF Move, Quit, UpdateSettings, shown
<1>7. CASE Esc
  BY <1>4, <1>7 DEF Esc, Back, BackToPeers, ForgetSetup, CancelPendingStart
<1>8. CASE ChooseMode \/ ChooseAddOrRemove \/ AcceptInvalid \/ EnterName
  BY <1>1, <1>3, <1>4, <1>8 DEF ChooseMode, ChooseAddOrRemove, AcceptInvalid, EnterName
<1>9. CASE RemoveClient \/ CreateFromJSON
  BY <1>1, <1>4, <1>9 DEF RemoveClient, DeleteConfiguration, CreateFromJSON
<1>10. CASE TypeJSON \/ DebouncePasses \/ UnitMoves \/ FilesMove
  BY <1>10 DEF TypeJSON, DebouncePasses, UnitMoves, FilesMove, shown
<1>11. CASE AddPeer \/ ManagePeers \/ TogglePeer
  BY <1>2, <1>4, <1>11 DEF AddPeer, ManagePeers, TogglePeer, shown
<1>12. CASE AskDeletePeer \/ DeletePeer
  BY <1>2, <1>4, <1>12 DEF AskDeletePeer, DeletePeer, BackToPeers
<1>13. CASE ManageDaemon
  BY <1>4, <1>13, ManageDaemonOperates DEF Operates
<1>14. CASE ReconfigureNow
  BY <1>4, <1>14, ReconfigureOperates DEF Operates
<1>15. CASE AskReconfigure \/ LeaveDaemonManage
  BY <1>3, <1>4, <1>15 DEF AskReconfigure, LeaveDaemonManage
<1>16. CASE CancelQuestion
  BY <1>4, <1>16 DEF CancelQuestion, CancelPendingStart, ForgetSetup
<1>17. CASE RuntimeFails \/ RuntimeReconfigures
  BY <1>17 DEF RuntimeFails, RuntimeReconfigures
<1> QED
  BY <1>5, <1>6, <1>7, <1>8, <1>9, <1>10, <1>11, <1>12, <1>13, <1>14, <1>15, <1>16, <1>17 DEF ConfiguratorStep

LEMMA GuardStarts ==
  ASSUME NEW mode, NEW back, NEW config, NEW remember \in BOOLEAN, NEW items,
         StartModeWithDaemonGuard(mode, back, config, remember, items), tui' = "runtime"
  PROVE  /\ unit.active # "active" /\ chosenMode' = mode
         /\ preferences' = IF remember THEN [preferences EXCEPT !.config = config] ELSE preferences
<1>1. PICK answer \in {"error", IF IsActive(unit) THEN "active" ELSE "idle"} :
        IF answer = "idle"
          THEN /\ Leave("runtime", mode)
               /\ preferences' = IF remember THEN [preferences EXCEPT !.config = config] ELSE preferences
          ELSE Show(IF answer = "active" THEN "daemonActiveConfirm" ELSE "daemonCheckErrorConfirm", items)
  BY DEF StartModeWithDaemonGuard
<1>2. answer = "idle"
  BY <1>1 DEF Show, ShowAt
<1> QED
  BY <1>1, <1>2 DEF IsActive, Leave

Guarded ==
  /\ unit'.active # "active" \/ Insists("startAnyway")
  /\ (chosenMode' = "client" /\ ~Insists("retry")) => preferences'.config = activeConf'.name

LEMMA RememberedWhenComplete ==
  ASSUME ScreenInv, CompletePendingStart, activeConf' = activeConf, chosenMode' = "client"
  PROVE  preferences'.config = activeConf'.name
<1> USE ScreensHave
<1>1. question.mode = "client"
  BY DEF CompletePendingStart, Leave
<1>2. question.config # "none" /\ activeConf.name = question.config
  BY <1>1 DEF ScreenInv, PendingInv
<1>3. preferences' = [preferences EXCEPT !.config = question.config]
  BY <1>1, <1>2 DEF CompletePendingStart, PendingConfig
<1> QED
  BY <1>2, <1>3 DEF Preference

LEMMA StartIsGuarded ==
  ASSUME ScreenInv, ConfiguratorStep, tui # "runtime", tui' = "runtime"
  PROVE  Guarded
<1> USE ScreensHave
<1>1. CASE NewConfiguratorConnects
  <2>1. PICK n \in Name : \E result \in UseResults(n) :
          /\ ConnectsTo(n) /\ UseConfiguration(n, result)
          /\ IF result = "valid"
               THEN StartModeWithDaemonGuard("client", "clientSelect", n, FALSE, Listed(disk))
               ELSE tui' # "runtime"
    BY <1>1 DEF NewConfiguratorConnects, Show, ShowAt
  <2>2. /\ ConnectsTo(n) /\ UseConfiguration(n, "valid")
        /\ StartModeWithDaemonGuard("client", "clientSelect", n, FALSE, Listed(disk))
    BY <2>1
  <2>3. unit.active # "active" /\ preferences' = preferences
    BY <2>2, GuardStarts
  <2>4. unit' = unit /\ preferences.config = n /\ activeConf'.name = n
    BY <1>1, <2>2 DEF NewConfiguratorConnects, ConnectsTo, UseConfiguration
  <2> QED
    BY <2>3, <2>4 DEF Guarded
<1>2. CASE SelectClient
  <2>1. PICK n \in Name : \E result \in UseResults(n) :
          /\ UseConfiguration(n, result)
          /\ IF result = "valid"
               THEN StartModeWithDaemonGuard("client", "clientSelect", n, TRUE, list)
               ELSE tui' # "runtime"
    BY <1>2 DEF SelectClient, Finish, Leave, ShowAt
  <2>2. /\ UseConfiguration(n, "valid")
        /\ StartModeWithDaemonGuard("client", "clientSelect", n, TRUE, list)
    BY <2>1
  <2>3. unit.active # "active" /\ preferences' = [preferences EXCEPT !.config = n]
    BY <2>2, GuardStarts
  <2>4. unit' = unit /\ preferences'.config = n /\ activeConf'.name = n
    BY <1>2, <2>2, <2>3 DEF SelectClient, UseConfiguration, Preference
  <2> QED
    BY <2>3, <2>4 DEF Guarded
<1>3. CASE StartServer
  <2>1. StartModeWithDaemonGuard("server", "serverSelect", "none", FALSE, <<>>) /\ unit' = unit
    BY <1>3 DEF StartServer, world
  <2>2. unit.active # "active" /\ chosenMode' = "server"
    BY <2>1, GuardStarts
  <2> QED
    BY <2>1, <2>2 DEF Guarded
<1>4. CASE RetryCheck
  <2>1. /\ StartModeWithDaemonGuard(question.mode, question.back, question.config, FALSE, list) /\ unit' = unit
        /\ Insists("retry")
    BY <1>4 DEF RetryCheck, world, Insists
  <2>2. unit.active # "active"
    BY <2>1, GuardStarts
  <2> QED
    BY <2>1, <2>2 DEF Guarded
<1>5. CASE StopAndContinue
  <2>1. PICK o \in StopUnit(Begun) :
          /\ unit' = o.unit
          /\ IF o.ok THEN CompletePendingStart ELSE CancelPendingStart
    BY <1>5 DEF StopAndContinue
  <2>2. o.ok /\ CompletePendingStart
    BY <2>1 DEF CancelPendingStart, Show, ShowAt
  <2>3. unit'.active # "active" /\ activeConf' = activeConf
    BY <1>5, <2>1, <2>2, StopComes DEF StopAndContinue
  <2> QED
    BY <2>2, <2>3, RememberedWhenComplete DEF Guarded
<1>6. CASE StartAnyway
  <2>1. CompletePendingStart /\ activeConf' = activeConf /\ Insists("startAnyway")
    BY <1>6 DEF StartAnyway, world, Insists
  <2> QED
    BY <2>1, RememberedWhenComplete DEF Guarded
<1> QED
  BY <1>1, <1>2, <1>3, <1>4, <1>5, <1>6, NothingStarts

(* Unless the user insists, no mode is started while the unit is seen to   *)
(* be active, and a client that is started runs the configuration that is  *)
(* remembered: startModeWithDaemonGuard, completePendingDaemonStart.       *)
THEOREM StartsAreGuardedHolds == ConfiguratorSpec => StartsAreGuarded
<1>1. ScreenInv /\ [ConfiguratorNext]_configuratorVars => [tui # "runtime" /\ tui' = "runtime" => Guarded]_configuratorVars
  BY StartIsGuarded DEF ConfiguratorNext
<1> QED
  BY <1>1, ScreenInvHolds, PTL DEF ConfiguratorSpec, StartsAreGuarded, Guarded

LEMMA FileChanges ==
  ASSUME ScreenInv, ConfiguratorStep, unit'.file # unit.file
  PROVE  ManageDaemon \/ ReconfigureNow
<1> USE ScreensHave
<1>1. CASE StopAndContinue
  <2>1. PICK o \in StopUnit(Begun) : unit' = o.unit
    BY <1>1 DEF StopAndContinue
  <2> QED
    BY <2>1, StopComes
<1>2. CASE UnitMoves
  <2>1. PICK next \in ActiveState :
          unit' = [unit EXCEPT !.active = next, !.known = IF next = "active" THEN Definition(unit) ELSE @,
                               !.runs = IF next = "active" THEN Definition(unit) ELSE "none"]
    BY <1>2 DEF UnitMoves
  <2> QED
    BY <2>1 DEF Unit
<1>3. CASE \/ NewConfigurator \/ NewConfiguratorConnects \/ Move \/ Quit \/ Esc \/ UpdateSettings
           \/ ChooseMode \/ ChooseAddOrRemove \/ SelectClient \/ RemoveClient \/ AcceptInvalid
           \/ EnterName \/ TypeJSON \/ DebouncePasses \/ CreateFromJSON
  BY <1>3 DEF NewConfigurator, NewConfiguratorConnects, Move, Quit, Esc, UpdateSettings, ChooseMode, ChooseAddOrRemove,
              SelectClient, RemoveClient, AcceptInvalid, EnterName, TypeJSON, DebouncePasses, CreateFromJSON, world
<1>4. CASE \/ StartServer \/ AddPeer \/ ManagePeers \/ TogglePeer \/ AskDeletePeer \/ DeletePeer
           \/ AskReconfigure \/ LeaveDaemonManage \/ RetryCheck \/ StartAnyway \/ CancelQuestion
           \/ RuntimeFails \/ RuntimeReconfigures \/ FilesMove
  BY <1>4 DEF StartServer, AddPeer, ManagePeers, TogglePeer, AskDeletePeer, DeletePeer, AskReconfigure, LeaveDaemonManage,
              RetryCheck, StartAnyway, CancelQuestion, RuntimeFails, RuntimeReconfigures, FilesMove, world
<1> QED
  BY <1>1, <1>2, <1>3, <1>4 DEF ConfiguratorStep

(* A setup or a removal of which at most one command fails leaves the unit *)
(* that was asked for, or none: systemd.go installs, reloads, enables and  *)
(* starts again, and rolls back what failed.                               *)
THEOREM SetupSettlesHolds == ConfiguratorSpec => SetupSettles
<1>1. ScreenInv /\ ConfiguratorStep /\ unit'.file # unit.file /\ surprises' <= surprises + 1 => Settled(unit, unit')
  BY FileChanges, DaemonKeeps, ReconfigureKeeps
<1> DEFINE Settles ==
      unit'.file # unit.file /\ surprises' <= surprises + 1 =>
        IF unit'.file = "none" THEN unit'.known = "none" \/ unit'.runs = "none"
        ELSE unit'.known = unit'.file /\ unit'.enabled /\ (unit'.active = "active" => unit'.runs = unit'.file)
<1>2. ScreenInv /\ [ConfiguratorNext]_configuratorVars => [Settles]_configuratorVars
  BY <1>1 DEF Settled, ConfiguratorNext
<1>3. SetupSettles <=> [][Settles]_configuratorVars
  BY DEF SetupSettles
<1> HIDE DEF Settles
<1> QED
  BY <1>2, <1>3, ScreenInvHolds, PTL DEF ConfiguratorSpec
=============================================================================
