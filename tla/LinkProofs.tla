----------------------------- MODULE LinkProofs -----------------------------
(***************************************************************************)
(* The machine of MCTcpRekey, for every bound.  Its Windows TUN device,    *)
(* for any number of sessions (SessionsAreDrained): no call is inside a    *)
(* session that another call replaces and ends, and no session is lost.    *)
(* Its two links: what TcpRekeyProofs shows of one session holds on the    *)
(* fast link, and, with the constants of that one, on the slow link, so    *)
(* that the safety properties of the run are theorems of LinkSpec.         *)
(***************************************************************************)
EXTENDS MCTcpRekey, TcpRekeyProofs

(* Where a thread has pinned a session, may be inside it, is ending one,   *)
(* and holds reopenMu.                                                     *)
Pinning == {"recheck", "recheckClosed", "inside", "leave"}
Entering == {"recheckClosed", "inside"}
Ending == {"arm", "reset", "look", "drain", "end"}
Replacing == {"publish"} \cup Ending
Holding == {"reopenCheck"} \cup Replacing
Sequels == {"idle", "reopen", "stopped", "wait"}
OpPlace == Sequels \cup {"pin", "signal", "waiting"} \cup Pinning \cup Holding
CloserPlace == {"idle", "wake", "lock", "stopped"} \cup Ending

SessionState ==
  [inflight : Int, drainWait : BOOLEAN, zeroEvent : BOOLEAN,
   endedBy : WintunThread \cup {NoSession, "nobody"}]

DeviceTypes ==
  /\ sessionRef \in [WintunSession -> SessionState]
  /\ cur \in WintunSession \cup {NoSession}
  /\ deviceClosed \in BOOLEAN
  /\ reopenMu \in WintunThread \cup {NoSession}
  /\ at \in [WintunThread -> OpPlace \cup CloserPlace]
  /\ \A t \in Op : at[t] \in OpPlace
  /\ at["closer"] \in CloserPlace
  /\ ref \in [WintunThread -> WintunSession \cup {NoSession}]
  /\ sequel \in [Op -> Sequels]

(* Who replaces or takes away a session holds the lock.                    *)
OneReplaces == \A t \in WintunThread : at[t] \in Holding <=> reopenMu = t

(* A device without a session is closed, and nothing replaces a session    *)
(* from the moment on at which Close has taken it away.                    *)
ClosedForGood ==
  /\ deviceClosed <=> at["closer"] # "idle"
  /\ cur = NoSession <=> at["closer"] \in Ending \cup {"stopped"}
  /\ cur = NoSession => \A t \in Op : at[t] \notin Replacing

(* Who needs a session has one, and a session nobody has started is in     *)
(* nobody's hands.                                                         *)
Loaded ==
  /\ \A t \in WintunThread : at[t] \in {"pin", "signal"} \cup Pinning \cup Replacing => ref[t] # NoSession
  /\ \A s \in WintunSession : sessionRef[s].endedBy = "nobody" => s # cur /\ \A t \in WintunThread : ref[t] # s

(* The counter of a session is the number of threads that have pinned it.  *)
Pins(t, s) == IF at[t] \in Pinning /\ ref[t] = s THEN 1 ELSE 0
Counted == \A s \in WintunSession : sessionRef[s].inflight = Pins("reader", s) + Pins("writer", s)

(* What is open is current or in the hands of who holds the lock, and the  *)
(* current session and the one about to be published are open.             *)
OpenIsHeld ==
  /\ cur # NoSession => IsOpen(cur)
  /\ \A t \in Op : at[t] = "publish" => IsOpen(ref[t])
  /\ \A t \in Op : at[t] \in Replacing => ref[t] # cur
  /\ \A s \in WintunSession : IsOpen(s) /\ s # cur => \E t \in WintunThread : at[t] \in Replacing /\ ref[t] = s

(* Once a call may end a session, and after it has, nobody is inside or    *)
(* about to enter: a signal that comes between the reset of the event and  *)
(* the wait is the signal of the last thread to leave.                     *)
EndsAlone ==
  \A u \in Op : at[u] \in Entering =>
    /\ \A t \in Op : ref[t] = ref[u] =>
         at[t] # "end" /\ (at[t] \in {"look", "drain"} => ~sessionRef[ref[t]].zeroEvent)
    /\ sessionRef[ref[u]].endedBy \notin Op

DeviceInv ==
  /\ DeviceTypes
  /\ OneReplaces
  /\ ClosedForGood
  /\ Loaded
  /\ Counted
  /\ OpenIsHeld
  /\ EndsAlone

-----------------------------------------------------------------------------
(* The calls outside the lock. *)

LEMMA DeviceInitially ==
  ASSUME DeviceInit
  PROVE  DeviceInv
<1> USE WintunAssumption DEF DeviceInit, Op, WintunThread
<1>0. /\ {Opened, Unopened} \subseteq SessionState
      /\ Opened.inflight = 0 /\ Unopened.inflight = 0
  BY DEF SessionState, Opened, Unopened, NewRef
<1>1. DeviceTypes
  BY <1>0 DEF DeviceTypes, Sequels, OpPlace, CloserPlace
<1>2. OneReplaces /\ ClosedForGood
  BY DEF OneReplaces, ClosedForGood, Ending, Replacing, Holding
<1>3. Loaded
  BY DEF Loaded, Opened, Unopened, NewRef, Pinning, Ending, Replacing
<1>4. Counted
  <2> SUFFICES ASSUME NEW s \in WintunSession
               PROVE  sessionRef[s].inflight = Pins("reader", s) + Pins("writer", s)
    BY DEF Counted
  <2>1. sessionRef[s].inflight = 0
    BY <1>0
  <2>2. Pins("reader", s) = 0 /\ Pins("writer", s) = 0
    BY DEF Pins, Pinning
  <2> QED
    BY <2>1, <2>2
<1>5. OpenIsHeld
  BY DEF OpenIsHeld, IsOpen, Opened, Unopened, NewRef, Ending, Replacing
<1>6. EndsAlone
  BY DEF EndsAlone, Entering
<1> QED
  BY <1>1, <1>2, <1>3, <1>4, <1>5, <1>6 DEF DeviceInv

(* A call that neither takes the lock, nor pins or leaves a session, nor   *)
(* comes nearer to being inside one, disturbs nothing.                     *)
LEMMA MovesOutside ==
  ASSUME DeviceInv, NEW t \in Op, NEW p \in OpPlace \ Holding, at[t] \notin Holding,
         at[t] \in Pinning <=> p \in Pinning,
         p \in {"pin", "signal"} \cup Pinning => ref[t] # NoSession,
         p \in Entering => at[t] \in Entering,
         Goes(t, p), UNCHANGED <<sessionRef, shared, ref>>, sequel' \in [Op -> Sequels]
  PROVE  DeviceInv'
<1> USE DEF DeviceInv, DeviceTypes, Goes, shared, Op, WintunThread
<1>1. DeviceTypes'
  BY DEF OpPlace
<1>2. OneReplaces' /\ ClosedForGood'
  BY DEF OneReplaces, ClosedForGood, Ending, Replacing, Holding
<1>3. Loaded' /\ Counted'
  BY DEF Loaded, Counted, Pins, Holding
<1>4. OpenIsHeld'
  BY DEF OpenIsHeld, IsOpen, Holding, Replacing
<1>5. EndsAlone'
  BY DEF EndsAlone, Holding, Replacing, Ending
<1> QED
  BY <1>1, <1>2, <1>3, <1>4, <1>5

(* What is loaded is a session, because a device without one is closed. *)
LEMMA LoadCurrentKeeps ==
  ASSUME DeviceInv, NEW t \in Op, LoadCurrent(t)
  PROVE  DeviceInv'
<1>1. DeviceTypes'
  BY DEF DeviceInv, DeviceTypes, LoadCurrent, Goes, Loads, shared, Op,
     WintunThread, Pinning, Ending, Replacing, Holding, Sequels, OpPlace,
     CloserPlace
<1>2. OneReplaces'
  BY DEF DeviceInv, OneReplaces, DeviceTypes, LoadCurrent, Goes, Loads,
     shared, Op, WintunThread, Ending, Replacing, Holding
<1>3. ClosedForGood'
  BY DEF DeviceInv, ClosedForGood, DeviceTypes, LoadCurrent, Goes, Loads,
     shared, Op, WintunThread, Ending, Replacing
<1>4. Loaded'
  BY WintunAssumption DEF DeviceInv, Loaded, DeviceTypes, ClosedForGood,
     LoadCurrent, Goes, Loads, shared, Op, WintunThread, Pinning, Ending,
     Replacing, Holding
<1>5. Counted'
  BY DEF DeviceInv, Counted, DeviceTypes, Pins, LoadCurrent, Goes, Loads,
     shared, Op, WintunThread, Pinning
<1>6. OpenIsHeld'
  BY DEF DeviceInv, OpenIsHeld, DeviceTypes, IsOpen, LoadCurrent, Goes,
     Loads, shared, Op, WintunThread, Ending, Replacing
<1>7. EndsAlone'
  BY DEF DeviceInv, EndsAlone, DeviceTypes, LoadCurrent, Goes, Loads, shared,
     Op, WintunThread, Entering
<1> QED
  BY <1>1, <1>2, <1>3, <1>4, <1>5, <1>6, <1>7 DEF DeviceInv

(* A pin counts, whatever session it is: the check comes after it. *)
LEMMA PinKeeps ==
  ASSUME DeviceInv, NEW t \in Op, Pin(t)
  PROVE  DeviceInv'
<1>1. DeviceTypes'
  BY WintunAssumption DEF DeviceInv, DeviceTypes, SessionState, Loaded, Pin,
     Goes, shared, Op, WintunThread, Pinning, Ending, Replacing, Holding,
     Sequels, OpPlace, CloserPlace
<1>2. OneReplaces'
  BY DEF DeviceInv, OneReplaces, DeviceTypes, Pin, Goes, shared, Op,
     WintunThread, Ending, Replacing, Holding
<1>3. ClosedForGood'
  BY DEF DeviceInv, ClosedForGood, DeviceTypes, Pin, Goes, shared, Op,
     WintunThread, Ending, Replacing
<1>4. Loaded'
  BY DEF DeviceInv, Loaded, DeviceTypes, Pin, Goes, shared, Op, WintunThread,
     Pinning, Ending, Replacing
<1>5. Counted'
  BY DEF DeviceInv, Counted, DeviceTypes, Pins, Pin, Goes, shared, Op,
     WintunThread, Pinning
<1>6. OpenIsHeld'
  BY DEF DeviceInv, OpenIsHeld, DeviceTypes, IsOpen, Pin, Goes, shared, Op,
     WintunThread, Ending, Replacing
<1>7. EndsAlone'
  BY DEF DeviceInv, EndsAlone, DeviceTypes, Pin, Goes, shared, Op,
     WintunThread, Entering
<1> QED
  BY <1>1, <1>2, <1>3, <1>4, <1>5, <1>6, <1>7 DEF DeviceInv

(* Who enters has found its session current, so nobody is ending it. *)
LEMMA RecheckKeeps ==
  ASSUME DeviceInv, NEW t \in Op, Recheck(t)
  PROVE  DeviceInv'
<1>1. DeviceTypes'
  BY DEF DeviceInv, DeviceTypes, Recheck, StillCurrent, Goes, shared, Op,
     WintunThread, Pinning, Ending, Replacing, Holding, Sequels, OpPlace,
     CloserPlace
<1>2. OneReplaces'
  BY DEF DeviceInv, OneReplaces, DeviceTypes, Recheck, StillCurrent, Goes,
     shared, Op, WintunThread, Ending, Replacing, Holding
<1>3. ClosedForGood'
  BY DEF DeviceInv, ClosedForGood, DeviceTypes, Recheck, StillCurrent, Goes,
     shared, Op, WintunThread, Ending, Replacing
<1>4. Loaded'
  BY DEF DeviceInv, Loaded, DeviceTypes, Recheck, StillCurrent, Goes, shared,
     Op, WintunThread, Pinning, Ending, Replacing
<1>5. Counted'
  BY DEF DeviceInv, Counted, DeviceTypes, Pins, Recheck, StillCurrent, Goes,
     shared, Op, WintunThread, Pinning
<1>6. OpenIsHeld'
  BY DEF DeviceInv, OpenIsHeld, DeviceTypes, IsOpen, Recheck, StillCurrent,
     Goes, shared, Op, WintunThread, Ending, Replacing
<1>7. EndsAlone'
  BY WintunAssumption DEF DeviceInv, EndsAlone, DeviceTypes, OneReplaces,
     Counted, OpenIsHeld, Loaded, IsOpen, Recheck, StillCurrent, Goes,
     shared, Op, WintunThread, Entering, Pinning, Ending, Replacing, Holding
<1> QED
  BY <1>1, <1>2, <1>3, <1>4, <1>5, <1>6, <1>7 DEF DeviceInv

(* The end of the validation, the use of a session, and the wait for       *)
(* packets only move.                                                      *)
LEMMA MovesKeep ==
  ASSUME DeviceInv,
         \/ \E t \in Op : RecheckClosed(t) \/ UseSession(t)
         \/ WaitCurrent \/ WakeForPacket \/ WakeForClose
  PROVE  DeviceInv'
<1>1. ASSUME NEW t \in Op, RecheckClosed(t) PROVE DeviceInv'
  BY <1>1, MovesOutside
     DEF DeviceInv, DeviceTypes, Loaded, RecheckClosed, Op, WintunThread,
         Pinning, Entering, Ending, Replacing, Holding, OpPlace
<1>2. ASSUME NEW t \in Op, UseSession(t) PROVE DeviceInv'
  <2>1. sequel' \in [Op -> Sequels]
    BY <1>2 DEF DeviceInv, DeviceTypes, UseSession, Sequel, Sequels
  <2> QED
    BY <1>2, <2>1, MovesOutside
       DEF DeviceInv, DeviceTypes, Loaded, UseSession, Op, WintunThread,
           Pinning, Entering, Ending, Replacing, Holding, OpPlace
<1>3. CASE WaitCurrent \/ WakeForPacket \/ WakeForClose
  BY <1>3, MovesOutside
     DEF DeviceInv, DeviceTypes, WaitCurrent, WakeForPacket, WakeForClose, Op, WintunThread,
         Pinning, Entering, Ending, Replacing, Holding, OpPlace, Sequels
<1> QED
  BY <1>1, <1>2, <1>3

(* A thread that leaves takes back its own pin. *)
LEMMA LeaveKeeps ==
  ASSUME DeviceInv, NEW t \in Op, Leave(t)
  PROVE  DeviceInv'
<1>1. DeviceTypes'
  BY WintunAssumption DEF DeviceInv, DeviceTypes, SessionState, Loaded,
     Leave, Proceeds, Goes, shared, Op, WintunThread, Pinning, Ending,
     Replacing, Holding, Sequels, OpPlace, CloserPlace
<1>2. OneReplaces'
  BY DEF DeviceInv, OneReplaces, DeviceTypes, Leave, Proceeds, Goes, shared,
     Op, WintunThread, Ending, Replacing, Holding, Sequels
<1>3. ClosedForGood'
  BY DEF DeviceInv, ClosedForGood, DeviceTypes, Leave, Proceeds, Goes,
     shared, Op, WintunThread, Ending, Replacing, Sequels
<1>4. Loaded'
  BY DEF DeviceInv, Loaded, DeviceTypes, Leave, Proceeds, Goes, shared, Op,
     WintunThread, Pinning, Ending, Replacing, Sequels
<1>5. Counted'
  BY DEF DeviceInv, Counted, DeviceTypes, Pins, Leave, Proceeds, Goes,
     shared, Op, WintunThread, Pinning, Sequels
<1>6. OpenIsHeld'
  BY DEF DeviceInv, OpenIsHeld, DeviceTypes, IsOpen, Leave, Proceeds, Goes,
     shared, Op, WintunThread, Ending, Replacing, Sequels
<1>7. EndsAlone'
  BY DEF DeviceInv, EndsAlone, DeviceTypes, Leave, Proceeds, Goes, shared,
     Op, WintunThread, Entering, Sequels
<1> QED
  BY <1>1, <1>2, <1>3, <1>4, <1>5, <1>6, <1>7 DEF DeviceInv

(* A signal may come too late for the drain it was meant for, but then     *)
(* the thread that gives it has left.                                      *)
LEMMA SignalKeeps ==
  ASSUME DeviceInv, NEW t \in Op, Signal(t)
  PROVE  DeviceInv'
<1>1. DeviceTypes'
  <2>1. ref[t] \in WintunSession
    BY DEF DeviceInv, DeviceTypes, Loaded, Signal, Op, WintunThread, Pinning,
       Ending, Replacing
  <2>2. sessionRef[ref[t]] \in SessionState
    BY <2>1 DEF DeviceInv, DeviceTypes
  <2>3. sessionRef' \in [WintunSession -> SessionState]
    <3>1. CASE sessionRef[ref[t]].drainWait
      <4>1. sessionRef' = [sessionRef EXCEPT ![ref[t]].zeroEvent = TRUE]
        BY <3>1 DEF Signal
      <4> QED
        BY <2>1, <2>2, <4>1 DEF DeviceInv, DeviceTypes, SessionState
    <3>2. CASE ~sessionRef[ref[t]].drainWait
      BY <3>2 DEF DeviceInv, DeviceTypes, Signal
    <3> QED
      BY <3>1, <3>2
  <2> QED
    BY <2>3 DEF DeviceInv, DeviceTypes, Signal, Proceeds, Goes, shared, Op,
       WintunThread, Pinning, Ending, Replacing, Holding, Sequels, OpPlace,
       CloserPlace
<1>2. OneReplaces'
  BY DEF DeviceInv, OneReplaces, DeviceTypes, Signal, Proceeds, Goes, shared,
     Op, WintunThread, Ending, Replacing, Holding, Sequels
<1>3. ClosedForGood'
  BY DEF DeviceInv, ClosedForGood, DeviceTypes, Signal, Proceeds, Goes,
     shared, Op, WintunThread, Ending, Replacing, Sequels
<1>4. \A s \in WintunSession :
        /\ sessionRef'[s].inflight = sessionRef[s].inflight
        /\ sessionRef'[s].endedBy = sessionRef[s].endedBy
        /\ s # ref[t] => sessionRef'[s] = sessionRef[s]
  BY DEF DeviceInv, DeviceTypes, SessionState, Signal
<1>5. Loaded' /\ Counted'
  BY <1>4 DEF DeviceInv, DeviceTypes, Loaded, Counted, Pins, Signal, Proceeds, Goes, shared, Op,
     WintunThread, Pinning, Ending, Replacing, Sequels
<1>6. OpenIsHeld'
  BY <1>4 DEF DeviceInv, DeviceTypes, OpenIsHeld, Loaded, IsOpen, Signal, Proceeds, Goes, shared, Op,
     WintunThread, Ending, Replacing, Sequels
<1>7. EndsAlone'
  BY <1>4 DEF DeviceInv, DeviceTypes, EndsAlone, OpenIsHeld, Loaded, Signal, Proceeds, Goes, shared, Op,
     WintunThread, Pinning, Entering, Ending, Replacing, Sequels
<1> QED
  BY <1>1, <1>2, <1>3, <1>5, <1>6, <1>7 DEF DeviceInv

-----------------------------------------------------------------------------
(* reopenSession and Close. *)

(* The lock is free when it is taken. *)
LEMMA ReopenLockKeeps ==
  ASSUME DeviceInv, NEW t \in Op, ReopenLock(t)
  PROVE  DeviceInv'
<1>1. DeviceTypes'
  BY DEF DeviceInv, DeviceTypes, ReopenLock, Goes, Op, WintunThread, Pinning,
     Ending, Replacing, Holding, Sequels, OpPlace, CloserPlace
<1>2. OneReplaces'
  BY WintunAssumption DEF DeviceInv, OneReplaces, DeviceTypes, ReopenLock,
     Goes, Op, WintunThread, Ending, Replacing, Holding
<1>3. ClosedForGood'
  BY DEF DeviceInv, ClosedForGood, DeviceTypes, ReopenLock, Goes, Op,
     WintunThread, Ending, Replacing
<1>4. Loaded'
  BY DEF DeviceInv, Loaded, DeviceTypes, ReopenLock, Goes, Op, WintunThread,
     Pinning, Ending, Replacing
<1>5. Counted'
  BY DEF DeviceInv, Counted, DeviceTypes, Pins, ReopenLock, Goes, Op,
     WintunThread, Pinning
<1>6. OpenIsHeld'
  BY DEF DeviceInv, OpenIsHeld, DeviceTypes, IsOpen, ReopenLock, Goes, Op,
     WintunThread, Ending, Replacing
<1>7. EndsAlone'
  BY DEF DeviceInv, EndsAlone, DeviceTypes, ReopenLock, Goes, Op,
     WintunThread, Entering
<1> QED
  BY <1>1, <1>2, <1>3, <1>4, <1>5, <1>6, <1>7 DEF DeviceInv

(* A refused or failed reopening lets go of the lock. *)
LEMMA ReopenFailsKeeps ==
  ASSUME DeviceInv, NEW t \in Op, ReopenFails(t)
  PROVE  DeviceInv'
<1>1. DeviceTypes'
  BY DEF DeviceInv, DeviceTypes, ReopenFails, Goes, Op, WintunThread,
     Pinning, Ending, Replacing, Holding, Sequels, OpPlace, CloserPlace
<1>2. OneReplaces'
  BY WintunAssumption DEF DeviceInv, OneReplaces, DeviceTypes, ReopenFails,
     Goes, Op, WintunThread, Ending, Replacing, Holding
<1>3. ClosedForGood'
  BY DEF DeviceInv, ClosedForGood, DeviceTypes, ReopenFails, Goes, Op,
     WintunThread, Ending, Replacing
<1>4. Loaded'
  BY DEF DeviceInv, Loaded, DeviceTypes, ReopenFails, Goes, Op, WintunThread,
     Pinning, Ending, Replacing
<1>5. Counted'
  BY DEF DeviceInv, Counted, DeviceTypes, Pins, ReopenFails, Goes, Op,
     WintunThread, Pinning
<1>6. OpenIsHeld'
  BY DEF DeviceInv, OpenIsHeld, DeviceTypes, IsOpen, ReopenFails, Goes, Op,
     WintunThread, Ending, Replacing
<1>7. EndsAlone'
  BY DEF DeviceInv, EndsAlone, DeviceTypes, ReopenFails, Goes, Op,
     WintunThread, Entering
<1> QED
  BY <1>1, <1>2, <1>3, <1>4, <1>5, <1>6, <1>7 DEF DeviceInv

(* A new session is in nobody else's hands. *)
LEMMA StartSessionKeeps ==
  ASSUME DeviceInv, NEW t \in Op, StartSession(t)
  PROVE  DeviceInv'
<1>1. DeviceTypes'
  BY WintunAssumption DEF DeviceInv, DeviceTypes, SessionState, Loaded,
     StartSession, Opened, Unopened, NewRef, ReopenRefused, Goes, Loads,
     shared, Op, WintunThread, Pinning, Ending, Replacing, Holding, Sequels,
     OpPlace, CloserPlace
<1>2. OneReplaces'
  BY DEF DeviceInv, OneReplaces, DeviceTypes, StartSession, Opened, Unopened,
     NewRef, ReopenRefused, Goes, Loads, shared, Op, WintunThread, Ending,
     Replacing, Holding
<1>3. ClosedForGood'
  BY DEF DeviceInv, ClosedForGood, DeviceTypes, StartSession, Opened,
     Unopened, NewRef, ReopenRefused, Goes, Loads, shared, Op, WintunThread,
     Ending, Replacing
<1>4. Loaded'
  BY WintunAssumption DEF DeviceInv, Loaded, DeviceTypes, StartSession,
     Opened, Unopened, NewRef, ReopenRefused, Goes, Loads, shared, Op,
     WintunThread, Pinning, Ending, Replacing
<1>5. Counted'
  BY DEF DeviceInv, Counted, DeviceTypes, Pins, StartSession, Opened,
     Unopened, NewRef, ReopenRefused, Goes, Loads, shared, Op, WintunThread,
     Pinning
<1>6. OpenIsHeld'
  BY WintunAssumption DEF DeviceInv, OpenIsHeld, DeviceTypes, IsOpen,
     StartSession, Opened, Unopened, NewRef, ReopenRefused, Goes, Loads,
     shared, Op, WintunThread, Ending, Replacing
<1>7. EndsAlone'
  BY WintunAssumption DEF DeviceInv, EndsAlone, DeviceTypes, StartSession,
     Opened, Unopened, NewRef, ReopenRefused, Goes, Loads, shared, Op,
     WintunThread, Entering
<1> QED
  BY <1>1, <1>2, <1>3, <1>4, <1>5, <1>6, <1>7 DEF DeviceInv

(* The new session takes the place of the old one, which stays in the      *)
(* hands of who holds the lock.                                            *)
LEMMA PublishKeeps ==
  ASSUME DeviceInv, NEW t \in Op, Publish(t)
  PROVE  DeviceInv'
<1>1. DeviceTypes'
  BY DEF DeviceInv, DeviceTypes, Publish, Goes, Loads, Op, WintunThread,
     Pinning, Ending, Replacing, Holding, Sequels, OpPlace, CloserPlace
<1>2. OneReplaces'
  BY DEF DeviceInv, OneReplaces, DeviceTypes, Publish, Goes, Loads, Op,
     WintunThread, Ending, Replacing, Holding
<1>3. ClosedForGood'
  BY DEF DeviceInv, ClosedForGood, DeviceTypes, Loaded, Publish, Goes, Loads,
     Op, WintunThread, Ending, Replacing
<1>4. Loaded'
  BY WintunAssumption DEF DeviceInv, Loaded, DeviceTypes, ClosedForGood,
     Publish, Goes, Loads, Op, WintunThread, Pinning, Ending, Replacing,
     Holding
<1>5. Counted'
  BY DEF DeviceInv, Counted, DeviceTypes, Pins, Publish, Goes, Loads, Op,
     WintunThread, Pinning
<1>6. OpenIsHeld'
  BY WintunAssumption DEF DeviceInv, OpenIsHeld, DeviceTypes, OneReplaces,
     ClosedForGood, Loaded, IsOpen, Publish, Goes, Loads, Op, WintunThread,
     Ending, Replacing, Pinning, Holding
<1>7. EndsAlone'
  BY DEF DeviceInv, EndsAlone, DeviceTypes, Publish, Goes, Loads, Op,
     WintunThread, Entering
<1> QED
  BY <1>1, <1>2, <1>3, <1>4, <1>5, <1>6, <1>7 DEF DeviceInv

(* Close marks the device and goes on to the lock. *)
LEMMA CloseCalledKeeps ==
  ASSUME DeviceInv, CloseCalled
  PROVE  DeviceInv'
<1>1. DeviceTypes'
  BY DEF DeviceInv, DeviceTypes, CloseCalled, Goes, Op, WintunThread,
     Pinning, Ending, Replacing, Holding, Sequels, OpPlace, CloserPlace
<1>2. OneReplaces'
  BY DEF DeviceInv, OneReplaces, DeviceTypes, CloseCalled, Goes, Op,
     WintunThread, Ending, Replacing, Holding
<1>3. ClosedForGood'
  BY DEF DeviceInv, ClosedForGood, DeviceTypes, CloseCalled, Goes, Op,
     WintunThread, Ending, Replacing
<1>4. Loaded'
  BY DEF DeviceInv, Loaded, DeviceTypes, CloseCalled, Goes, Op, WintunThread,
     Pinning, Ending, Replacing
<1>5. Counted'
  BY DEF DeviceInv, Counted, DeviceTypes, Pins, CloseCalled, Goes, Op,
     WintunThread, Pinning
<1>6. OpenIsHeld'
  BY DEF DeviceInv, OpenIsHeld, DeviceTypes, IsOpen, CloseCalled, Goes, Op,
     WintunThread, Ending, Replacing
<1>7. EndsAlone'
  BY DEF DeviceInv, EndsAlone, DeviceTypes, CloseCalled, Goes, Op,
     WintunThread, Entering
<1> QED
  BY <1>1, <1>2, <1>3, <1>4, <1>5, <1>6, <1>7 DEF DeviceInv

(* The event wakes readers, who are not in a session. *)
LEMMA WakeReadersKeeps ==
  ASSUME DeviceInv, WakeReaders
  PROVE  DeviceInv'
<1>1. DeviceTypes'
  BY DEF DeviceInv, DeviceTypes, WakeReaders, Goes, Op, WintunThread,
     Pinning, Ending, Replacing, Holding, Sequels, OpPlace, CloserPlace
<1>2. OneReplaces'
  BY DEF DeviceInv, OneReplaces, DeviceTypes, WakeReaders, Goes, Op,
     WintunThread, Ending, Replacing, Holding
<1>3. ClosedForGood'
  BY DEF DeviceInv, ClosedForGood, DeviceTypes, WakeReaders, Goes, Op,
     WintunThread, Ending, Replacing
<1>4. Loaded'
  BY DEF DeviceInv, Loaded, DeviceTypes, WakeReaders, Goes, Op, WintunThread,
     Pinning, Ending, Replacing
<1>5. Counted'
  BY DEF DeviceInv, Counted, DeviceTypes, Pins, WakeReaders, Goes, Op,
     WintunThread, Pinning
<1>6. OpenIsHeld'
  BY DEF DeviceInv, OpenIsHeld, DeviceTypes, IsOpen, WakeReaders, Goes, Op,
     WintunThread, Ending, Replacing
<1>7. EndsAlone'
  BY DEF DeviceInv, EndsAlone, DeviceTypes, WakeReaders, Goes, Op,
     WintunThread, Entering
<1> QED
  BY <1>1, <1>2, <1>3, <1>4, <1>5, <1>6, <1>7 DEF DeviceInv

(* Close takes the session away when nobody else replaces it. *)
LEMMA UnpublishKeeps ==
  ASSUME DeviceInv, Unpublish
  PROVE  DeviceInv'
<1>1. DeviceTypes'
  BY DEF DeviceInv, DeviceTypes, Unpublish, Goes, Loads, Op, WintunThread,
     Pinning, Ending, Replacing, Holding, Sequels, OpPlace, CloserPlace
<1>2. OneReplaces'
  BY WintunAssumption DEF DeviceInv, OneReplaces, DeviceTypes, Unpublish,
     Goes, Loads, Op, WintunThread, Ending, Replacing, Holding
<1>3. ClosedForGood'
  BY WintunAssumption DEF DeviceInv, ClosedForGood, DeviceTypes, OneReplaces,
     Unpublish, Goes, Loads, Op, WintunThread, Ending, Replacing, Pinning,
     Holding
<1>4. Loaded'
  BY WintunAssumption DEF DeviceInv, Loaded, DeviceTypes, ClosedForGood,
     Unpublish, Goes, Loads, Op, WintunThread, Pinning, Ending, Replacing,
     Holding
<1>5. Counted'
  BY DEF DeviceInv, Counted, DeviceTypes, Pins, Unpublish, Goes, Loads, Op,
     WintunThread, Pinning
<1>6. OpenIsHeld'
  BY WintunAssumption DEF DeviceInv, OpenIsHeld, DeviceTypes, OneReplaces,
     ClosedForGood, Loaded, IsOpen, Unpublish, Goes, Loads, Op, WintunThread,
     Ending, Replacing, Pinning, Holding
<1>7. EndsAlone'
  BY DEF DeviceInv, EndsAlone, DeviceTypes, Unpublish, Goes, Loads, Op,
     WintunThread, Entering
<1> QED
  BY <1>1, <1>2, <1>3, <1>4, <1>5, <1>6, <1>7 DEF DeviceInv

(* Arming the drain is seen by threads that leave afterwards. *)
LEMMA ArmDrainKeeps ==
  ASSUME DeviceInv, NEW t \in WintunThread, ArmDrain(t)
  PROVE  DeviceInv'
<1>1. DeviceTypes'
  <2>1. ref[t] \in WintunSession
    BY DEF DeviceInv, DeviceTypes, Loaded, ArmDrain, Op, WintunThread,
       Pinning, Ending, Replacing
  <2>2. sessionRef[ref[t]] \in SessionState
    BY <2>1 DEF DeviceInv, DeviceTypes
  <2>3. sessionRef' \in [WintunSession -> SessionState]
    BY <2>1, <2>2 DEF DeviceInv, DeviceTypes, SessionState, ArmDrain
  <2> QED
    BY <2>3 DEF DeviceInv, DeviceTypes, ArmDrain, Goes, shared, Op,
       WintunThread, Pinning, Ending, Replacing, Holding, Sequels, OpPlace,
       CloserPlace
<1>2. OneReplaces'
  BY DEF DeviceInv, OneReplaces, DeviceTypes, ArmDrain, Goes, shared, Op,
     WintunThread, Ending, Replacing, Holding
<1>3. ClosedForGood'
  BY DEF DeviceInv, ClosedForGood, DeviceTypes, ArmDrain, Goes, shared, Op,
     WintunThread, Ending, Replacing
<1>4. Loaded'
  BY DEF DeviceInv, Loaded, DeviceTypes, ArmDrain, Goes, shared, Op,
     WintunThread, Pinning, Ending, Replacing
<1>5. Counted'
  BY DEF DeviceInv, Counted, DeviceTypes, Pins, ArmDrain, Goes, shared, Op,
     WintunThread, Pinning
<1>6. OpenIsHeld'
  BY DEF DeviceInv, OpenIsHeld, DeviceTypes, IsOpen, ArmDrain, Goes, shared,
     Op, WintunThread, Ending, Replacing
<1>7. EndsAlone'
  BY DEF DeviceInv, EndsAlone, DeviceTypes, ArmDrain, Goes, shared, Op,
     WintunThread, Entering
<1> QED
  BY <1>1, <1>2, <1>3, <1>4, <1>5, <1>6, <1>7 DEF DeviceInv

(* From here on a signal is that of the last thread to leave. *)
LEMMA ResetEventKeeps ==
  ASSUME DeviceInv, NEW t \in WintunThread, ResetEvent(t)
  PROVE  DeviceInv'
<1>1. DeviceTypes'
  <2>1. ref[t] \in WintunSession
    BY DEF DeviceInv, DeviceTypes, Loaded, ResetEvent, Op, WintunThread,
       Pinning, Ending, Replacing
  <2>2. sessionRef[ref[t]] \in SessionState
    BY <2>1 DEF DeviceInv, DeviceTypes
  <2>3. sessionRef' \in [WintunSession -> SessionState]
    BY <2>1, <2>2 DEF DeviceInv, DeviceTypes, SessionState, ResetEvent
  <2> QED
    BY <2>3 DEF DeviceInv, DeviceTypes, ResetEvent, Goes, shared, Op,
       WintunThread, Pinning, Ending, Replacing, Holding, Sequels, OpPlace,
       CloserPlace
<1>2. OneReplaces'
  BY DEF DeviceInv, OneReplaces, DeviceTypes, ResetEvent, Goes, shared, Op,
     WintunThread, Ending, Replacing, Holding
<1>3. ClosedForGood'
  BY DEF DeviceInv, ClosedForGood, DeviceTypes, ResetEvent, Goes, shared, Op,
     WintunThread, Ending, Replacing
<1>4. Loaded'
  BY DEF DeviceInv, Loaded, DeviceTypes, ResetEvent, Goes, shared, Op,
     WintunThread, Pinning, Ending, Replacing
<1>5. Counted'
  BY DEF DeviceInv, Counted, DeviceTypes, Pins, ResetEvent, Goes, shared, Op,
     WintunThread, Pinning
<1>6. OpenIsHeld'
  BY DEF DeviceInv, OpenIsHeld, DeviceTypes, IsOpen, ResetEvent, Goes,
     shared, Op, WintunThread, Ending, Replacing
<1>7. EndsAlone'
  BY WintunAssumption DEF DeviceInv, EndsAlone, DeviceTypes, OneReplaces,
     Counted, OpenIsHeld, Loaded, ResetEvent, Goes, shared, Op, WintunThread,
     Entering, Pinning, Ending, Replacing, Holding
<1> QED
  BY <1>1, <1>2, <1>3, <1>4, <1>5, <1>6, <1>7 DEF DeviceInv

(* A counter of zero means that nobody is inside. *)
LEMMA LookInflightKeeps ==
  ASSUME DeviceInv, NEW t \in WintunThread, LookInflight(t)
  PROVE  DeviceInv'
<1>1. DeviceTypes'
  BY DEF DeviceInv, DeviceTypes, LookInflight, Goes, shared, Op,
     WintunThread, Pinning, Ending, Replacing, Holding, Sequels, OpPlace,
     CloserPlace
<1>2. OneReplaces'
  BY DEF DeviceInv, OneReplaces, DeviceTypes, LookInflight, Goes, shared, Op,
     WintunThread, Ending, Replacing, Holding
<1>3. ClosedForGood'
  BY DEF DeviceInv, ClosedForGood, DeviceTypes, LookInflight, Goes, shared,
     Op, WintunThread, Ending, Replacing
<1>4. Loaded'
  BY DEF DeviceInv, Loaded, DeviceTypes, LookInflight, Goes, shared, Op,
     WintunThread, Pinning, Ending, Replacing
<1>5. Counted'
  BY DEF DeviceInv, Counted, DeviceTypes, Pins, LookInflight, Goes, shared,
     Op, WintunThread, Pinning
<1>6. OpenIsHeld'
  BY DEF DeviceInv, OpenIsHeld, DeviceTypes, IsOpen, LookInflight, Goes,
     shared, Op, WintunThread, Ending, Replacing
<1>7. EndsAlone'
  BY WintunAssumption DEF DeviceInv, EndsAlone, DeviceTypes, OneReplaces,
     Counted, OpenIsHeld, Loaded, Pins, LookInflight, Goes, shared, Op,
     WintunThread, Entering, Pinning, Ending, Replacing, Holding
<1> QED
  BY <1>1, <1>2, <1>3, <1>4, <1>5, <1>6, <1>7 DEF DeviceInv

(* A signal after the reset means that nobody is inside. *)
LEMMA WaitDrainedKeeps ==
  ASSUME DeviceInv, NEW t \in WintunThread, WaitDrained(t)
  PROVE  DeviceInv'
<1>1. DeviceTypes'
  BY DEF DeviceInv, DeviceTypes, WaitDrained, Goes, shared, Op, WintunThread,
     Pinning, Ending, Replacing, Holding, Sequels, OpPlace, CloserPlace
<1>2. OneReplaces'
  BY DEF DeviceInv, OneReplaces, DeviceTypes, WaitDrained, Goes, shared, Op,
     WintunThread, Ending, Replacing, Holding
<1>3. ClosedForGood'
  BY DEF DeviceInv, ClosedForGood, DeviceTypes, WaitDrained, Goes, shared,
     Op, WintunThread, Ending, Replacing
<1>4. Loaded'
  BY DEF DeviceInv, Loaded, DeviceTypes, WaitDrained, Goes, shared, Op,
     WintunThread, Pinning, Ending, Replacing
<1>5. Counted'
  BY DEF DeviceInv, Counted, DeviceTypes, Pins, WaitDrained, Goes, shared,
     Op, WintunThread, Pinning
<1>6. OpenIsHeld'
  BY DEF DeviceInv, OpenIsHeld, DeviceTypes, IsOpen, WaitDrained, Goes,
     shared, Op, WintunThread, Ending, Replacing
<1>7. EndsAlone'
  BY DEF DeviceInv, EndsAlone, DeviceTypes, Pins, WaitDrained, Goes, shared,
     Op, WintunThread, Entering
<1> QED
  BY <1>1, <1>2, <1>3, <1>4, <1>5, <1>6, <1>7 DEF DeviceInv

(* What is ended is not current, and nobody is inside if a call ends it. *)
LEMMA EndSessionKeeps ==
  ASSUME DeviceInv, NEW t \in WintunThread, EndSession(t)
  PROVE  DeviceInv'
<1>1. DeviceTypes'
  BY WintunAssumption DEF DeviceInv, DeviceTypes, SessionState, Loaded,
     EndSession, Goes, Op, WintunThread, Pinning, Ending, Replacing, Holding,
     Sequels, OpPlace, CloserPlace
<1>2. OneReplaces'
  BY WintunAssumption DEF DeviceInv, OneReplaces, DeviceTypes, EndSession,
     Goes, Op, WintunThread, Ending, Replacing, Holding
<1>3. ClosedForGood'
  BY DEF DeviceInv, ClosedForGood, DeviceTypes, EndSession, Goes, Op,
     WintunThread, Ending, Replacing
<1>4. Loaded'
  BY DEF DeviceInv, Loaded, DeviceTypes, EndSession, Goes, Op, WintunThread,
     Pinning, Ending, Replacing
<1>5. Counted'
  BY DEF DeviceInv, Counted, DeviceTypes, Pins, EndSession, Goes, Op,
     WintunThread, Pinning
<1>6. OpenIsHeld'
  BY WintunAssumption DEF DeviceInv, OpenIsHeld, DeviceTypes, OneReplaces,
     ClosedForGood, Loaded, IsOpen, EndSession, Goes, Op, WintunThread,
     Ending, Replacing, Pinning, Holding
<1>7. EndsAlone'
  BY DEF DeviceInv, EndsAlone, DeviceTypes, EndSession, Goes, Op,
     WintunThread, Entering
<1> QED
  BY <1>1, <1>2, <1>3, <1>4, <1>5, <1>6, <1>7 DEF DeviceInv

-----------------------------------------------------------------------------
LEMMA DeviceInvKept ==
  ASSUME DeviceInv, [DeviceNext]_deviceVars
  PROVE  DeviceInv'
<1>1. ASSUME NEW t \in Op, Operates(t) PROVE DeviceInv'
  BY <1>1, PinKeeps, RecheckKeeps, MovesKeep, LeaveKeeps, SignalKeeps, ReopenLockKeeps,
     ReopenFailsKeeps, StartSessionKeeps, PublishKeeps DEF Operates
<1>2. ASSUME NEW t \in WintunThread, Ends(t) PROVE DeviceInv'
  BY <1>2, ArmDrainKeeps, ResetEventKeeps, LookInflightKeeps, WaitDrainedKeeps, EndSessionKeeps DEF Ends
<1>3. CASE ReaderGoesOn \/ WriterGoesOn
  BY <1>1, <1>2, <1>3, MovesKeep DEF ReaderGoesOn, WriterGoesOn, Op, WintunThread
<1>4. CASE CloserGoesOn
  BY <1>2, <1>4, WakeReadersKeeps, UnpublishKeeps DEF CloserGoesOn, WintunThread
<1>5. CASE (\E t \in Op : LoadCurrent(t)) \/ WakeForPacket \/ CloseCalled
  BY <1>5, LoadCurrentKeeps, MovesKeep, CloseCalledKeeps
<1>6. CASE UNCHANGED deviceVars
  BY <1>6 DEF deviceVars, shared, DeviceInv, DeviceTypes, OneReplaces, ClosedForGood,
     Loaded, Counted, Pins, OpenIsHeld, IsOpen, EndsAlone
<1> QED
  BY <1>3, <1>4, <1>5, <1>6 DEF DeviceNext

LEMMA DrainedByInv ==
  ASSUME DeviceInv
  PROVE  SessionsAreDrained
<1>1. \A s \in WintunSession : sessionRef[s].endedBy \in Op => Inside(s) = {}
  BY DEF DeviceInv, EndsAlone, Inside, Entering
<1>2. \A s \in WintunSession : IsOpen(s) => s = cur \/ (reopenMu # NoSession /\ ref[reopenMu] = s)
  BY WintunAssumption DEF DeviceInv, OpenIsHeld, OneReplaces, Holding
<1>3. at["closer"] = "stopped" => \A s \in WintunSession : ~IsOpen(s)
  BY WintunAssumption DEF DeviceInv, OpenIsHeld, ClosedForGood, Op, WintunThread, Ending, Replacing
<1> QED
  BY <1>1, <1>2, <1>3 DEF SessionsAreDrained

(* However calls of Read, Write and Close overlap, and however many        *)
(* sessions they go through (beginOp, endOp, reopenSession, Close): the    *)
(* invariant above holds.                                                  *)
THEOREM DeviceHolds == DeviceSpec => []DeviceInv
<1>1. DeviceInit => DeviceInv
  BY DeviceInitially
<1>2. DeviceInv /\ [DeviceNext]_deviceVars => DeviceInv'
  BY DeviceInvKept
<1> QED
  BY <1>1, <1>2, PTL DEF DeviceSpec

(* A call that replaces a session (reopenSession) never ends it while      *)
(* another call is inside it, no session is lost, and nothing is open once *)
(* Close has returned.                                                     *)
THEOREM SessionsAreDrainedHolds == DeviceSpec => []SessionsAreDrained
<1>1. DeviceInv => SessionsAreDrained
  BY DrainedByInv
<1> QED
  BY <1>1, DeviceHolds, PTL

-----------------------------------------------------------------------------
(* The two links.  A behaviour is about one of them, or about the device;  *)
(* what TcpRekeyProofs shows of a session is cited for the fast link as it *)
(* stands, and for the slow one with its constants.                        *)
SlowFacts == INSTANCE TcpRekeyProofs WITH
  V2 <- TRUE, SlowLink <- TRUE, MaxEpoch <- 2, MaxInFlight <- 2

(* Steps of the slow session are those of SlowFacts. *)
LEMMA SlowSteps == SlowFacts!Next <=> Slow!Next
<1> USE DEF SlowFacts!Node, Slow!Node, SlowFacts!Peer, Slow!Peer,
            SlowFacts!InitialKey, Slow!InitialKey, SlowFacts!Plain, Slow!Plain,
            SlowFacts!vars, Slow!vars, SlowFacts!crypto, Slow!crypto,
            SlowFacts!exchange, Slow!exchange
<1>1. ASSUME NEW n, NEW body PROVE SlowFacts!Write(n, body) <=> Slow!Write(n, body)
  BY DEF SlowFacts!Write, Slow!Write, SlowFacts!Room, Slow!Room, SlowFacts!Sealed, Slow!Sealed
<1>2. ASSUME NEW n PROVE SlowFacts!Take(n) <=> Slow!Take(n)
  BY DEF SlowFacts!Take, Slow!Take
<1> USE DEF SlowFacts!Opens, Slow!Opens, SlowFacts!EpochsExhausted, Slow!EpochsExhausted,
            SlowFacts!ObservedSm, Slow!ObservedSm, SlowFacts!PreviousAfter, Slow!PreviousAfter,
            SlowFacts!RetiresNow, Slow!RetiresNow, SlowFacts!Releases, Slow!Releases,
            SlowFacts!RetirePrevious, Slow!RetirePrevious,
            SlowFacts!RecordObserved, Slow!RecordObserved,
            SlowFacts!DueForRetirement, Slow!DueForRetirement,
            SlowFacts!ReadyForRekey, Slow!ReadyForRekey, SlowFacts!Derive, Slow!Derive
<1>3. ASSUME NEW n PROVE SlowFacts!TunSend(n) <=> Slow!TunSend(n)
  BY <1>1 DEF SlowFacts!TunSend, Slow!TunSend
<1>4. SlowFacts!SendPing <=> Slow!SendPing
  BY <1>1 DEF SlowFacts!SendPing, Slow!SendPing
<1>5. SlowFacts!SendRekeyInit <=> Slow!SendRekeyInit
  BY <1>1 DEF SlowFacts!SendRekeyInit, Slow!SendRekeyInit
<1>6. SlowFacts!SendReply <=> Slow!SendReply
  BY <1>1 DEF SlowFacts!SendReply, Slow!SendReply
<1>7. SlowFacts!BuildRekeyInit <=> Slow!BuildRekeyInit
  BY DEF SlowFacts!BuildRekeyInit, Slow!BuildRekeyInit, SlowFacts!CarrierChanged, Slow!CarrierChanged,
         SlowFacts!PendingForInit, Slow!PendingForInit, SlowFacts!Prologue, Slow!Prologue,
         SlowFacts!RekeyInit, Slow!RekeyInit
<1>8. ASSUME NEW n PROVE SlowFacts!DecryptFails(n) <=> Slow!DecryptFails(n)
  BY <1>2 DEF SlowFacts!DecryptFails, Slow!DecryptFails
<1>9. SlowFacts!ClientReceive <=> Slow!ClientReceive
  BY <1>2 DEF SlowFacts!ClientReceive, Slow!ClientReceive,
              SlowFacts!AckConsidered, Slow!AckConsidered
<1>10. SlowFacts!ClientReceiveExhausted <=> Slow!ClientReceiveExhausted
  BY <1>2 DEF SlowFacts!ClientReceiveExhausted, Slow!ClientReceiveExhausted
<1>11. SlowFacts!ClientHandleAck <=> Slow!ClientHandleAck
  BY DEF SlowFacts!ClientHandleAck, Slow!ClientHandleAck, SlowFacts!Take, Slow!Take,
         SlowFacts!AckConsidered, Slow!AckConsidered, SlowFacts!AckInstalls, Slow!AckInstalls,
         SlowFacts!AckMeetsExhaustion, Slow!AckMeetsExhaustion,
         SlowFacts!AckAuthentic, Slow!AckAuthentic,
         SlowFacts!RecordActivated, Slow!RecordActivated, SlowFacts!RecordStaged, Slow!RecordStaged
<1> USE DEF SlowFacts!ServerTakes, Slow!ServerTakes, SlowFacts!SeenTx, Slow!SeenTx,
            SlowFacts!TxObserved, Slow!TxObserved, SlowFacts!SameRequest, Slow!SameRequest,
            SlowFacts!Complete, Slow!Complete, SlowFacts!MayResend, Slow!MayResend,
            SlowFacts!MayStart, Slow!MayStart, SlowFacts!Answerable, Slow!Answerable
<1>12. SlowFacts!ServerReceive <=> Slow!ServerReceive
  BY DEF SlowFacts!ServerReceive, Slow!ServerReceive, SlowFacts!Take, Slow!Take
<1>13. SlowFacts!ServerResendAck <=> Slow!ServerResendAck
  BY DEF SlowFacts!ServerResendAck, Slow!ServerResendAck, SlowFacts!Take, Slow!Take
<1>14. SlowFacts!ServerStartRekey <=> Slow!ServerStartRekey
  BY DEF SlowFacts!ServerStartRekey, Slow!ServerStartRekey, SlowFacts!Take, Slow!Take,
         SlowFacts!RekeyAck, Slow!RekeyAck, SlowFacts!RecordStaged, Slow!RecordStaged,
         SlowFacts!NewTransaction, Slow!NewTransaction
<1>15. SlowFacts!ServerDeclineInit <=> Slow!ServerDeclineInit
  BY DEF SlowFacts!ServerDeclineInit, Slow!ServerDeclineInit, SlowFacts!Take, Slow!Take
<1>16. SlowFacts!ServerActivate <=> Slow!ServerActivate
  BY DEF SlowFacts!ServerActivate, Slow!ServerActivate, SlowFacts!TxActivated, Slow!TxActivated,
         SlowFacts!CanActivate, Slow!CanActivate, SlowFacts!RecordActivated, Slow!RecordActivated
<1>17. SlowFacts!Ended <=> Slow!Ended
  BY DEF SlowFacts!Ended, Slow!Ended
<1> QED
  BY <1>3, <1>4, <1>5, <1>6, <1>7, <1>8, <1>9, <1>10, <1>11, <1>12, <1>13, <1>14, <1>15,
     <1>16, <1>17 DEF SlowFacts!Next, Slow!Next

(* So is its state, and what it is to keep. *)
LEMMA SlowStates ==
  /\ Init => SlowFacts!Init
  /\ SlowFacts!RetiredEpochIsDrained => RetiredEpochIsDrained
  /\ SlowFacts!ControlPlaneMatchesCrypto => ControlPlaneMatchesCrypto
<1>1. Init => SlowFacts!Init
  BY DEF Init, SlowFacts!Init, Node, SlowFacts!Node, NewStateMachine, SlowFacts!NewStateMachine,
         InitialKey, SlowFacts!InitialKey
<1>2. SlowFacts!RetiredEpochIsDrained => RetiredEpochIsDrained
  BY DEF SlowFacts!RetiredEpochIsDrained, RetiredEpochIsDrained, SlowFacts!Node, Node
<1>3. SlowFacts!ControlPlaneMatchesCrypto => ControlPlaneMatchesCrypto
  BY DEF SlowFacts!ControlPlaneMatchesCrypto, ControlPlaneMatchesCrypto,
         SlowFacts!TypesMatch, TypesMatch, SlowFacts!Node, Node, SlowFacts!Entry, Entry,
         SlowFacts!Key, Key, SlowFacts!Pending, Pending, SlowFacts!Transaction, Transaction,
         SlowFacts!Payload, Payload, SlowFacts!Kind, Kind, SlowFacts!Frame, Frame,
         SlowFacts!StateMachine, StateMachine, SlowFacts!Phase, Phase
<1> QED
  BY <1>1, <1>2, <1>3

(* What is assumed of the constants of the configuration holds of those of *)
(* the slow session.                                                       *)
LEMMA SlowAssumptions ==
  /\ TRUE \in BOOLEAN
  /\ 2 \in Nat /\ TRUE \in BOOLEAN /\ 2 \in Nat \ {0}
  /\ None \notin SlowFacts!Entry
  /\ None \notin SlowFacts!Payload \cup SlowFacts!Transaction \cup SlowFacts!Pending
BY NoEntryAssumption, NoneAssumption
   DEF SlowFacts!Entry, Entry, SlowFacts!Key, Key, SlowFacts!Pending, Pending,
       SlowFacts!Transaction, Transaction, SlowFacts!Payload, Payload, SlowFacts!Kind, Kind

LEMMA SlowSessionHolds ==
  SlowFacts!Spec => []SlowFacts!RetiredEpochIsDrained /\ []SlowFacts!ControlPlaneMatchesCrypto
<1>1. SlowFacts!Spec => []SlowFacts!RetiredEpochIsDrained
  BY SlowAssumptions, SlowFacts!RetiredEpochIsDrainedHolds
<1>2. SlowFacts!Spec => []SlowFacts!ControlPlaneMatchesCrypto
  BY SlowAssumptions, SlowFacts!ControlPlaneHolds
<1> QED
  BY <1>1, <1>2, PTL

(* A behaviour is about what it began with, and is a behaviour of that. *)
OnFast == link = "fast"
OnSlow == link = "slow"
OnDevice == link = "device"

LEMMA LinkSteps ==
  /\ LinkInit => Init /\ (OnFast \/ OnSlow \/ OnDevice)
  /\ OnFast /\ [LinkNext]_linkVars => OnFast' /\ [Next]_vars
  /\ OnSlow /\ [LinkNext]_linkVars => OnSlow' /\ [SlowFacts!Next]_(SlowFacts!vars)
  /\ OnDevice /\ [LinkNext]_linkVars => OnDevice' /\ [Next]_vars
<1>1. LinkInit => Init /\ (OnFast \/ OnSlow \/ OnDevice)
  BY DEF LinkInit, OnFast, OnSlow, OnDevice
<1>2. UNCHANGED linkVars => UNCHANGED vars /\ UNCHANGED link
  BY DEF linkVars
<1>3. OnFast /\ [LinkNext]_linkVars => OnFast' /\ [Next]_vars
  BY <1>2 DEF LinkNext, OnFast
<1>4. OnSlow /\ [LinkNext]_linkVars => OnSlow' /\ [SlowFacts!Next]_(SlowFacts!vars)
  <2>1. UNCHANGED vars => UNCHANGED SlowFacts!vars
    BY DEF vars, crypto, exchange, SlowFacts!vars, SlowFacts!crypto, SlowFacts!exchange
  <2> QED
    BY <1>2, <2>1, SlowSteps DEF LinkNext, OnSlow
<1>5. OnDevice /\ [LinkNext]_linkVars => OnDevice' /\ [Next]_vars
  BY <1>2 DEF LinkNext, OnDevice
<1> QED
  BY <1>1, <1>3, <1>4, <1>5

LEMMA LinkIsOne ==
  LinkSpec => (Spec /\ []OnFast) \/ (SlowFacts!Spec /\ []OnSlow) \/ (Spec /\ []OnDevice)
<1>1. Init => SlowFacts!Init
  BY SlowStates
<1> QED
  BY <1>1, LinkSteps, PTL DEF LinkSpec, Spec, SlowFacts!Spec

(* The keys of an epoch outlive the frames sealed under it, however often  *)
(* the session rekeys: on either link an end that has dropped a session    *)
(* has no frame of it on its way, and on the link whose answers come       *)
(* within the rotation interval no end meets a frame it cannot open.       *)
THEOREM EpochsOutliveFramesHold == ASSUME ~SlowLink PROVE LinkSpec => []EpochsOutliveFrames
<1>1. /\ OnSlow \/ OnDevice => (RetiredEpochIsDrained => EpochsOutliveFrames)
      /\ RetiredEpochIsDrained /\ EveryFrameOpens => EpochsOutliveFrames
      /\ SlowFacts!RetiredEpochIsDrained => RetiredEpochIsDrained
  BY SlowStates DEF OnSlow, OnDevice, EpochsOutliveFrames
<1>2. Spec => []EveryFrameOpens
  BY EveryFrameOpensHolds
<1> QED
  BY <1>1, <1>2, LinkIsOne, RetiredEpochIsDrainedHolds, SlowSessionHolds, PTL

(* The control plane and the crypto of an end agree on either link.        *)
THEOREM LinkControlPlaneHolds == LinkSpec => []ControlPlaneMatchesCrypto
<1>1. SlowFacts!ControlPlaneMatchesCrypto => ControlPlaneMatchesCrypto
  BY SlowStates
<1> QED
  BY <1>1, LinkIsOne, ControlPlaneHolds, SlowSessionHolds, PTL

LEMMA SlowHandover ==
  /\ SlowFacts!Handover!HandoverInit => Handover!HandoverInit
  /\ [SlowFacts!Handover!HandoverNext]_(SlowFacts!Handover!handoverVars)
       => [Handover!HandoverNext]_(Handover!handoverVars)
<1> USE DEF SlowFacts!Handover!handoverVars, Handover!handoverVars,
            SlowFacts!Handover!End, Handover!End, SlowFacts!Handover!Other, Handover!Other,
            SlowFacts!Holdings, Holdings, SlowFacts!Held, Held, SlowFacts!Node, Node,
            SlowFacts!InitialKey, InitialKey
<1>1. SlowFacts!Handover!HandoverInit => Handover!HandoverInit
  BY DEF SlowFacts!Handover!HandoverInit, Handover!HandoverInit
<1>2. SlowFacts!Handover!HandoverNext => Handover!HandoverNext
  BY DEF SlowFacts!Handover!HandoverNext, Handover!HandoverNext,
         SlowFacts!Handover!ServerInstalls, Handover!ServerInstalls,
         SlowFacts!Handover!ClientInstalls, Handover!ClientInstalls,
         SlowFacts!Handover!ServerSwitches, Handover!ServerSwitches,
         SlowFacts!Handover!Forgets, Handover!Forgets,
         SlowFacts!Handover!Keeps, Handover!Keeps, SlowFacts!Handover!InUse, Handover!InUse
<1>3. UNCHANGED SlowFacts!Handover!handoverVars => UNCHANGED Handover!handoverVars
  OBVIOUS
<1> QED
  BY <1>1, <1>2, <1>3

(* Either session is a handover of epochs; on the fast link under rekey V1 *)
(* as well. *)
THEOREM LinkImplementsHandover == ASSUME ~SlowLink PROVE LinkSpec => ImplementsHandover
<1>1. Spec => ImplementsHandover
  BY HandoverImplemented
<1>2. SlowFacts!Spec => SlowFacts!ImplementsHandover
  <2>1. TRUE \/ ~TRUE
    OBVIOUS
  <2> QED
    BY <2>1, SlowAssumptions, SlowFacts!HandoverImplemented
<1>3. SlowFacts!ImplementsHandover => ImplementsHandover
  BY SlowHandover, PTL DEF SlowFacts!ImplementsHandover, ImplementsHandover,
     SlowFacts!Handover!HandoverSpec, Handover!HandoverSpec
<1> QED
  BY <1>1, <1>2, <1>3, LinkIsOne, PTL

(* The device of the machine, beside either link: no call is inside a      *)
(* session that another call replaces and ends. *)
THEOREM LinkDeviceIsDrained == LinkSpec => []SessionsAreDrained
<1>1. LinkInit => (OnDevice /\ DeviceInit) \/ (~OnDevice /\ DeviceRests)
  BY DEF LinkInit, OnDevice
<1>2. DeviceRests => SessionsAreDrained
  <2> SUFFICES ASSUME DeviceRests PROVE SessionsAreDrained
    OBVIOUS
  <2>1. \A s \in WintunSession : sessionRef[s].endedBy = "closer"
    BY DEF DeviceRests, Opened, NewRef
  <2>2. \A t \in Op : t # "closer"
    BY DEF Op
  <2>3. "closer" # NoSession
    BY WintunAssumption DEF WintunThread, Op
  <2> QED
    BY <2>1, <2>2, <2>3 DEF SessionsAreDrained, IsOpen
<1>3. OnDevice /\ [LinkNext]_linkVars => OnDevice' /\ [DeviceNext]_deviceVars
  BY DEF LinkNext, OnDevice, linkVars
<1>4. ~OnDevice /\ [LinkNext]_linkVars => (~OnDevice)' /\ UNCHANGED deviceVars
  BY DEF LinkNext, OnDevice, linkVars
<1>5. DeviceRests /\ UNCHANGED deviceVars => DeviceRests'
  <2> SUFFICES ASSUME DeviceRests, UNCHANGED deviceVars PROVE DeviceRests'
    OBVIOUS
  <2>1. /\ sessionRef' = sessionRef /\ cur' = cur /\ deviceClosed' = deviceClosed
        /\ closeEvent' = closeEvent /\ reopenMu' = reopenMu /\ at' = at /\ ref' = ref
        /\ sequel' = sequel
    BY DEF deviceVars, shared
  <2> QED
    BY <2>1 DEF DeviceRests
<1> QED
  BY <1>1, <1>2, <1>3, <1>4, <1>5, SessionsAreDrainedHolds, PTL DEF LinkSpec, DeviceSpec
=============================================================================
