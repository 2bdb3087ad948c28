---------------------------- MODULE WintunDevice ----------------------------
(***************************************************************************)
(* The TUN device of a Windows client (wtun.TUN): a reader, a writer and a *)
(* closer that share Wintun sessions without a lock on their way.          *)
(*                                                                         *)
(* An operation pins the current session by a counter and looks again      *)
(* whether the session is still the current one.  Who replaces a session   *)
(* (reopenSession) or takes it away (Close) unpublishes it, asks for a     *)
(* signal when the counter falls to zero, waits for it unless the counter  *)
(* is zero already, and ends the session.  One atomic access, one step.    *)
(*                                                                         *)
(* Of Wintun: a session may be found ended or broken at any moment, and a  *)
(* reader that waits for packets may be woken at any moment.  Using the    *)
(* handle of a closed event is an error or has no effect: the model does   *)
(* not give its number to another object.                                  *)
(***************************************************************************)
EXTENDS Integers

CONSTANTS
  WintunSession,  \* the sessions that can be started (a bound of the model if finite)
  NoSession       \* stands for no session, or for no thread

Op == {"reader", "writer"}
WintunThread == Op \cup {"closer"}

ASSUME WintunAssumption ==
  /\ WintunSession # {}
  /\ NoSession \notin WintunSession \cup WintunThread \cup {"nobody"}

VARIABLES
  sessionRef,     \* each session's inflight, drainWait, zeroEvent, and who ended it
  cur,            \* TUN.cur
  deviceClosed,   \* TUN.closed
  closeEvent,     \* "unset", "set", or "gone" once its handle is closed
  reopenMu,       \* the holder of TUN.reopenMu
  at,             \* where each thread is
  ref,            \* the session it has loaded
  sequel          \* what an operation does when it has left the session

shared == <<cur, deviceClosed, closeEvent, reopenMu>>
deviceVars == <<sessionRef, shared, at, ref, sequel>>

NewRef(e) == [inflight |-> 0, drainWait |-> FALSE, zeroEvent |-> FALSE, endedBy |-> e]
Opened == NewRef(NoSession)
Unopened == NewRef("nobody")

DeviceInit ==
  /\ cur \in WintunSession
  /\ sessionRef = [s \in WintunSession |-> IF s = cur THEN Opened ELSE Unopened]
  /\ deviceClosed = FALSE
  /\ closeEvent = "unset"
  /\ reopenMu = NoSession
  /\ at = [t \in WintunThread |-> "idle"]
  /\ ref = [t \in WintunThread |-> NoSession]
  /\ sequel = [t \in Op |-> "idle"]

Goes(t, place) == at' = [at EXCEPT ![t] = place]
Loads(t, s) == ref' = [ref EXCEPT ![t] = s]

-----------------------------------------------------------------------------
(* Read and Write: beginOp, the call of the session, endOp. *)

LoadCurrent(t) ==
  /\ at[t] = "idle"
  /\ IF deviceClosed THEN Goes(t, "stopped") /\ UNCHANGED ref
     ELSE Goes(t, "pin") /\ Loads(t, cur)
  /\ UNCHANGED <<sessionRef, shared, sequel>>

Pin(t) ==
  /\ at[t] = "pin"
  /\ sessionRef' = [sessionRef EXCEPT ![ref[t]].inflight = @ + 1]
  /\ Goes(t, "recheck")
  /\ UNCHANGED <<shared, ref, sequel>>

StillCurrentUnchecked(t) == TRUE  \* mutant: the pin is not validated
StillCurrent(t) == ref[t] = cur

Recheck(t) ==
  /\ at[t] = "recheck"
  /\ Goes(t, IF StillCurrent(t) THEN "recheckClosed" ELSE "leave")
  /\ UNCHANGED <<sessionRef, shared, ref, sequel>>

RecheckClosed(t) ==
  /\ at[t] = "recheckClosed"
  /\ Goes(t, IF deviceClosed THEN "leave" ELSE "inside")
  /\ UNCHANGED <<sessionRef, shared, ref, sequel>>

(* What a thread does when it has left the session: the next call or       *)
(* attempt, the wait for a packet, a new session, or an error.             *)
Sequel(t) == {"idle", "reopen", "stopped"} \cup (IF t = "reader" THEN {"wait"} ELSE {})

UseSession(t) ==
  /\ at[t] = "inside"
  /\ \E s \in Sequel(t) : sequel' = [sequel EXCEPT ![t] = s]
  /\ Goes(t, "leave")
  /\ UNCHANGED <<sessionRef, shared, ref>>

(* endOp, and the way back of a pin that came too late. *)
Proceeds(t) == Goes(t, sequel[t]) /\ sequel' = [sequel EXCEPT ![t] = "idle"]

Leave(t) ==
  /\ at[t] = "leave"
  /\ sessionRef' = [sessionRef EXCEPT ![ref[t]].inflight = @ - 1]
  /\ IF sessionRef[ref[t]].inflight = 1
       THEN Goes(t, "signal") /\ UNCHANGED sequel
       ELSE Proceeds(t)
  /\ UNCHANGED <<shared, ref>>

Signal(t) ==
  /\ at[t] = "signal"
  /\ IF sessionRef[ref[t]].drainWait
       THEN sessionRef' = [sessionRef EXCEPT ![ref[t]].zeroEvent = TRUE]
       ELSE UNCHANGED sessionRef
  /\ Proceeds(t)
  /\ UNCHANGED <<shared, ref>>

(* waitReadOrClose, for the event of the session that is current now.      *)
WaitCurrent ==
  /\ at["reader"] = "wait"
  /\ Goes("reader", IF cur = NoSession THEN "idle" ELSE "waiting")
  /\ UNCHANGED <<sessionRef, shared, ref, sequel>>

WakeForPacket ==
  /\ at["reader"] = "waiting"
  /\ Goes("reader", "idle")
  /\ UNCHANGED <<sessionRef, shared, ref, sequel>>

WakeForClose ==
  /\ at["reader"] = "waiting"
  /\ closeEvent # "unset"
  /\ Goes("reader", "stopped")
  /\ UNCHANGED <<sessionRef, shared, ref, sequel>>

-----------------------------------------------------------------------------
(* reopenSession and Close.  The thread's ref is the session it has started *)
(* and then, from Publish on, the one that is to be ended.                 *)

ReopenLock(t) ==
  /\ at[t] = "reopen"
  /\ reopenMu = NoSession
  /\ reopenMu' = t
  /\ Goes(t, "reopenCheck")
  /\ UNCHANGED <<sessionRef, cur, deviceClosed, closeEvent, ref, sequel>>

ReopenRefused == deviceClosed

(* Also the failures of StartSession and of CreateEvent. *)
ReopenFails(t) ==
  /\ at[t] = "reopenCheck"
  /\ reopenMu' = NoSession
  /\ Goes(t, "stopped")
  /\ UNCHANGED <<sessionRef, cur, deviceClosed, closeEvent, ref, sequel>>

StartSession(t) ==
  /\ at[t] = "reopenCheck"
  /\ ~ReopenRefused
  /\ \E s \in WintunSession :
       /\ sessionRef[s] = Unopened
       /\ sessionRef' = [sessionRef EXCEPT ![s] = Opened]
       /\ Loads(t, s)
  /\ Goes(t, "publish")
  /\ UNCHANGED <<shared, sequel>>

Publish(t) ==
  /\ at[t] = "publish"
  /\ cur' = ref[t]
  /\ Loads(t, cur)
  /\ Goes(t, "arm")
  /\ UNCHANGED <<sessionRef, deviceClosed, closeEvent, reopenMu, sequel>>

CloseCalled ==
  /\ at["closer"] = "idle"
  /\ deviceClosed' = TRUE
  /\ Goes("closer", "wake")
  /\ UNCHANGED <<sessionRef, cur, closeEvent, reopenMu, ref, sequel>>

WakeReaders ==
  /\ at["closer"] = "wake"
  /\ closeEvent' = "set"
  /\ Goes("closer", "lock")
  /\ UNCHANGED <<sessionRef, cur, deviceClosed, reopenMu, ref, sequel>>

Unpublish ==
  /\ at["closer"] = "lock"
  /\ reopenMu = NoSession
  /\ reopenMu' = "closer"
  /\ Loads("closer", cur)
  /\ cur' = NoSession
  /\ Goes("closer", "arm")
  /\ UNCHANGED <<sessionRef, deviceClosed, closeEvent, sequel>>

ArmDrain(t) ==
  /\ at[t] = "arm"
  /\ sessionRef' = [sessionRef EXCEPT ![ref[t]].drainWait = TRUE]
  /\ Goes(t, "reset")
  /\ UNCHANGED <<shared, ref, sequel>>

ResetEvent(t) ==
  /\ at[t] = "reset"
  /\ sessionRef' = [sessionRef EXCEPT ![ref[t]].zeroEvent = FALSE]
  /\ Goes(t, "look")
  /\ UNCHANGED <<shared, ref, sequel>>

LookInflightDropped(t) ==  \* mutant: who ends the session waits for a signal in any case
  /\ at[t] = "look"
  /\ Goes(t, "drain")
  /\ UNCHANGED <<sessionRef, shared, ref, sequel>>

LookInflight(t) ==
  /\ at[t] = "look"
  /\ Goes(t, IF sessionRef[ref[t]].inflight = 0 THEN "end" ELSE "drain")
  /\ UNCHANGED <<sessionRef, shared, ref, sequel>>

WaitDrained(t) ==
  /\ at[t] = "drain"
  /\ sessionRef[ref[t]].zeroEvent
  /\ Goes(t, "end")
  /\ UNCHANGED <<sessionRef, shared, ref, sequel>>

(* The closer closes the adapter and its event too, before it unlocks.     *)
EndSession(t) ==
  /\ at[t] = "end"
  /\ sessionRef' = [sessionRef EXCEPT ![ref[t]].endedBy = t]
  /\ reopenMu' = NoSession
  /\ closeEvent' = IF t = "closer" THEN "gone" ELSE closeEvent
  /\ Goes(t, IF t = "closer" THEN "stopped" ELSE "idle")
  /\ UNCHANGED <<cur, deviceClosed, ref, sequel>>

-----------------------------------------------------------------------------
Operates(t) ==
  \/ Pin(t) \/ Recheck(t) \/ RecheckClosed(t) \/ UseSession(t)
  \/ Leave(t) \/ Signal(t)
  \/ ReopenLock(t) \/ ReopenFails(t) \/ StartSession(t) \/ Publish(t)

Ends(t) == ArmDrain(t) \/ ResetEvent(t) \/ LookInflight(t) \/ WaitDrained(t) \/ EndSession(t)

ReaderGoesOn == Operates("reader") \/ Ends("reader") \/ WaitCurrent \/ WakeForClose
WriterGoesOn == Operates("writer") \/ Ends("writer")
CloserGoesOn == WakeReaders \/ Unpublish \/ Ends("closer")

DeviceNext ==
  \/ ReaderGoesOn \/ WriterGoesOn \/ CloserGoesOn
  \/ \E t \in Op : LoadCurrent(t)
  \/ WakeForPacket \/ CloseCalled

(* A thread that is inside a call goes on; nobody has to call.  The lock   *)
(* is taken as often as sessions are started, so weak fairness gets it.    *)
DeviceFairness ==
  WF_deviceVars(ReaderGoesOn) /\ WF_deviceVars(WriterGoesOn) /\ WF_deviceVars(CloserGoesOn)

DeviceSpec == DeviceInit /\ [][DeviceNext]_deviceVars
DeviceFairSpec == DeviceSpec /\ DeviceFairness

-----------------------------------------------------------------------------
IsOpen(s) == sessionRef[s].endedBy = NoSession
Inside(s) == {t \in Op : at[t] = "inside" /\ ref[t] = s}

(* A session is never ended by reopenSession while an operation is inside  *)
(* it, no session is lost (what is open is current or about to be ended,   *)
(* or was just started), and nothing is open once Close has returned.      *)
(* Close itself may end a session under a call: a signal that was due      *)
(* before the drain was armed, and is given after it, wakes it too early.  *)
SessionsAreDrained ==
  /\ \A s \in WintunSession : sessionRef[s].endedBy \in Op => Inside(s) = {}
  /\ \A s \in WintunSession :
       IsOpen(s) => \/ s = cur
                    \/ reopenMu # NoSession /\ ref[reopenMu] = s
  /\ at["closer"] = "stopped" => \A s \in WintunSession : ~IsOpen(s)

(* Who waits for a session to drain is woken, and once a device is closed  *)
(* every call on it returns.                                               *)
DeviceCloses ==
  deviceClosed ~> [](at["closer"] = "stopped" /\ \A t \in Op : at[t] \in {"idle", "stopped"})
=============================================================================
