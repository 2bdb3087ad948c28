-------------------------- MODULE RekeyStateMachine --------------------------
(***************************************************************************)
(* The control plane of one session end: chacha20/rekey/state_machine.go.  *)
(* A StateMachine holds the keys in use, the keys of an epoch that is      *)
(* installed but not yet used to send, the highest epoch the peer was seen *)
(* to send under, and the phase of the transition.  Every method runs      *)
(* under one mutex, so each is an operator from the old value to the new;  *)
(* what the EpochManager (the UDP ring, the TCP pair of sessions) answers  *)
(* is decided by the modules that own one, UdpRekey and TcpRekey.          *)
(*                                                                         *)
(* A key is the history of the exchanges that produced it: the sequence of *)
(* pairs <<client ephemeral, server ephemeral>>.  Two sides hold the same  *)
(* key exactly when their histories are equal.                             *)
(***************************************************************************)
EXTENDS Integers, Sequences

CONSTANTS
  V2,         \* TRUE when the handshake negotiated rekey V2 (a Noise IK rehandshake)
  Zeroed,     \* a key slot overwritten with zeros
  None        \* the absence of a value (a nil pointer, an empty slot)

ASSUME VersionAssumption == V2 \in BOOLEAN

Key == Seq(Nat \X Nat)
InitialKey == << >>

(* What both sides compute from the keys in use and the two ephemerals.    *)
(* V1 mixes the current key into the derivation; the V2 rehandshake only   *)
(* authenticates it (as the prologue) and derives from the exchange alone. *)
Derive(base, eph, pub) ==
  IF V2 THEN << <<eph, pub>> >> ELSE Append(base, <<eph, pub>>)

Phase == {"idle", "staged", "retiring"}

StateMachine ==
  [current : [epoch : Nat, key : Key],
   staged : [epoch : Nat, key : Key \cup {Zeroed}],
   maxObserved : Nat,
   phase : Phase]

NewStateMachine ==
  [current |-> [epoch |-> 0, key |-> InitialKey],
   staged |-> [epoch |-> 0, key |-> Zeroed],
   maxObserved |-> 0,
   phase |-> "idle"]

ReadyForRekeyUnlessStaged(sm) == sm.phase # "staged"  \* mutant
ReadyForRekey(sm) == sm.phase = "idle"

(* StartRekey, once the epoch manager has installed the epoch.             *)
RecordStaged(sm, epoch, key) ==
  [sm EXCEPT !.staged = [epoch |-> epoch, key |-> key], !.phase = "staged"]

(* activateStagedLocked: the staged keys become current and the old ones   *)
(* are zeroed in the staged slot.                                          *)
CanActivate(sm, epoch) == sm.phase = "staged" /\ epoch = sm.staged.epoch

RecordActivatedStaleKey(sm) ==  \* mutant: the keys are not swapped
  [sm EXCEPT !.current.epoch = sm.staged.epoch, !.phase = "retiring"]

RecordActivated(sm) ==
  [sm EXCEPT !.current = sm.staged,
             !.staged = [epoch |-> sm.current.epoch, key |-> Zeroed],
             !.phase = "retiring"]

RecordObserved(sm, epoch) ==
  [sm EXCEPT !.maxObserved = IF epoch > @ THEN epoch ELSE @]

(* retirePreviousEpochLocked asks the epoch manager only when both sides   *)
(* have moved on; "managerReleases" is that manager's answer.              *)
DueForRetirementEager(sm) == sm.phase = "retiring"  \* mutant: the peer is not awaited

DueForRetirementLate(sm) ==  \* mutant: off by one
  sm.phase = "retiring" /\ sm.maxObserved > sm.current.epoch

DueForRetirement(sm) ==
  sm.phase = "retiring" /\ sm.maxObserved >= sm.current.epoch

RetirePrevious(sm, managerReleases) ==
  IF DueForRetirement(sm) /\ managerReleases
    THEN [sm EXCEPT !.phase = "idle"] ELSE sm
==============================================================================
