--------------------------- MODULE DaemonControl ---------------------------
(***************************************************************************)
(* daemon/systemd: the unit that runs the client or the server in the      *)
(* background, and the operations of Control on it.  An operation is a     *)
(* sequence of systemctl commands and file operations, each of which may   *)
(* fail; what it can come to is a set of outcomes.  Nobody else touches    *)
(* the unit within an operation.                                           *)
(***************************************************************************)
EXTENDS Naturals, Sequences

Mode == {"client", "server"}
ActiveState == {"inactive", "failed", "activating", "active", "deactivating"}

(* file: the mode in the unit file; known: the mode in what systemd has    *)
(* loaded; runs: the mode of the process.                                  *)
Unit ==
  [file : Mode \cup {"none"}, known : Mode \cup {"none"}, runs : Mode \cup {"none"},
   enabled : BOOLEAN, active : ActiveState]

NoUnit == [file |-> "none", known |-> "none", runs |-> "none", enabled |-> FALSE, active |-> "inactive"]

(* systemd reads a unit file by itself only when it has none loaded.       *)
Definition(u) == IF u.known = "none" THEN u.file ELSE u.known

-----------------------------------------------------------------------------
(* Outcomes: the unit, whether the operation succeeded, and how many more  *)
(* commands may fail.                                                      *)
Fresh(u, left) == [unit |-> u, ok |-> TRUE, left |-> left]

Try(o, possible, result) ==
  LET failed == [o EXCEPT !.ok = FALSE]
  IN  {IF possible THEN [o EXCEPT !.unit = result] ELSE failed}
      \cup (IF o.left > 0 THEN {[failed EXCEPT !.left = @ - 1]} ELSE {})

AndThen(outcomes, Step(_)) == UNION {IF o.ok THEN Step(o) ELSE {o} : o \in outcomes}
OrElse(outcomes, Undo(_)) == UNION {IF o.ok THEN {o} ELSE Undo(o) : o \in outcomes}
Retried(o) == [o EXCEPT !.ok = TRUE]
Failed(outcomes) == {[o EXCEPT !.ok = FALSE] : o \in outcomes}

-----------------------------------------------------------------------------
(* systemctl is-active exits with 0 for an active or reloading unit only:  *)
(* for a unit on its way up or down it exits with 3, which                 *)
(* IsSystemdNotActiveError takes for "not active".                         *)
IsActive(u) == u.active = "active"

StopUnit(o) ==
  Try(o, o.unit.active # "inactive" \/ Definition(o.unit) # "none",
      [o.unit EXCEPT !.active = IF @ = "failed" THEN "failed" ELSE "inactive", !.runs = "none"])

StartUnit(o) ==
  Try(o, Definition(o.unit) # "none",
      IF IsActive(o.unit) THEN o.unit
      ELSE [o.unit EXCEPT !.active = "active", !.known = Definition(o.unit), !.runs = Definition(o.unit)])

Reload(o) == Try(o, TRUE, [o.unit EXCEPT !.known = o.unit.file])
EnableUnit(o) == Try(o, o.unit.file # "none", [o.unit EXCEPT !.enabled = TRUE])
DisableUnit(o) == Try(o, o.unit.file # "none", [o.unit EXCEPT !.enabled = FALSE])
WriteFile(o, mode) == Try(o, TRUE, [o.unit EXCEPT !.file = mode])
RemoveFile(o) == Try(o, TRUE, [o.unit EXCEPT !.file = "none"])

(* rollbackInstallUnit goes on when a command of it fails.                 *)
Rollback(o) ==
  Failed(UNION {Reload(Retried(r)) : r \in RemoveFile(Retried(o))})

InstallUnitUnread(o, mode) == AndThen(WriteFile(o, mode), EnableUnit)  \* mutant: no daemon-reload
InstallUnit(o, mode) ==
  AndThen(WriteFile(o, mode), LAMBDA w : OrElse(AndThen(Reload(w), EnableUnit), Rollback))

(* Setup installs the unit of the mode and starts it again if it was       *)
(* running, also when the installation failed.                             *)
StartedAgain(o, wasActive) ==
  IF ~wasActive THEN {o}
  ELSE IF o.ok THEN StartUnit(o) ELSE Failed(StartUnit(Retried(o)))

Setup(o, mode) ==
  LET wasActive == IsActive(o.unit)
      stopped(c) == IF wasActive THEN StopUnit(c) ELSE {c}
  IN  AndThen(AndThen(Try(o, TRUE, o.unit), stopped),
              LAMBDA s : UNION {StartedAgain(i, wasActive) : i \in InstallUnit(s, mode)})

(* RemoveUnit takes a unit that is stopped or disabled already for done.   *)
RemoveUnit(o) ==
  LET disabled(s) == OrElse(DisableUnit(s), LAMBDA d : {d} \cup (IF d.unit.file = "none" THEN {Retried(d)} ELSE {}))
  IN  AndThen(AndThen(AndThen(StopUnit(o), disabled), RemoveFile), Reload)

-----------------------------------------------------------------------------
(* ActiveStateBlocksRuntimeStart, daemonStateAllowsStart *)
BlocksStart(u) == u.active \in {"active", "activating", "deactivating"}
AllowsStart(u) == u.active \in {"inactive", "failed"}

(* Status: LoadState is not-found without a definition. *)
Installed(u) == Definition(u) # "none"
=============================================================================
