---------------------------- MODULE Configurator ----------------------------
(***************************************************************************)
(* ui/tui: the screens on which the user chooses what to run (Configurator *)
(* of bubble_tea), and TUI.Run, which goes from them to a runtime and back *)
(* when the user asks to reconfigure.  A step is one key press, handled as *)
(* a whole by Update, or something that happens outside: a runtime ends,   *)
(* systemd or the administrator changes the unit, a file disappears.       *)
(*                                                                         *)
(* The texts typed into inputs are a choice of what they stand for.  What  *)
(* the code reads again before it uses it the next time (a list, a name, a *)
(* time) is forgotten here where the code only stops using it.  The logs   *)
(* tab is in RuntimeDashboard; the settings that only change how things    *)
(* look are left out.                                                      *)
(***************************************************************************)
EXTENDS DaemonControl, Integers, FiniteSets

CONSTANTS
  NameOrder,      \* names of client configurations, in the order of a directory
  ClientIDs,      \* the ids of the peers the server may have, in their order
  MaxSurprises,   \* bound of the model: calls that fail, steps of systemd and the administrator
  MaxChanges      \* bound of the model: changes of a setting, a file, a peer or the unit

Name == {NameOrder[i] : i \in DOMAIN NameOrder}
ClientID == {ClientIDs[i] : i \in DOMAIN ClientIDs}

ASSUME ConfiguratorAssumption ==
  /\ NameOrder \in Seq(Name) /\ NameOrder # <<>> /\ "none" \notin Name
  /\ ClientIDs \in Seq(ClientID)
  /\ MaxSurprises \in Nat /\ MaxChanges \in Nat

VARIABLES
  tui,            \* where TUI.Run is: "start", "configure", "runtime" or "ended"
  chosenMode,     \* Result of the configurator, and how TUI.Run ended
  screen, cursor,
  list,           \* what was read for the screen: configurations, peers, the menu of the daemon
  about,          \* the configuration or the row of the peer that the screen is about
  typing,         \* how long ago the last key of the JSON input was: pasteDebounce
  question,       \* what waits for an answer: pendingStartMode and its like, pendingDaemonMode
  preferences,
  disk,           \* what is in the file of each client configuration
  activeConf,     \* the active configuration: a copy of one of them
  peers,          \* the client ids the server knows
  unit,           \* the daemon
  surprises, changes

shown == <<tui, chosenMode, screen, cursor, list, about, typing>>
world == <<disk, activeConf, peers, unit>>
configuratorVars == <<shown, question, preferences, world, surprises, changes>>

StartConfirmation == {"daemonActiveConfirm", "daemonCheckErrorConfirm"}
Nothing == [name |-> "none", row |-> 0]
NoQuestion == [mode |-> "none", back |-> "mode", config |-> "none", setup |-> "none"]

-----------------------------------------------------------------------------
(* The lists. *)

(* Those of a list that are there, in the order of the list. *)
Kept(all, there) ==
  LET places == {i \in DOMAIN all : all[i] \in there}
      nth(k) == CHOOSE i \in places : Cardinality({j \in places : j <= i}) = k
  IN  [k \in 1 .. Cardinality(places) |-> all[nth(k)]]

Listed(files) == Kept(NameOrder, {n \in Name : files[n] # "absent"})
PeersListed(known) == Kept(ClientIDs, known)

DaemonMenu(u) ==
  IF ~Installed(u) THEN <<"setupClient", "setupServer">>
  ELSE (IF BlocksStart(u) THEN <<"stop">> ELSE <<>>) \o (IF AllowsStart(u) THEN <<"start">> ELSE <<>>)
       \o <<IF u.enabled THEN "disable" ELSE "enable">>
       \o <<"reconfigureClient", "reconfigureServer", "delete">>

Options ==
  CASE screen = "mode" -> <<"client", "server", "daemon">>
    [] screen = "clientSelect" -> list \o (IF list = <<>> THEN <<"add">> ELSE <<"remove", "add">>)
    [] screen = "clientInvalid" -> IF about.name = "none" THEN <<"ok">> ELSE <<"deleteInvalid", "ok">>
    [] screen = "serverSelect" -> <<"startServer", "addClient", "manageClients">>
    [] screen = "serverDeleteConfirm" -> <<"deleteClient", "cancel">>
    [] screen = "daemonReconfigureConfirm" -> <<"reconfigureNow", "cancel">>
    [] screen = "daemonActiveConfirm" -> <<"stopAndContinue", "cancel">>
    [] screen = "daemonCheckErrorConfirm" -> <<"retry", "startAnyway", "cancel">>
    [] screen \in {"clientAddName", "clientAddJSON"} -> <<>>
    [] OTHER -> list

On(s) == tui = "configure" /\ screen = s
Enter(s) == On(s) /\ cursor + 1 \in DOMAIN Options
Chosen == Options[cursor + 1]

Least(a, b) == IF a <= b THEN a ELSE b

ShowAt(s, at, items, thing) ==
  /\ tui' = "configure" /\ chosenMode' = "none"
  /\ screen' = s /\ cursor' = at
  /\ list' = items /\ about' = thing /\ typing' = "none"
Show(s, items) == ShowAt(s, 0, items, Nothing)

Leave(where, how) ==
  /\ tui' = where /\ chosenMode' = how
  /\ screen' = "mode" /\ cursor' = 0
  /\ list' = <<>> /\ about' = Nothing /\ typing' = "none"
Finish(how) == Leave("ended", how)

(* A call fails by itself, or not. *)
Costs(failed) ==
  IF failed THEN surprises < MaxSurprises /\ surprises' = surprises + 1 ELSE surprises' = surprises

-----------------------------------------------------------------------------
(* What handlers share. *)

(* refreshDaemonStatus: without a status there is no menu. *)
RefreshDaemonStatus(s, at) ==
  \E failed \in BOOLEAN :
    /\ Costs(failed)
    /\ ShowAt(s, at, IF failed \/ s = "mode" THEN <<>> ELSE DaemonMenu(unit), Nothing)

(* reloadClientConfigs, and back to the list of the client. *)
ReloadClientConfigs(files) ==
  \/ Costs(FALSE) /\ Show("clientSelect", Listed(files))
  \/ Costs(TRUE) /\ Finish("error")

(* clearPendingDaemonStart leaves the question about a setup alone. *)
Cleared == [question EXCEPT !.mode = "none", !.back = "mode", !.config = "none"]

(* startModeWithDaemonGuard.  A start that has to be confirmed keeps the   *)
(* configuration that is to be selected from then on.                      *)
StartModeWithDaemonGuard(mode, back, config, remember, items) ==
  \E answer \in {"error", IF IsActive(unit) THEN "active" ELSE "idle"} :
    /\ Costs(answer = "error")
    /\ IF answer = "idle"
         THEN /\ Leave("runtime", mode)
              /\ question' = Cleared
              /\ preferences' = IF remember THEN [preferences EXCEPT !.config = config] ELSE preferences
         ELSE /\ Show(IF answer = "active" THEN "daemonActiveConfirm" ELSE "daemonCheckErrorConfirm", items)
              /\ question' = [question EXCEPT !.mode = mode, !.back = back, !.config = config]
              /\ preferences' = preferences

(* Select copies the file, ValidateActive reads the copy. *)
UseResults(n) ==
  IF disk[n] = "absent" THEN {"selectFailed"} ELSE {disk[n], "selectFailed", "unreadable"}

Surprise(n, result) == result \in {"selectFailed", "unreadable"} /\ disk[n] # "absent"

UseConfiguration(n, result) ==
  activeConf' = IF result = "selectFailed" THEN activeConf ELSE [name |-> n, state |-> disk[n]]

-----------------------------------------------------------------------------
(* NewConfigurator.  The status of the daemon that it reads is read again  *)
(* before anything is made of it.                                          *)

ConfiguratorInit ==
  /\ tui = "start" /\ chosenMode = "none"
  /\ screen = "mode" /\ cursor = 0
  /\ list = <<>> /\ about = Nothing /\ typing = "none"
  /\ question = NoQuestion
  /\ preferences \in {[mode |-> "none", auto |-> FALSE, config |-> "none"]}
       \cup [mode : {"client"}, auto : {TRUE}, config : {NameOrder[1]}]
  /\ disk \in [Name -> {"valid", "invalid"}]
  /\ activeConf = [name |-> "none", state |-> "absent"]
  /\ peers \in {{}, ClientID}
  /\ unit \in {NoUnit, [file |-> "client", known |-> "client", runs |-> "client",
                        enabled |-> TRUE, active |-> "active"]}
  /\ surprises = 0 /\ changes = 0

ConnectsTo(n) ==
  preferences.mode = "client" /\ preferences.auto /\ preferences.config = n /\ disk[n] # "absent"

NewConfigurator ==
  /\ tui = "start"
  /\ IF preferences.mode = "client"
       THEN /\ ReloadClientConfigs(disk)
            /\ tui' = "ended" \/ \A n \in Name : ~ConnectsTo(n)
            /\ preferences' = IF tui' = "configure" /\ preferences.auto
                                THEN [preferences EXCEPT !.config = "none"] ELSE preferences
       ELSE /\ Show(IF preferences.mode = "server" THEN "serverSelect" ELSE "mode", <<>>)
            /\ UNCHANGED <<preferences, surprises>>
  /\ UNCHANGED <<question, world>>

NewConfiguratorConnects ==
  /\ tui = "start"
  /\ \E n \in Name : \E result \in UseResults(n) :
       /\ ConnectsTo(n)
       /\ UseConfiguration(n, result)
       /\ IF result = "valid"
            THEN StartModeWithDaemonGuard("client", "clientSelect", n, FALSE, Listed(disk))
            ELSE /\ Costs(Surprise(n, result))
                 /\ IF result = "invalid"
                      THEN ShowAt("clientInvalid", 0, Listed(disk), [Nothing EXCEPT !.name = n])
                      ELSE Show("clientSelect", Listed(disk))
                 /\ UNCHANGED <<question, preferences>>
  /\ UNCHANGED <<disk, peers, unit>>

-----------------------------------------------------------------------------
(* Keys that are handled alike on every screen. *)

Move ==
  /\ tui = "configure"
  /\ cursor' \in {cursor - 1, cursor + 1} \cap 0 .. Len(Options) - 1
  /\ UNCHANGED <<tui, chosenMode, screen, list, about, typing, question, preferences, world, surprises>>

(* ctrl+c, or the context of TUI.Run ends. *)
Quit ==
  /\ tui \in {"configure", "runtime"}
  /\ Finish("exit")
  /\ UNCHANGED <<question, preferences, world, surprises>>

(* AutoConnect is a row only while the client is the preferred mode. *)
SettingsRows(p) == IF p.mode = "client" THEN <<"mode", "autoConnect">> ELSE <<"mode">>

NextMode(mode, step) ==
  LET order == <<"none", "client", "server">>
      at == CHOOSE i \in 1 .. 3 : order[i] = mode
  IN  order[((at + step + 2) % 3) + 1]

ApplySettingsChange(p, row, step) ==
  IF row = "mode" THEN [p EXCEPT !.mode = NextMode(@, step)] ELSE [p EXCEPT !.auto = ~@]

(* The settings tab, and the one of the dashboard.  The screen stays as it *)
(* is under the tab; it cannot be left by Tab while a text is typed.       *)
UpdateSettings ==
  /\ tui = "runtime" \/ (tui = "configure" /\ screen \notin {"clientAddName", "clientAddJSON"})
  /\ \E i \in DOMAIN SettingsRows(preferences), step \in {-1, 1} :
       preferences' = ApplySettingsChange(preferences, SettingsRows(preferences)[i], step)
  /\ UNCHANGED <<shown, question, world, surprises>>

(* The list of peers again, at the row that was asked about. *)
BackToPeers(items) == ShowAt("serverManage", Least(about.row, Len(items) - 1), items, Nothing)

CancelPendingStart == Show(question.back, list) /\ question' = Cleared

ForgetSetup == Show("daemonManage", list) /\ question' = [question EXCEPT !.setup = "none"]

Back ==
  CASE screen = "mode" -> Finish("exit")
    [] screen \in {"clientSelect", "serverSelect"} -> Show("mode", <<>>)
    [] screen \in {"clientRemove", "clientAddName", "clientInvalid"} -> Show("clientSelect", list)
    [] screen = "clientAddJSON" -> Show("clientAddName", list)
    [] screen = "serverManage" -> Show("serverSelect", <<>>)
    [] screen = "serverDeleteConfirm" -> BackToPeers(list)
    [] OTHER -> FALSE

Esc ==
  /\ tui = "configure"
  /\ \/ Back /\ question' = question
     \/ screen = "daemonReconfigureConfirm" /\ ForgetSetup
     \/ screen \in StartConfirmation /\ CancelPendingStart
  /\ UNCHANGED <<preferences, world, surprises>>

-----------------------------------------------------------------------------
(* The screens of the client. *)

ChooseMode ==
  /\ Enter("mode")
  /\ \/ Chosen = "client" /\ ReloadClientConfigs(disk)
     \/ Chosen = "server" /\ Show("serverSelect", <<>>) /\ surprises' = surprises
     \/ Chosen = "daemon" /\ RefreshDaemonStatus("daemonManage", 0)
  /\ UNCHANGED <<question, preferences, world>>

ChooseAddOrRemove ==
  /\ Enter("clientSelect")
  /\ \/ Chosen = "remove" /\ Show("clientRemove", list)
     \/ Chosen = "add" /\ Show("clientAddName", list)
  /\ UNCHANGED <<question, preferences, world, surprises>>

SelectClient ==
  /\ Enter("clientSelect")
  /\ \E n \in Name : \E result \in UseResults(n) :
       /\ Chosen = n
       /\ UseConfiguration(n, result)
       /\ IF result = "valid" THEN StartModeWithDaemonGuard("client", "clientSelect", n, TRUE, list)
          ELSE /\ Costs(Surprise(n, result))
               /\ IF result = "invalid"
                    THEN ShowAt("clientInvalid", 0, list, [Nothing EXCEPT !.name = n])
                    ELSE Finish("error")
               /\ UNCHANGED <<question, preferences>>
  /\ UNCHANGED <<disk, peers, unit>>

(* Delete fails when the file is not there any more. *)
DeleteConfiguration(n) ==
  \/ /\ disk[n] # "absent"
     /\ disk' = [disk EXCEPT ![n] = "absent"]
     /\ ReloadClientConfigs(disk')
  \/ /\ Costs(disk[n] # "absent")
     /\ Finish("error")
     /\ disk' = disk

RemoveClient ==
  /\ \/ Enter("clientRemove") /\ DeleteConfiguration(Chosen)
     \/ Enter("clientInvalid") /\ Chosen = "deleteInvalid" /\ DeleteConfiguration(about.name)
  /\ UNCHANGED <<question, preferences, activeConf, peers, unit>>

AcceptInvalid ==
  /\ Enter("clientInvalid") /\ Chosen = "ok"
  /\ Show("clientSelect", list)
  /\ UNCHANGED <<question, preferences, world, surprises>>

EnterName ==
  /\ On("clientAddName")
  /\ \E n \in Name : ShowAt("clientAddJSON", 0, list, [Nothing EXCEPT !.name = n])
  /\ UNCHANGED <<question, preferences, world, surprises>>

(* The keys of a pasted text come one by one; an Enter that follows one of *)
(* them within pasteDebounce is part of the text.                          *)
TypeJSON ==
  /\ On("clientAddJSON")
  /\ typing' = "recent"
  /\ UNCHANGED <<tui, chosenMode, screen, cursor, list, about, question, preferences, world, surprises>>

DebouncePasses ==
  /\ typing = "recent"
  /\ typing' = "quiet"
  /\ UNCHANGED <<tui, chosenMode, screen, cursor, list, about, question, preferences, world, surprises>>

(* A configuration of the same name is replaced. *)
CreateFromJSON ==
  /\ On("clientAddJSON") /\ typing # "recent"
  /\ \/ /\ disk' = [disk EXCEPT ![about.name] = "valid"]
        /\ ReloadClientConfigs(disk')
     \/ Costs(FALSE) /\ Show("clientInvalid", list) /\ disk' = disk
     \/ Costs(TRUE) /\ Finish("error") /\ disk' = disk
  /\ UNCHANGED <<question, preferences, activeConf, peers, unit>>

-----------------------------------------------------------------------------
(* The screens of the server. *)

StartServer ==
  /\ Enter("serverSelect") /\ Chosen = "startServer"
  /\ StartModeWithDaemonGuard("server", "serverSelect", "none", FALSE, <<>>)
  /\ UNCHANGED <<world>>

(* GenerateClientConfiguration: the client gets an id that is not in use. *)
AddPeer ==
  /\ Enter("serverSelect") /\ Chosen = "addClient"
  /\ \/ /\ \E i \in DOMAIN ClientIDs :
             /\ \A j \in DOMAIN ClientIDs : ClientIDs[j] \notin peers => i <= j
             /\ ClientIDs[i] \notin peers
             /\ peers' = peers \cup {ClientIDs[i]}
        /\ UNCHANGED <<shown, surprises>>
     \/ Costs(TRUE) /\ Finish("error") /\ peers' = peers
  /\ UNCHANGED <<question, preferences, disk, activeConf, unit>>

(* ListPeers, and the list at the row.  Without peers there is none. *)
ListPeers(known, row) ==
  LET items == PeersListed(known)
  IN  \/ /\ Costs(FALSE)
         /\ IF items = <<>> THEN Show("serverSelect", <<>>)
            ELSE ShowAt("serverManage", Least(row, Len(items) - 1), items, Nothing)
      \/ Costs(TRUE) /\ Finish("error")

ManagePeers ==
  /\ Enter("serverSelect") /\ Chosen = "manageClients"
  /\ IF peers = {} THEN \/ UNCHANGED <<shown, surprises>>
                        \/ Costs(TRUE) /\ Finish("error")
     ELSE ListPeers(peers, 0)
  /\ UNCHANGED <<question, preferences, world>>

(* SetPeerEnabled and RemovePeer fail for a peer that is not there.        *)
TogglePeer ==
  /\ Enter("serverManage")
  /\ \/ Chosen \in peers /\ ListPeers(peers, cursor)
     \/ Costs(Chosen \in peers) /\ Show("serverSelect", <<>>)
  /\ UNCHANGED <<question, preferences, world>>

AskDeletePeer ==
  /\ Enter("serverManage")
  /\ ShowAt("serverDeleteConfirm", 0, list, [Nothing EXCEPT !.row = cursor])
  /\ UNCHANGED <<question, preferences, world, surprises>>

DeletePeer ==
  /\ Enter("serverDeleteConfirm")
  /\ \/ Chosen = "cancel" /\ BackToPeers(list) /\ UNCHANGED <<peers, surprises>>
     \/ /\ Chosen = "deleteClient"
        /\ LET id == list[about.row + 1]
           IN  \/ id \in peers /\ peers' = peers \ {id} /\ ListPeers(peers', about.row)
               \/ Costs(id \in peers) /\ Show("serverManage", list) /\ peers' = peers
  /\ UNCHANGED <<question, preferences, disk, activeConf, unit>>

-----------------------------------------------------------------------------
(* The screens of the daemon. *)

Begun == Fresh(unit, MaxSurprises - surprises)

CursorAfterRefreshSame(items, selected, fallback) == fallback  \* mutant: the row stays
CursorAfterRefresh(items, selected, fallback) ==
  IF items = <<>> THEN 0
  ELSE IF \E i \in DOMAIN items : items[i] = selected
    THEN (CHOOSE i \in DOMAIN items : items[i] = selected) - 1
    ELSE Least(fallback, Len(items) - 1)

(* After an operation the status is read again; after a failed one the     *)
(* menu stays as it was.                                                   *)
Operated(outcomes, CursorIn(_), otherwise) ==
  \E o \in outcomes :
    \/ /\ ~o.ok
       /\ unit' = o.unit /\ surprises' = MaxSurprises - o.left
       /\ ShowAt("daemonManage", otherwise, list, Nothing)
    \/ /\ o.ok
       /\ \E status \in Try(o, TRUE, o.unit) :
            LET items == IF status.ok THEN DaemonMenu(o.unit) ELSE <<>>
            IN  /\ unit' = o.unit /\ surprises' = MaxSurprises - status.left
                /\ ShowAt("daemonManage", CursorIn(items), items, Nothing)

(* applyDaemonSetup: ValidateActive first, for a client.                   *)
SetupOutcomes(mode) ==
  IF mode = "client" /\ activeConf.state # "valid" THEN {[Begun EXCEPT !.ok = FALSE]} ELSE Setup(Begun, mode)

ModeOf(option) == IF option \in {"setupClient", "reconfigureClient"} THEN "client" ELSE "server"

Operation(option) ==
  CASE option = "start" -> StartUnit(Begun)
    [] option = "stop" -> StopUnit(Begun)
    [] option = "enable" -> EnableUnit(Begun)
    [] option = "disable" -> DisableUnit(Begun)
    [] option = "delete" -> RemoveUnit(Begun)
    [] OTHER -> SetupOutcomes(ModeOf(option))

(* A unit that was shown to run is reconfigured only after a question.     *)
MustAsk(option) ==
  option \in {"reconfigureClient", "reconfigureServer"} /\ \E i \in DOMAIN list : list[i] = "stop"

ManageDaemon ==
  /\ Enter("daemonManage") /\ ~MustAsk(Chosen)
  /\ Operated(Operation(Chosen), LAMBDA items : CursorAfterRefresh(items, Chosen, cursor), cursor)
  /\ UNCHANGED <<question, preferences, disk, activeConf, peers>>

AskReconfigure ==
  /\ Enter("daemonManage") /\ MustAsk(Chosen)
  /\ Show("daemonReconfigureConfirm", list)
  /\ question' = [question EXCEPT !.setup = ModeOf(Chosen)]
  /\ UNCHANGED <<preferences, world, surprises>>

LeaveDaemonManage ==
  /\ On("daemonManage")
  /\ RefreshDaemonStatus("mode", 2)
  /\ question' = [question EXCEPT !.setup = "none"]
  /\ UNCHANGED <<preferences, world>>

ReconfigureNow ==
  /\ Enter("daemonReconfigureConfirm") /\ Chosen = "reconfigureNow"
  /\ Operated(SetupOutcomes(question.setup), LAMBDA items : 0, 0)
  /\ question' = [question EXCEPT !.setup = "none"]
  /\ UNCHANGED <<preferences, disk, activeConf, peers>>

(* completePendingDaemonStart takes the configuration before it clears it. *)
PendingConfigCleared(q) == "none"  \* mutant: after
PendingConfig(q) == q.config

CompletePendingStart ==
  /\ Leave("runtime", question.mode)
  /\ question' = Cleared
  /\ preferences' =
       IF question.mode = "client" /\ PendingConfig(question) # "none"
         THEN [preferences EXCEPT !.config = PendingConfig(question)] ELSE preferences

StopAndContinue ==
  /\ Enter("daemonActiveConfirm") /\ Chosen = "stopAndContinue"
  /\ \E o \in StopUnit(Begun) :
       /\ unit' = o.unit /\ surprises' = MaxSurprises - o.left
       /\ IF o.ok THEN CompletePendingStart ELSE CancelPendingStart /\ preferences' = preferences
  /\ UNCHANGED <<disk, activeConf, peers>>

RetryCheck ==
  /\ Enter("daemonCheckErrorConfirm") /\ Chosen = "retry"
  /\ StartModeWithDaemonGuard(question.mode, question.back, question.config, FALSE, list)
  /\ UNCHANGED <<world>>

StartAnyway ==
  /\ Enter("daemonCheckErrorConfirm") /\ Chosen = "startAnyway"
  /\ CompletePendingStart
  /\ UNCHANGED <<world, surprises>>

CancelQuestion ==
  /\ \/ \E s \in StartConfirmation : Enter(s) /\ Chosen = "cancel" /\ CancelPendingStart
     \/ Enter("daemonReconfigureConfirm") /\ Chosen = "cancel" /\ ForgetSetup
  /\ UNCHANGED <<preferences, world, surprises>>

-----------------------------------------------------------------------------
(* runRuntime, whose screens are in RuntimeDashboard. *)

RuntimeFails ==
  /\ tui = "runtime"
  /\ Costs(TRUE) /\ Finish("error")
  /\ UNCHANGED <<question, preferences, world>>

DisableAutoConnect(p) == [p EXCEPT !.auto = FALSE]

(* A client that the user left to reconfigure does not connect by itself.  *)
(* The next configurator is a new one.                                     *)
RuntimeReconfigures ==
  /\ tui = "runtime"
  /\ Leave("start", "none")
  /\ preferences' = IF chosenMode = "client" THEN DisableAutoConnect(preferences) ELSE preferences
  /\ question' = NoQuestion
  /\ UNCHANGED <<world, surprises>>

-----------------------------------------------------------------------------
(* What happens outside while the configurator or a runtime is there. *)

(* Restart=always: a process that ended is started again after RestartSec. *)
UnitMoves ==
  /\ tui \in {"configure", "runtime"} /\ Costs(TRUE)
  /\ \E next \in ActiveState :
       /\ \/ unit.active = "active" /\ next \in {"activating", "deactivating"}
          \/ unit.active = "activating" /\ next = "failed"
          \/ unit.active = "deactivating" /\ next = "inactive"
          \/ unit.active \in {"inactive", "failed", "activating"} /\ next = "active" /\ Definition(unit) # "none"
       /\ unit' = [unit EXCEPT !.active = next,
                     !.known = IF next = "active" THEN Definition(unit) ELSE @,
                     !.runs = IF next = "active" THEN Definition(unit) ELSE "none"]
  /\ UNCHANGED <<shown, question, preferences, disk, activeConf, peers>>

(* Another process deletes a configuration or a peer. *)
FilesMove ==
  /\ tui \in {"configure", "runtime"} /\ Costs(TRUE)
  /\ \/ /\ \E n \in Name : disk[n] # "absent" /\ disk' = [disk EXCEPT ![n] = "absent"]
        /\ peers' = peers
     \/ \E id \in peers : peers' = peers \ {id} /\ disk' = disk
  /\ UNCHANGED <<shown, question, preferences, activeConf, unit>>

-----------------------------------------------------------------------------
ConfiguratorStep ==
  \/ NewConfigurator \/ NewConfiguratorConnects
  \/ Move \/ Quit \/ Esc \/ UpdateSettings
  \/ ChooseMode \/ ChooseAddOrRemove \/ SelectClient \/ RemoveClient \/ AcceptInvalid
  \/ EnterName \/ TypeJSON \/ DebouncePasses \/ CreateFromJSON
  \/ StartServer \/ AddPeer \/ ManagePeers \/ TogglePeer \/ AskDeletePeer \/ DeletePeer
  \/ ManageDaemon \/ AskReconfigure \/ LeaveDaemonManage \/ ReconfigureNow
  \/ StopAndContinue \/ RetryCheck \/ StartAnyway \/ CancelQuestion
  \/ RuntimeFails \/ RuntimeReconfigures
  \/ UnitMoves \/ FilesMove

Counted ==
  /\ changes' = IF <<preferences, disk, peers, unit>>' = <<preferences, disk, peers, unit>> THEN changes ELSE changes + 1
  /\ changes' <= MaxChanges

ConfiguratorNext == ConfiguratorStep /\ Counted

ConfiguratorSpec == ConfiguratorInit /\ [][ConfiguratorNext]_configuratorVars

-----------------------------------------------------------------------------
(* Properties. *)

(* However lists shrink below it (a menu of the daemon after an operation, *)
(* the peers after one was deleted, here or by another process), the       *)
(* cursor is on an option, where the code indexes with it; a screen that   *)
(* asks a question has what it asks about, no other screen has, and the    *)
(* configuration that waits to be remembered is the active one.            *)
InterfaceSound ==
  /\ unit \in Unit
  /\ tui = "configure" =>
       /\ cursor = 0 \/ cursor + 1 \in DOMAIN Options
       /\ screen = "serverDeleteConfirm" => about.row + 1 \in DOMAIN list
       /\ screen \in StartConfirmation <=> question.mode # "none"
       /\ screen = "daemonReconfigureConfirm" <=> question.setup # "none"
  /\ question.config # "none" => question.mode = "client" /\ activeConf.name = question.config

Insists(option) == Enter("daemonCheckErrorConfirm") /\ Chosen = option

(* The guard of daemon and runtime: unless the user insists, a mode is not *)
(* started while the unit is seen to be active, and the client that is     *)
(* started runs the configuration that AutoConnect will use the next time, *)
(* also when the daemon had to be stopped in between.                      *)
StartsAreGuarded ==
  [][tui # "runtime" /\ tui' = "runtime" =>
       /\ unit'.active # "active" \/ Insists("startAnyway")
       /\ (chosenMode' = "client" /\ ~Insists("retry")) => preferences'.config = activeConf'.name]_configuratorVars

(* A setup of which at most one command fails leaves the unit that was     *)
(* asked for, known to systemd, enabled, and running if it runs; or none   *)
(* at all: systemd has forgotten the one it had, or does not run it.       *)
SetupSettles ==
  [][unit'.file # unit.file /\ surprises' <= surprises + 1 =>
       IF unit'.file = "none" THEN unit'.known = "none" \/ unit'.runs = "none"
       ELSE unit'.known = unit'.file /\ unit'.enabled /\ (unit'.active = "active" => unit'.runs = unit'.file)]_configuratorVars
=============================================================================
