--------------------------- MODULE ServerSessions ---------------------------
(***************************************************************************)
(* How sessions come and go on the server: the registrations of udp and    *)
(* tcp/registration.go that run next to each other, the allowed peers a    *)
(* handshake looks its client up in (allowed_peers.go), and the watcher    *)
(* that compares the configuration with what it saw last and terminates    *)
(* the sessions of clients that lost their access (config_watcher.go,      *)
(* state.go), over the repositories of SessionRepository.                  *)
(*                                                                         *)
(* A registration is four steps that other threads may come between: the   *)
(* handshake, which consults the allowed peers; the lookup of a session    *)
(* that has the address; its deletion; the addition of the new one.        *)
(* "Overlap" says what may happen between them: other registrations of the *)
(* same tunnel ("registration"), and a round of the watcher ("revocation").*)
(***************************************************************************)
EXTENDS SessionRepository, Naturals

CONSTANTS
  Overlap,     \* \subseteq {"registration", "revocation"}
  MaxEdits     \* bound of the model: edits of the configuration

Access == [Client -> Address \cup {None}]
Round == [conf : Access, revoke : SUBSET (Client \X Repo)]

ASSUME ServerAssumption ==
  /\ Overlap \subseteq {"registration", "revocation"}
  /\ MaxEdits \in Nat
  /\ None \notin Address /\ None \notin Access /\ None \notin Round

VARIABLES
  stage,       \* how far the registration of a session is
  victim,      \* the session it found under its address
  config,      \* the configuration file: the address of each client with access
  edits,       \* how often the file was changed
  allowed,     \* the runtime map that handshakes consult
  seen,        \* what the watcher compared last, or None before it started
  round        \* the round the watcher is in: what it read, whom it has to revoke

aclVars == <<config, edits, allowed, seen, round>>
vars == <<repoVars, stage, victim, aclVars>>

Stage == {"new", "admitted", "evicting", "adding", "done"}

(* Validation keeps client IDs apart.                                      *)
Distinct(acl) == \A c, d \in Client : acl[c] = acl[d] /\ acl[c] # None => c = d

Init ==
  /\ RepoInit
  /\ stage = [s \in Session |-> "new"]
  /\ victim = [s \in Session |-> None]
  /\ config \in {acl \in Access : Distinct(acl)}
  /\ edits = 0
  /\ allowed = config
  /\ seen = None
  /\ round = None

-----------------------------------------------------------------------------
(* Registration. *)

Registering(s) == stage[s] \in {"admitted", "evicting", "adding"}

MayBegin(r) ==
  /\ "registration" \in Overlap \/ \A t \in Session : Registering(t) => peer[t].repo # r
  /\ "revocation" \in Overlap \/ (round = None /\ seen # None /\ seen = allowed)

(* The handshake succeeds for a client that the allowed peers name.        *)
Handshake(s, c, r) ==
  /\ stage[s] = "new"
  /\ MayBegin(r)
  /\ allowed[c] # None
  /\ peer' = [peer EXCEPT ![s] = [repo |-> r, client |-> c, addr |-> allowed[c]]]
  /\ keyed' = keyed \cup {s}
  /\ stage' = [stage EXCEPT ![s] = "admitted"]
  /\ UNCHANGED <<added, closed, zeroed, indexes, lock, recv, tun, victim, aclVars>>

ExistingNone(s) == None  \* mutant: a stale session is not looked for
Existing(s) == byIP[peer[s].repo][peer[s].addr]

FindExisting(s) ==
  LET found == Existing(s)
  IN  /\ stage[s] = "admitted"
      /\ lock[peer[s].repo] = None
      /\ victim' = [victim EXCEPT ![s] = found]
      /\ stage' = [stage EXCEPT ![s] = IF found = None THEN "adding" ELSE "evicting"]
      /\ UNCHANGED <<repoVars, aclVars>>

EvictExisting(s) ==
  /\ stage[s] = "evicting"
  /\ StartDelete(peer[s].repo, {victim[s]}, "session")
  /\ stage' = [stage EXCEPT ![s] = "adding"]
  /\ UNCHANGED <<peer, added, closed, zeroed, keyed, indexes, recv, tun, victim, aclVars>>

AddSession(s) ==
  /\ stage[s] = "adding"
  /\ Add(s)
  /\ stage' = [stage EXCEPT ![s] = "done"]
  /\ UNCHANGED <<victim, aclVars>>

-----------------------------------------------------------------------------
(* Access. *)

EditConfig(c, a) ==
  /\ edits < MaxEdits
  /\ a # config[c]
  /\ Distinct([config EXCEPT ![c] = a])
  /\ config' = [config EXCEPT ![c] = a]
  /\ edits' = edits + 1
  /\ UNCHANGED <<repoVars, stage, victim, allowed, seen, round>>

(* Watch starts, some time after the server was built: loadCurrentState    *)
(* reads the file, a cached copy of it, or, when it cannot, nobody.        *)
Nobody == [c \in Client |-> None]
WatchStarts ==
  /\ seen = None
  /\ seen' \in {config, allowed, Nobody}
  /\ UNCHANGED <<repoVars, stage, victim, config, edits, allowed, round>>

LostAccessNoReassign(old, new) ==  \* mutant: a changed client ID is overlooked
  {c \in Client : old[c] # None /\ new[c] = None}
LostAccess(old, new) == {c \in Client : old[c] # None /\ new[c] # old[c]}

(* checkAndRevoke, on a file event or a tick.                              *)
RoundStarts ==
  /\ seen # None
  /\ round = None
  /\ "revocation" \in Overlap \/ \A s \in Session : ~Registering(s)
  /\ round' = [conf |-> config, revoke |-> LostAccess(seen, config) \X Repo]
  /\ UNCHANGED <<repoVars, stage, victim, config, edits, allowed, seen>>

WatcherWaits == \E r \in Repo : lock[r] # None /\ lock[r].by = "watcher"

(* RevokeByPubKey goes through the repositories: TerminateByPubKey.        *)
Revoke(c, r) ==
  /\ round # None
  /\ <<c, r>> \in round.revoke
  /\ ~WatcherWaits
  /\ StartDelete(r, {s \in byKey : peer[s].client = c /\ peer[s].repo = r}, "watcher")
  /\ round' = [round EXCEPT !.revoke = @ \ {<<c, r>>}]
  /\ UNCHANGED <<peer, added, closed, zeroed, keyed, indexes, recv, tun>>
  /\ UNCHANGED <<stage, victim, config, edits, allowed, seen>>

(* Update, when every session has been revoked.                            *)
RoundEnds ==
  /\ round # None
  /\ round.revoke = {}
  /\ ~WatcherWaits
  /\ allowed' = round.conf
  /\ seen' = round.conf
  /\ round' = None
  /\ UNCHANGED <<repoVars, stage, victim, config, edits>>

-----------------------------------------------------------------------------
Next ==
  \/ RepoNext /\ UNCHANGED <<stage, victim, aclVars>>
  \/ \E s \in Session : \/ FindExisting(s) \/ EvictExisting(s) \/ AddSession(s)
                        \/ \E c \in Client, r \in Repo : Handshake(s, c, r)
  \/ \E c \in Client, a \in Address \cup {None} : EditConfig(c, a)
  \/ \E c \in Client, r \in Repo : Revoke(c, r)
  \/ WatchStarts \/ RoundStarts \/ RoundEnds

Spec == Init /\ [][Next]_vars
FairSpec == Spec /\ RepoFairness

-----------------------------------------------------------------------------
(* Types.  Every variable keeps its type. *)
TypeOK ==
  /\ peer \in [Session -> Peer \cup {None}]
  /\ added \subseteq Session /\ closed \subseteq added /\ zeroed \subseteq closed
  /\ keyed \subseteq Session
  /\ byIP \in [Repo -> [Address -> Session \cup {None}]]
  /\ byAddr \in [Repo -> [Address -> Session \cup {None}]]
  /\ byRoute \subseteq Session /\ byKey \subseteq Session
  /\ lock \in [Repo -> Deletion \cup {None}]
  /\ recv \in [Session -> RecvState]
  /\ tun \in [Repo -> TunState]
  /\ stage \in [Session -> Stage]
  /\ victim \in [Session -> Session \cup {None}]
  /\ config \in Access /\ allowed \in Access
  /\ edits \in 0..MaxEdits
  /\ seen \in Access \cup {None}
  /\ round \in Round \cup {None}

(* No key is wiped under a thread that encrypts or decrypts with it: the   *)
(* closed flag and cryptoMu together keep Zeroize away from every Send and *)
(* Decrypt, whichever of the five deleting threads comes first.            *)
NoUseAfterZeroize == \A s \in zeroed : ~InUse(s)

(* A closed peer is in no index, so no packet thread can find it again.    *)
ClosedIsUnreachable ==
  \A s \in closed :
    /\ s \notin byRoute /\ s \notin byKey
    /\ \A r \in Repo, a \in Address : byIP[r][a] # s /\ byAddr[r][a] # s

(* Every open session is the one that packets for its addresses reach:     *)
(* registering a client again replaces its stale session.                  *)
LiveSessionReachable ==
  \A s \in added \ closed :
    /\ byIP[peer[s].repo][peer[s].addr] = s
    /\ byAddr[peer[s].repo][peer[s].addr] = s

(* Between rounds of the watcher, every session belongs to a client that   *)
(* has the access the session was made with.                               *)
SessionsHaveAccess ==
  round = None /\ seen # None =>
    \A s \in added \ closed : seen[peer[s].client] = peer[s].addr

(* When registrations and revocations come one after another, an open      *)
(* session is the one its client is reached by, and its client is allowed. *)
SessionsSound == LiveSessionReachable /\ SessionsHaveAccess

(* Why the first two hold: what is in an index, in a deletion or in the     *)
(* hands of a thread was added to that repository, and a peer is added     *)
(* once, by its own registration.                                          *)
Belongs(s, r) == s \in added /\ peer[s].repo = r

IndexesBelong ==
  /\ byRoute \subseteq added /\ byKey \subseteq added
  /\ \A r \in Repo, a \in Address :
       \A s \in {byIP[r][a], byAddr[r][a]} \ {None} : Belongs(s, r) /\ peer[s].addr = a

HeldBelong ==
  \A r \in Repo :
    /\ tun[r].pc # "idle" => Belongs(tun[r].peer, r)
    /\ lock[r] # None => /\ \A s \in lock[r].todo : Belongs(s, r)
                         /\ lock[r].closing \in closed \cup {None}

RegistrationsOrdered ==
  \A s \in Session :
    /\ s \in added <=> stage[s] = "done"
    /\ stage[s] # "new" => peer[s] \in Peer
    /\ stage[s] = "evicting" => Belongs(victim[s], peer[s].repo)

LifecycleInv ==
  /\ TypeOK
  /\ IndexesBelong
  /\ HeldBelong
  /\ RegistrationsOrdered
  /\ NoUseAfterZeroize
  /\ ClosedIsUnreachable

(* A peer that was closed is wiped in the end, and on TCP its thread ends  *)
(* (no thread that uses a peer needs a lock the deletion holds): time and  *)
(* again no teardown is under way.                                         *)
TeardownCompletes ==
  []<>(\A s \in closed : s \in zeroed /\ (IsTCP(s) => recv[s] = "exited"))

(* The repositories implement the table of sessions. *)
Table == INSTANCE SessionTable
  WITH table <- byIP, live <- added \ closed, entered <- added
ImplementsTable == Table!TableSpec
=============================================================================
