------------------------ MODULE ServerSessionsProofs ------------------------
(***************************************************************************)
(* The sessions of the server, proved for any number of repositories,      *)
(* clients, addresses and sessions.  For every overlap of registrations    *)
(* and revocations: LifecycleInv is inductive, and with it no key is wiped *)
(* under a thread that uses it and no closed peer can be found again.      *)
(* When they come one after another, SerialInv is: every open session is   *)
(* reachable and allowed, and the repositories implement SessionTable.     *)
(* Then the replay window of a session, for every width of the window and  *)
(* of the two halves of the nonce, and that the words, bits and list of    *)
(* windows of the code are such a window.                                  *)
(***************************************************************************)
EXTENDS ServerSessions, ReplayWindow, SlidingWindow, FiniteSetTheorems, TLAPS

(* The invariant holds before the first registration. *)
LEMMA InitLifecycle == Init => LifecycleInv
<1> SUFFICES ASSUME Init PROVE LifecycleInv
  OBVIOUS
<1> USE RepoAssumption, ServerAssumption
<1>1. TypeOK
  BY DEF Init, RepoInit, TypeOK, Access, Deletion, TunState, TunIdle, RecvState, Stage
<1>2. IndexesBelong
  BY DEF Init, RepoInit, IndexesBelong
<1>3. HeldBelong
  BY DEF Init, RepoInit, HeldBelong, TunIdle
<1>4. RegistrationsOrdered
  BY DEF Init, RepoInit, RegistrationsOrdered
<1>5. NoUseAfterZeroize /\ ClosedIsUnreachable
  BY DEF Init, RepoInit, NoUseAfterZeroize, ClosedIsUnreachable
<1> QED
  BY <1>1, <1>2, <1>3, <1>4, <1>5 DEF LifecycleInv

(* The type of a deletion that is under way. *)
LEMMA LockParts ==
  ASSUME TypeOK, NEW r \in Repo, lock[r] # None
  PROVE  /\ lock[r].closing \in Session \cup {None}
         /\ lock[r].todo \subseteq Session
         /\ lock[r].by \in {"session", "tun", "reaper", "watcher"}
<1>1. lock[r] \in Deletion
  BY DEF TypeOK
<1> QED
  BY <1>1 DEF Deletion

(* The start of a deletion of peers of that repository keeps what the lock *)
(* must satisfy.                                                           *)
LEMMA StartDeleteFacts ==
  ASSUME TypeOK, HeldBelong, NEW r \in Repo, NEW S \in SUBSET Session,
         \A s \in S : Belongs(s, r),
         NEW by \in {"session", "tun", "reaper", "watcher"}, StartDelete(r, S, by)
  PROVE  /\ lock' \in [Repo -> Deletion \cup {None}]
         /\ \A q \in Repo : lock'[q] # None =>
              /\ \A s \in lock'[q].todo : Belongs(s, q)
              /\ lock'[q].closing \in closed \cup {None}
<1>1. CASE lock' = lock
  BY <1>1 DEF TypeOK, HeldBelong
<1>2. CASE lock' = [lock EXCEPT ![r] = DeletionOf(None, S \ closed, by)]
  BY <1>2 DEF TypeOK, HeldBelong, Deletion, DeletionOf
<1> QED
  BY <1>1, <1>2 DEF StartDelete

-----------------------------------------------------------------------------
(* What only moves packet threads, and may begin a deletion, keeps the     *)
(* invariant when a thread begins to use a peer only while it is open.     *)
LEMMA ThreadsKeep ==
  ASSUME LifecycleInv,
         UNCHANGED <<peer, added, closed, zeroed, indexes, stage, victim, aclVars>>,
         keyed' \subseteq Session,
         lock' \in [Repo -> Deletion \cup {None}],
         \A r \in Repo : lock'[r] # None =>
           /\ \A s \in lock'[r].todo : Belongs(s, r)
           /\ lock'[r].closing \in closed \cup {None},
         recv' \in [Session -> RecvState],
         tun' \in [Repo -> TunState],
         \A s \in Session : Receives(s)' => Receives(s) \/ s \notin closed,
         \A r \in Repo : tun'[r].pc # "idle" => Belongs(tun'[r].peer, r),
         \A r \in Repo : tun'[r].pc = "using" => tun[r] = tun'[r] \/ tun'[r].peer \notin closed
  PROVE  LifecycleInv'
<1> USE DEF LifecycleInv, indexes, aclVars
<1>1. TypeOK'
  BY DEF TypeOK
<1>2. IndexesBelong' /\ RegistrationsOrdered'
  BY DEF IndexesBelong, RegistrationsOrdered, Belongs
<1>3. HeldBelong'
  BY DEF HeldBelong, Belongs
<1>4. NoUseAfterZeroize'
  <2> SUFFICES ASSUME NEW s \in zeroed PROVE ~InUse(s)'
    BY DEF NoUseAfterZeroize
  <2>1. s \in closed /\ s \in Session /\ ~InUse(s)
    BY DEF TypeOK, NoUseAfterZeroize
  <2>2. ~Receives(s)'
    BY <2>1 DEF InUse
  <2>3. ASSUME NEW r \in Repo, tun'[r] = [pc |-> "using", peer |-> s] PROVE FALSE
    BY <2>1, <2>3 DEF InUse
  <2> QED
    BY <2>2, <2>3 DEF InUse
<1>5. ClosedIsUnreachable'
  BY DEF ClosedIsUnreachable
<1> QED
  BY <1>1, <1>2, <1>3, <1>4, <1>5

(* What touches neither the repositories nor the registrations. *)
LEMMA AccessKeeps ==
  ASSUME LifecycleInv, UNCHANGED <<repoVars, stage, victim>>,
         config' \in Access, allowed' \in Access, edits' \in 0..MaxEdits,
         seen' \in Access \cup {None}, round' \in Round \cup {None}
  PROVE  LifecycleInv'
<1> USE DEF LifecycleInv, repoVars, indexes
<1>1. TypeOK'
  BY DEF TypeOK
<1>2. IndexesBelong' /\ RegistrationsOrdered' /\ HeldBelong'
  BY DEF IndexesBelong, RegistrationsOrdered, HeldBelong, Belongs
<1>3. NoUseAfterZeroize' /\ ClosedIsUnreachable'
  BY DEF NoUseAfterZeroize, InUse, Receives, ClosedIsUnreachable
<1> QED
  BY <1>1, <1>2, <1>3

(* Closing a peer takes it out of every index. *)
LEMMA CloseKeeps ==
  ASSUME LifecycleInv, NEW r \in Repo, CloseOne(r), UNCHANGED <<stage, victim, aclVars>>
  PROVE  LifecycleInv'
<1> USE DEF LifecycleInv, aclVars
<1>1. PICK s \in lock[r].todo :
        /\ lock' = [lock EXCEPT ![r] = DeletionOf(s, lock[r].todo \ {s}, lock[r].by)]
        /\ closed' = closed \cup {s}
        /\ byIP' = [byIP EXCEPT ![r][peer[s].addr] = None]
        /\ byAddr' = [byAddr EXCEPT ![r][peer[s].addr] = IF @ = s THEN None ELSE @]
        /\ byRoute' = byRoute \ {s}
        /\ byKey' = byKey \ {s}
  BY DEF CloseOne, RoutesWithout
<1>2. /\ lock[r] # None /\ UNCHANGED <<peer, added, zeroed, keyed, recv, tun>>
  BY DEF CloseOne
<1>3. s \in Session /\ Belongs(s, r) /\ peer[s] \in Peer /\ peer[s].addr \in Address
  <2>1. Belongs(s, r) /\ s \in Session
    BY <1>1, <1>2, LockParts DEF HeldBelong
  <2>2. stage[s] = "done"
    BY <2>1 DEF RegistrationsOrdered, Belongs
  <2>3. peer[s] \in Peer
    BY <2>1, <2>2 DEF RegistrationsOrdered
  <2> QED
    BY <2>1, <2>3 DEF Peer
<1>4. lock' \in [Repo -> Deletion \cup {None}]
  <2>1. DeletionOf(s, lock[r].todo \ {s}, lock[r].by) \in Deletion
    BY <1>2, <1>3, LockParts DEF Deletion, DeletionOf
  <2> QED
    BY <1>1, <2>1 DEF TypeOK
<1>5. TypeOK'
  <2>1. closed' \subseteq added
    BY <1>1, <1>3 DEF TypeOK, Belongs
  <2>2. byIP' \in [Repo -> [Address -> Session \cup {None}]]
    BY <1>1 DEF TypeOK
  <2>3. byAddr' \in [Repo -> [Address -> Session \cup {None}]]
    <3>1. byAddr[r] \in [Address -> Session \cup {None}]
      BY DEF TypeOK
    <3>2. CASE byAddr[r][peer[s].addr] = s
      BY <1>1, <1>3, <3>1, <3>2 DEF TypeOK
    <3>3. CASE byAddr[r][peer[s].addr] # s
      BY <1>1, <1>3, <3>1, <3>3 DEF TypeOK
    <3> QED
      BY <3>2, <3>3
  <2> QED
    BY <1>1, <1>2, <1>4, <2>1, <2>2, <2>3 DEF TypeOK
<1>6. \A q \in Repo, a \in Address :
        /\ byIP'[q][a] \in {byIP[q][a], None}
        /\ byAddr'[q][a] \in {byAddr[q][a], None}
        /\ q = r /\ a = peer[s].addr => byIP'[q][a] # s /\ byAddr'[q][a] # s
  BY <1>1, <1>3, RepoAssumption DEF TypeOK
<1>7. IndexesBelong'
  BY <1>1, <1>2, <1>6 DEF IndexesBelong, Belongs
<1>8. HeldBelong'
  <2>1. \A q \in Repo : tun'[q].pc # "idle" => Belongs(tun[q].peer, q)'
    BY <1>2 DEF HeldBelong, Belongs
  <2>2. ASSUME NEW q \in Repo, lock'[q] # None
        PROVE  (\A t \in lock'[q].todo : Belongs(t, q)) /\ lock'[q].closing \in closed' \cup {None}
    <3>1. CASE q = r
      <4>1. lock'[r] = DeletionOf(s, lock[r].todo \ {s}, lock[r].by)
        BY <1>1 DEF TypeOK
      <4>2. lock'[r].closing = s /\ lock'[r].todo = lock[r].todo \ {s}
        BY <4>1 DEF DeletionOf
      <4>3. \A t \in lock[r].todo : Belongs(t, r)
        BY <1>2 DEF HeldBelong
      <4>4. s \in closed'
        BY <1>1
      <4> QED
        BY <3>1, <4>2, <4>3, <4>4
    <3>2. CASE q # r
      <4>1. lock'[q] = lock[q]
        BY <1>1, <3>2 DEF TypeOK
      <4> QED
        BY <1>1, <1>2, <2>2, <4>1 DEF HeldBelong
    <3> QED
      BY <3>1, <3>2
  <2> QED
    BY <1>2, <2>1, <2>2 DEF HeldBelong, Belongs
<1>9. RegistrationsOrdered'
  BY <1>2 DEF RegistrationsOrdered, Belongs
<1>10. NoUseAfterZeroize'
  BY <1>2 DEF NoUseAfterZeroize, InUse, Receives
<1>11. ClosedIsUnreachable'
  <2> SUFFICES ASSUME NEW t \in closed'
               PROVE  /\ t \notin byRoute' /\ t \notin byKey'
                      /\ \A q \in Repo, a \in Address : byIP'[q][a] # t /\ byAddr'[q][a] # t
    BY DEF ClosedIsUnreachable
  <2>1. t # None
    BY <1>5, RepoAssumption DEF TypeOK
  <2>2. CASE t = s
    <3> SUFFICES ASSUME NEW q \in Repo, NEW a \in Address
                 PROVE  byIP'[q][a] # s /\ byAddr'[q][a] # s
      BY <1>1, <2>2
    <3>1. CASE q = r /\ a = peer[s].addr
      BY <1>6, <3>1
    <3>2. CASE ~(q = r /\ a = peer[s].addr)
      BY <1>3, <1>6, <2>1, <2>2, <3>2 DEF IndexesBelong, Belongs
    <3> QED
      BY <3>1, <3>2
  <2>3. CASE t # s
    BY <1>1, <1>6, <2>1, <2>3 DEF ClosedIsUnreachable
  <2> QED
    BY <2>2, <2>3
<1> QED
  BY <1>5, <1>7, <1>8, <1>9, <1>10, <1>11

(* Wiping waits for the threads that use the peer, so none does. *)
LEMMA ZeroizeKeeps ==
  ASSUME LifecycleInv, NEW r \in Repo, ZeroizeOne(r), UNCHANGED <<stage, victim, aclVars>>
  PROVE  LifecycleInv'
<1> USE DEF LifecycleInv, aclVars, indexes
<1> DEFINE s == lock[r].closing
           rest == DeletionOf(None, lock[r].todo, lock[r].by)
<1>1. /\ lock[r] # None /\ s # None /\ ~InUse(s)
      /\ zeroed' = zeroed \cup {s}
      /\ keyed' = keyed \ {s}
      /\ lock' = [lock EXCEPT ![r] = IF lock[r].todo = {} THEN None ELSE rest]
      /\ UNCHANGED <<peer, added, closed, indexes, recv, tun>>
  BY DEF ZeroizeOne, NotInUse
<1>2. s \in closed
  BY <1>1 DEF HeldBelong
<1>3. rest \in Deletion /\ rest.todo = lock[r].todo /\ rest.closing = None
  BY <1>1, LockParts DEF Deletion, DeletionOf
<1>4. TypeOK'
  <2>1. lock' \in [Repo -> Deletion \cup {None}]
    <3> HIDE DEF rest
    <3> QED
      BY <1>1, <1>3 DEF TypeOK
  <2> QED
    BY <1>1, <1>2, <2>1 DEF TypeOK
<1>5. IndexesBelong' /\ RegistrationsOrdered' /\ ClosedIsUnreachable'
  BY <1>1 DEF IndexesBelong, RegistrationsOrdered, ClosedIsUnreachable, Belongs
<1>6. HeldBelong'
  <2>1. ASSUME NEW q \in Repo, lock'[q] # None
        PROVE  (\A t \in lock'[q].todo : Belongs(t, q)) /\ lock'[q].closing \in closed \cup {None}
    <3> HIDE DEF rest, s
    <3>1. CASE q = r
      <4>1. lock'[r] = rest
        BY <1>1, <2>1, <3>1 DEF TypeOK
      <4>2. \A t \in lock[r].todo : Belongs(t, r)
        BY <1>1 DEF HeldBelong
      <4> QED
        BY <1>3, <3>1, <4>1, <4>2
    <3>2. CASE q # r
      <4>1. lock'[q] = lock[q]
        BY <1>1, <3>2 DEF TypeOK
      <4> QED
        BY <2>1, <4>1 DEF HeldBelong
    <3> QED
      BY <3>1, <3>2
  <2> QED
    BY <1>1, <2>1 DEF HeldBelong, Belongs
<1>7. NoUseAfterZeroize'
  <2> HIDE DEF s
  <2> QED
    BY <1>1 DEF NoUseAfterZeroize, InUse, Receives
<1> QED
  BY <1>4, <1>5, <1>6, <1>7

-----------------------------------------------------------------------------
(* A registration only ever touches a peer of its own, which no thread and *)
(* no index has seen before the addition.                                  *)

(* The handshake gives the new peer its repository and address. *)
LEMMA HandshakeKeeps ==
  ASSUME LifecycleInv, NEW s \in Session, NEW c \in Client, NEW r \in Repo, Handshake(s, c, r)
  PROVE  LifecycleInv'
<1> USE DEF LifecycleInv, aclVars, indexes
<1> DEFINE p == [repo |-> r, client |-> c, addr |-> allowed[c]]
<1>1. /\ stage[s] = "new" /\ allowed[c] # None
      /\ peer' = [peer EXCEPT ![s] = p]
      /\ stage' = [stage EXCEPT ![s] = "admitted"]
      /\ keyed' = keyed \cup {s}
      /\ UNCHANGED <<added, closed, zeroed, indexes, lock, recv, tun, victim, aclVars>>
  BY DEF Handshake
<1>2. p \in Peer
  BY <1>1 DEF TypeOK, Access, Peer
<1> HIDE DEF p
<1>3. s \notin added
  BY <1>1 DEF RegistrationsOrdered
<1>4. \A t \in Session : t # s => peer'[t] = peer[t] /\ stage'[t] = stage[t]
  BY <1>1 DEF TypeOK
<1>5. peer'[s] = p /\ stage'[s] = "admitted"
  BY <1>1 DEF TypeOK
<1>6. \A t, q : Belongs(t, q) => t \in Session /\ t \in added' /\ peer'[t] = peer[t] /\ peer[t].repo = q
  BY <1>1, <1>3, <1>4 DEF Belongs, TypeOK
<1>7. TypeOK'
  BY <1>1, <1>2 DEF TypeOK, Stage
<1>8. IndexesBelong'
  BY <1>1, <1>6 DEF IndexesBelong, Belongs
<1>9. HeldBelong'
  <2>1. ASSUME NEW q \in Repo, tun[q].pc # "idle" PROVE Belongs(tun[q].peer, q)'
    <3>1. Belongs(tun[q].peer, q)
      BY <2>1 DEF HeldBelong
    <3> QED
      BY <1>1, <1>6, <3>1 DEF Belongs
  <2>2. ASSUME NEW q \in Repo, lock[q] # None, NEW t \in lock[q].todo PROVE Belongs(t, q)'
    <3>1. Belongs(t, q)
      BY <2>2 DEF HeldBelong
    <3> QED
      BY <1>1, <1>6, <3>1 DEF Belongs
  <2>3. ASSUME NEW q \in Repo, lock[q] # None PROVE lock[q].closing \in closed \cup {None}
    BY <2>3 DEF HeldBelong
  <2>4. lock' = lock /\ closed' = closed /\ tun' = tun
    BY <1>1
  <2> QED
    BY <2>1, <2>2, <2>3, <2>4 DEF HeldBelong
<1>10. RegistrationsOrdered'
  <2> SUFFICES ASSUME NEW t \in Session
               PROVE  /\ t \in added' <=> stage'[t] = "done"
                      /\ stage'[t] # "new" => peer'[t] \in Peer
                      /\ stage'[t] = "evicting" => Belongs(victim[t], peer[t].repo)'
    BY DEF RegistrationsOrdered, Belongs
  <2>1. CASE t = s
    BY <1>1, <1>2, <1>3, <1>5, <2>1
  <2>2. CASE t # s
    BY <1>1, <1>4, <1>6, <2>2 DEF RegistrationsOrdered, Belongs
  <2> QED
    BY <2>1, <2>2
<1>11. NoUseAfterZeroize' /\ ClosedIsUnreachable'
  BY <1>1 DEF NoUseAfterZeroize, InUse, Receives, ClosedIsUnreachable
<1> QED
  BY <1>7, <1>8, <1>9, <1>10, <1>11

(* The lookup remembers a peer that an index names. *)
LEMMA FindKeeps ==
  ASSUME LifecycleInv, NEW s \in Session, FindExisting(s)
  PROVE  LifecycleInv'
<1> USE DEF LifecycleInv, aclVars, indexes, repoVars
<1> DEFINE found == byIP[peer[s].repo][peer[s].addr]
           next == IF found = None THEN "adding" ELSE "evicting"
<1>1. /\ stage[s] = "admitted"
      /\ victim' = [victim EXCEPT ![s] = found]
      /\ stage' = [stage EXCEPT ![s] = next]
      /\ UNCHANGED <<repoVars, aclVars>>
  BY DEF FindExisting, Existing
<1>2. peer[s] \in Peer /\ s \notin added
  BY <1>1 DEF RegistrationsOrdered
<1>3. found \in Session \cup {None}
  BY <1>2 DEF TypeOK, Peer
<1>4. found # None => Belongs(found, peer[s].repo)
  BY <1>2 DEF IndexesBelong, Peer
<1>5. next \in {"adding", "evicting"} /\ (next = "evicting" => found # None)
  OBVIOUS
<1> HIDE DEF found, next
<1>6. TypeOK'
  <2>1. stage' \in [Session -> Stage] /\ victim' \in [Session -> Session \cup {None}]
    BY <1>1, <1>3, <1>5 DEF TypeOK, Stage
  <2> QED
    BY <1>1, <2>1 DEF TypeOK
<1>7. IndexesBelong' /\ HeldBelong' /\ NoUseAfterZeroize' /\ ClosedIsUnreachable'
  BY <1>1 DEF IndexesBelong, HeldBelong, Belongs, NoUseAfterZeroize, InUse, Receives, ClosedIsUnreachable
<1>8. RegistrationsOrdered'
  <2> SUFFICES ASSUME NEW t \in Session
               PROVE  /\ t \in added' <=> stage'[t] = "done"
                      /\ stage'[t] # "new" => peer'[t] \in Peer
                      /\ stage'[t] = "evicting" => Belongs(victim[t], peer[t].repo)'
    BY DEF RegistrationsOrdered
  <2>1. CASE t = s
    <3>1. stage'[s] = next /\ victim'[s] = found
      BY <1>1 DEF TypeOK
    <3> QED
      BY <1>1, <1>2, <1>4, <1>5, <2>1, <3>1 DEF Belongs
  <2>2. CASE t # s
    <3>1. stage'[t] = stage[t] /\ victim'[t] = victim[t]
      BY <1>1, <2>2 DEF TypeOK
    <3> QED
      BY <1>1, <3>1 DEF RegistrationsOrdered, Belongs
  <2> QED
    BY <2>1, <2>2
<1> QED
  BY <1>6, <1>7, <1>8

(* The eviction deletes a peer of the same repository. *)
LEMMA EvictKeeps ==
  ASSUME LifecycleInv, NEW s \in Session, EvictExisting(s)
  PROVE  LifecycleInv'
<1> USE DEF LifecycleInv, aclVars, indexes
<1> DEFINE r == peer[s].repo
<1>1. /\ stage[s] = "evicting"
      /\ StartDelete(r, {victim[s]}, "session")
      /\ stage' = [stage EXCEPT ![s] = "adding"]
      /\ UNCHANGED <<peer, added, closed, zeroed, keyed, indexes, recv, tun, victim, aclVars>>
  BY DEF EvictExisting
<1>2. peer[s] \in Peer /\ Belongs(victim[s], r)
  BY <1>1 DEF RegistrationsOrdered
<1>3. r \in Repo /\ {victim[s]} \in SUBSET Session
  BY <1>2 DEF Peer, Belongs, TypeOK
<1>4. \A t \in {victim[s]} : Belongs(t, r)
  BY <1>2
<1> HIDE DEF r
<1>5. /\ lock' \in [Repo -> Deletion \cup {None}]
      /\ \A q \in Repo : lock'[q] # None =>
           /\ \A t \in lock'[q].todo : Belongs(t, q)
           /\ lock'[q].closing \in closed \cup {None}
  BY <1>1, <1>3, <1>4, StartDeleteFacts
<1>6. TypeOK'
  <2>1. stage' \in [Session -> Stage]
    BY <1>1 DEF TypeOK, Stage
  <2> QED
    BY <1>1, <1>5, <2>1 DEF TypeOK
<1>7. IndexesBelong' /\ NoUseAfterZeroize' /\ ClosedIsUnreachable'
  BY <1>1 DEF IndexesBelong, Belongs, NoUseAfterZeroize, InUse, Receives, ClosedIsUnreachable
<1>8. HeldBelong'
  BY <1>1, <1>5 DEF HeldBelong, Belongs
<1>9. RegistrationsOrdered'
  BY <1>1, <1>2 DEF RegistrationsOrdered, Belongs, TypeOK
<1> QED
  BY <1>6, <1>7, <1>8, <1>9

(* The addition makes a peer reachable that is neither closed nor held. *)
LEMMA AddKeeps ==
  ASSUME LifecycleInv, NEW s \in Session, AddSession(s)
  PROVE  LifecycleInv'
<1> USE DEF LifecycleInv, aclVars, indexes
<1> DEFINE r == peer[s].repo
           a == peer[s].addr
<1>1. /\ stage[s] = "adding"
      /\ added' = added \cup {s}
      /\ byIP' = [byIP EXCEPT ![r][a] = s]
      /\ byAddr' = [byAddr EXCEPT ![r][a] = s]
      /\ byRoute' \subseteq byRoute \cup {s}
      /\ byKey' = byKey \cup {s}
      /\ stage' = [stage EXCEPT ![s] = "done"]
      /\ UNCHANGED <<peer, closed, zeroed, keyed, lock, recv, tun, victim, aclVars>>
  BY DEF AddSession, Add
<1>2. peer[s] \in Peer /\ s \notin added
  BY <1>1 DEF RegistrationsOrdered
<1>3. r \in Repo /\ a \in Address /\ s \notin closed
  BY <1>2 DEF Peer, TypeOK
<1>4. \A q \in Repo, b \in Address :
        /\ byIP'[q][b] = IF q = r /\ b = a THEN s ELSE byIP[q][b]
        /\ byAddr'[q][b] = IF q = r /\ b = a THEN s ELSE byAddr[q][b]
  BY <1>1, <1>3 DEF TypeOK
<1>5. \A t, q : Belongs(t, q) => t \in added' /\ peer'[t].repo = q
  BY <1>1 DEF Belongs
<1>6. s \in added' /\ peer'[s].repo = r /\ peer'[s].addr = a
  BY <1>1
<1>7. TypeOK'
  <2>1. /\ byIP' \in [Repo -> [Address -> Session \cup {None}]]
        /\ byAddr' \in [Repo -> [Address -> Session \cup {None}]]
    BY <1>1 DEF TypeOK
  <2>2. stage' \in [Session -> Stage]
    BY <1>1 DEF TypeOK, Stage
  <2> QED
    BY <1>1, <2>1, <2>2 DEF TypeOK
<1> HIDE DEF r, a
<1>8. IndexesBelong'
  <2>1. byRoute' \subseteq added' /\ byKey' \subseteq added'
    BY <1>1 DEF IndexesBelong
  <2>2. ASSUME NEW q \in Repo, NEW b \in Address,
               NEW t \in {byIP'[q][b], byAddr'[q][b]}, t # None
        PROVE  t \in added' /\ peer'[t].repo = q /\ peer'[t].addr = b
    <3>1. CASE q = r /\ b = a
      BY <1>4, <1>6, <2>2, <3>1
    <3>2. CASE ~(q = r /\ b = a)
      <4>1. t \in {byIP[q][b], byAddr[q][b]}
        BY <1>4, <2>2, <3>2
      <4>2. Belongs(t, q) /\ peer[t].addr = b
        BY <2>2, <4>1 DEF IndexesBelong
      <4> QED
        BY <1>1, <1>5, <4>2
    <3> QED
      BY <3>1, <3>2
  <2> QED
    BY <2>1, <2>2 DEF IndexesBelong, Belongs
<1>9. HeldBelong'
  BY <1>1 DEF HeldBelong, Belongs
<1>10. RegistrationsOrdered'
  BY <1>1, <1>2 DEF RegistrationsOrdered, Belongs, TypeOK
<1>11. NoUseAfterZeroize'
  BY <1>1 DEF NoUseAfterZeroize, InUse, Receives
<1>12. ClosedIsUnreachable'
  <2> SUFFICES ASSUME NEW t \in closed
               PROVE  /\ t \notin byRoute' /\ t \notin byKey'
                      /\ \A q \in Repo, b \in Address : byIP'[q][b] # t /\ byAddr'[q][b] # t
    BY <1>1 DEF ClosedIsUnreachable
  <2>1. t # s
    BY <1>3
  <2> QED
    BY <1>1, <1>4, <2>1 DEF ClosedIsUnreachable
<1> QED
  BY <1>7, <1>8, <1>9, <1>10, <1>11, <1>12

-----------------------------------------------------------------------------
(* Packet threads. *)

(* The steps of the receiving threads and of the TUN thread keep the       *)
(* invariant: MayUse is the only way into "using".                         *)
LEMMA ThreadStepKeeps ==
  ASSUME LifecycleInv, UNCHANGED <<stage, victim, aclVars>>,
         \/ \E s \in Session : \/ Receive(s) \/ RecvUse(s) \/ RecvDone(s)
                               \/ RecvHandle(s) \/ RecvRekey(s) \/ ServeEnds(s)
         \/ \E r \in Repo : ReapIdle(r) \/ TunFind(r) \/ TunUse(r) \/ TunDone(r) \/ TunDrop(r)
  PROVE  LifecycleInv'
<1> USE DEF LifecycleInv
<1> DEFINE LockOK ==
             /\ lock' \in [Repo -> Deletion \cup {None}]
             /\ \A r \in Repo : lock'[r] # None =>
                  /\ \A s \in lock'[r].todo : Belongs(s, r)
                  /\ lock'[r].closing \in closed \cup {None}
           RecvOK ==
             /\ recv' \in [Session -> RecvState]
             /\ \A s \in Session : Receives(s)' => Receives(s) \/ s \notin closed
           TunOK ==
             /\ tun' \in [Repo -> TunState]
             /\ \A r \in Repo : tun'[r].pc # "idle" => Belongs(tun'[r].peer, r)
             /\ \A r \in Repo : tun'[r].pc = "using" =>
                                  tun[r] = tun'[r] \/ tun'[r].peer \notin closed
<1>1. ASSUME UNCHANGED <<peer, added, closed, zeroed, indexes, stage, victim, aclVars>>,
             keyed' \subseteq Session, LockOK, RecvOK, TunOK
      PROVE  LifecycleInv'
  BY <1>1, ThreadsKeep
<1>2. UNCHANGED lock => LockOK
  BY DEF TypeOK, HeldBelong
<1>3. UNCHANGED recv => RecvOK
  BY DEF TypeOK, Receives
<1>4. keyed \subseteq Session
  BY DEF TypeOK
<1>5. UNCHANGED tun => TunOK
  BY DEF TypeOK, HeldBelong
<1>6. ASSUME NEW r \in Repo, NEW next \in TunState, tun' = [tun EXCEPT ![r] = next],
             next.pc # "idle" => Belongs(next.peer, r),
             next.pc = "using" => next.peer \notin closed
      PROVE  TunOK
  <2>1. tun' \in [Repo -> TunState]
    BY <1>6 DEF TypeOK
  <2>2. \A q \in Repo : tun'[q] = IF q = r THEN next ELSE tun[q]
    BY <1>6 DEF TypeOK
  <2> QED
    BY <1>6, <2>1, <2>2 DEF HeldBelong
<1>7. ASSUME NEW s \in Session, NEW next \in RecvState, recv' = [recv EXCEPT ![s] = next],
             next \in {"opening", "sending"} => s \notin closed
      PROVE  RecvOK
  BY <1>7 DEF TypeOK, Receives
<1>8. TunIdle \in TunState /\ TunIdle.pc = "idle"
  BY DEF TunIdle, TunState
<1>9. \A r \in Repo : tun[r] \in TunState
  BY DEF TypeOK
<1>10. ASSUME NEW r \in Repo, NEW S \in SUBSET Session, \A s \in S : Belongs(s, r),
             NEW by \in {"session", "tun", "reaper", "watcher"}, StartDelete(r, S, by)
      PROVE  LockOK
  BY <1>10, StartDeleteFacts
<1> HIDE DEF LockOK, RecvOK, TunOK
<1>11. ASSUME NEW s \in Session, Receive(s) PROVE LifecycleInv'
  <2>1. recv' = [recv EXCEPT ![s] = "found"] /\ "found" \in RecvState
    BY <1>11 DEF Receive, RecvState
  <2>2. RecvOK
    BY <1>7, <2>1
  <2> QED
    BY <1>4, <1>1, <1>2, <1>5, <1>11, <2>2 DEF Receive
<1>12. ASSUME NEW s \in Session, RecvUse(s) PROVE LifecycleInv'
  <2> DEFINE next == IF ~MayUse(s) THEN Left(s)
                      ELSE IF recv[s] = "found" THEN "opening" ELSE "sending"
  <2>1. next \in RecvState /\ (next \in {"opening", "sending"} => s \notin closed)
    BY DEF RecvState, MayUse, Left
  <2>2. recv' = [recv EXCEPT ![s] = next]
    BY <1>12 DEF RecvUse
  <2> HIDE DEF next
  <2>3. RecvOK
    BY <1>7, <2>1, <2>2
  <2> QED
    BY <1>4, <1>1, <1>2, <1>5, <1>12, <2>3 DEF RecvUse
<1>13. ASSUME NEW s \in Session, RecvDone(s) PROVE LifecycleInv'
  <2>1. PICK next \in {"idle", "opened", "leaving"} : recv' = [recv EXCEPT ![s] = next]
    BY <1>13 DEF RecvDone, Left
  <2>2. next \in RecvState /\ next \notin {"opening", "sending"}
    BY <2>1 DEF RecvState
  <2>3. RecvOK
    BY <1>7, <2>1, <2>2
  <2> QED
    BY <1>4, <1>1, <1>2, <1>5, <1>13, <2>3 DEF RecvDone
<1>14. ASSUME NEW s \in Session, RecvHandle(s) PROVE LifecycleInv'
  <2>1. PICK next \in {"idle", "answering", "leaving"} : recv' = [recv EXCEPT ![s] = next]
    BY <1>14 DEF RecvHandle, Left
  <2>2. next \in RecvState /\ next \notin {"opening", "sending"}
    BY <2>1 DEF RecvState
  <2>3. RecvOK
    BY <1>7, <2>1, <2>2
  <2> QED
    BY <1>4, <1>1, <1>2, <1>5, <1>14, <2>3 DEF RecvHandle
<1>15. ASSUME NEW s \in Session, RecvRekey(s) PROVE LifecycleInv'
  <2>1. recv' = [recv EXCEPT ![s] = "answering"] /\ "answering" \in RecvState
    BY <1>15 DEF RecvRekey, RecvState
  <2>2. RecvOK
    BY <1>7, <2>1
  <2>3. keyed' \subseteq Session
    BY <1>4, <1>15 DEF RecvRekey
  <2> QED
    BY <1>4, <1>1, <1>2, <1>5, <1>15, <2>2, <2>3 DEF RecvRekey
<1>16. ASSUME NEW s \in Session, ServeEnds(s) PROVE LifecycleInv'
  <2>1. recv' = [recv EXCEPT ![s] = "exited"] /\ "exited" \in RecvState
    BY <1>16 DEF ServeEnds, RecvState
  <2>2. RecvOK
    BY <1>7, <2>1
  <2>3. s \in added /\ peer[s] \in Peer
    BY <1>16 DEF ServeEnds, RegistrationsOrdered
  <2>4. peer[s].repo \in Repo /\ {s} \in SUBSET Session /\ \A t \in {s} : Belongs(t, peer[s].repo)
    BY <2>3 DEF Peer, Belongs
  <2>5. LockOK
    BY <1>10, <1>16, <2>4 DEF ServeEnds
  <2> QED
    BY <1>4, <1>1, <1>5, <1>16, <2>2, <2>5 DEF ServeEnds
<1>17. ASSUME NEW r \in Repo, ReapIdle(r) PROVE LifecycleInv'
  <2>1. PICK idle \in SUBSET ({byIP[r][a] : a \in Address} \ {None}) : StartDelete(r, idle, "reaper")
    BY <1>17 DEF ReapIdle
  <2>2. idle \in SUBSET Session /\ \A s \in idle : Belongs(s, r)
    BY <2>1 DEF IndexesBelong, TypeOK
  <2>3. LockOK
    BY <1>10, <2>1, <2>2
  <2> QED
    BY <1>4, <1>1, <1>3, <1>5, <1>17, <2>3 DEF ReapIdle
<1>18. ASSUME NEW r \in Repo, TunFind(r) PROVE LifecycleInv'
  <2>0. PICK a \in Address : \E s \in {byIP[r][a], byAddr[r][a]} \ {None} :
          tun' = [tun EXCEPT ![r] = [pc |-> "found", peer |-> s]]
    BY <1>18 DEF TunFind
  <2>1. PICK s \in {byIP[r][a], byAddr[r][a]} \ {None} :
          tun' = [tun EXCEPT ![r] = [pc |-> "found", peer |-> s]]
    BY <2>0
  <2>2. s \in Session /\ Belongs(s, r)
    BY <2>1 DEF TypeOK, IndexesBelong
  <2> DEFINE next == [pc |-> "found", peer |-> s]
  <2>3. next \in TunState /\ next.pc = "found" /\ next.peer = s
    BY <2>2 DEF TunState
  <2> HIDE DEF next
  <2>4. tun' = [tun EXCEPT ![r] = next]
    BY <2>1 DEF next
  <2>5. TunOK
    BY <1>6, <2>2, <2>3, <2>4
  <2> QED
    BY <1>4, <1>1, <1>2, <1>3, <1>18, <2>5 DEF TunFind
<1>19. ASSUME NEW r \in Repo, TunUse(r) PROVE LifecycleInv'
  <2> DEFINE next == [tun[r] EXCEPT !.pc = IF MayUse(tun[r].peer) THEN "using" ELSE "failed"]
  <2>1. next \in TunState /\ next.peer = tun[r].peer
        /\ (next.pc = "using" => next.peer \notin closed)
    BY <1>9 DEF TunState, MayUse
  <2>2. Belongs(tun[r].peer, r)
    BY <1>19 DEF TunUse, HeldBelong
  <2>3. tun' = [tun EXCEPT ![r] = next]
    BY <1>19 DEF TunUse
  <2> HIDE DEF next
  <2>4. TunOK
    BY <1>6, <2>1, <2>2, <2>3
  <2> QED
    BY <1>4, <1>1, <1>2, <1>3, <1>19, <2>4 DEF TunUse
<1>20. ASSUME NEW r \in Repo, TunDone(r) PROVE LifecycleInv'
  <2>1. PICK next \in {TunIdle, [tun[r] EXCEPT !.pc = "failed"]} : tun' = [tun EXCEPT ![r] = next]
    BY <1>20 DEF TunDone
  <2>2. Belongs(tun[r].peer, r)
    BY <1>20 DEF TunDone, HeldBelong
  <2>3. next \in TunState /\ next.pc # "using" /\ (next.pc # "idle" => next.peer = tun[r].peer)
    BY <1>8, <1>9, <2>1 DEF TunState
  <2>4. TunOK
    BY <1>6, <2>1, <2>2, <2>3
  <2> QED
    BY <1>4, <1>1, <1>2, <1>3, <1>20, <2>4 DEF TunDone
<1>21. ASSUME NEW r \in Repo, TunDrop(r) PROVE LifecycleInv'
  <2>1. tun' = [tun EXCEPT ![r] = TunIdle] /\ StartDelete(r, {tun[r].peer}, "tun")
    BY <1>21 DEF TunDrop
  <2>2. Belongs(tun[r].peer, r)
    BY <1>21 DEF TunDrop, HeldBelong
  <2>3. {tun[r].peer} \in SUBSET Session /\ \A s \in {tun[r].peer} : Belongs(s, r)
    BY <2>2 DEF Belongs, TypeOK
  <2>4. LockOK
    BY <1>10, <2>1, <2>3
  <2>5. TunOK
    BY <1>6, <1>8, <2>1
  <2> QED
    BY <1>4, <1>1, <1>3, <1>21, <2>4, <2>5 DEF TunDrop
<1> QED
  BY <1>11, <1>12, <1>13, <1>16, <1>17, <1>18, <1>19, <1>20, <1>21, <1>14, <1>15

(* A revocation deletes the sessions of one client in one repository. *)
LEMMA RevokeKeeps ==
  ASSUME LifecycleInv, NEW c \in Client, NEW r \in Repo, Revoke(c, r)
  PROVE  LifecycleInv'
<1> USE DEF LifecycleInv, indexes
<1> DEFINE S == {s \in byKey : peer[s].client = c /\ peer[s].repo = r}
<1>1. /\ round # None
      /\ StartDelete(r, S, "watcher")
      /\ round' = [round EXCEPT !.revoke = @ \ {<<c, r>>}]
      /\ UNCHANGED <<peer, added, closed, zeroed, keyed, indexes, recv, tun>>
      /\ UNCHANGED <<stage, victim, config, edits, allowed, seen>>
  BY DEF Revoke
<1>2. S \in SUBSET Session /\ \A s \in S : Belongs(s, r)
  BY DEF TypeOK, IndexesBelong, Belongs
<1> HIDE DEF S
<1>3. /\ lock' \in [Repo -> Deletion \cup {None}]
      /\ \A q \in Repo : lock'[q] # None =>
           /\ \A t \in lock'[q].todo : Belongs(t, q)
           /\ lock'[q].closing \in closed \cup {None}
  BY <1>1, <1>2, StartDeleteFacts
<1>4. TypeOK'
  <2>1. round \in Round
    BY <1>1 DEF TypeOK
  <2>2. round' \in Round
    BY <1>1, <2>1 DEF Round
  <2> QED
    BY <1>1, <1>3, <2>2 DEF TypeOK
<1>5. IndexesBelong' /\ NoUseAfterZeroize' /\ ClosedIsUnreachable' /\ RegistrationsOrdered'
  BY <1>1 DEF IndexesBelong, Belongs, NoUseAfterZeroize, InUse, Receives, ClosedIsUnreachable,
              RegistrationsOrdered
<1>6. HeldBelong'
  BY <1>1, <1>3 DEF HeldBelong, Belongs
<1> QED
  BY <1>4, <1>5, <1>6

(* Edits and the watcher's reading of them concern no session. *)
LEMMA AccessStepKeeps ==
  ASSUME LifecycleInv,
         \/ \E c \in Client, a \in Address \cup {None} : EditConfig(c, a)
         \/ WatchStarts \/ RoundStarts \/ RoundEnds
  PROVE  LifecycleInv'
<1> USE DEF LifecycleInv
<1>1. ASSUME NEW c \in Client, NEW a \in Address \cup {None}, EditConfig(c, a)
      PROVE  LifecycleInv'
  <2>1. config' \in Access
    BY <1>1 DEF EditConfig, TypeOK, Access
  <2>2. edits' \in 0..MaxEdits
    BY <1>1, ServerAssumption DEF EditConfig, TypeOK
  <2>3. allowed' \in Access /\ seen' \in Access \cup {None} /\ round' \in Round \cup {None}
        /\ UNCHANGED <<repoVars, stage, victim>>
    BY <1>1 DEF EditConfig, TypeOK
  <2> QED
    BY <2>1, <2>2, <2>3, AccessKeeps
<1>2. CASE WatchStarts
  <2>1. Nobody \in Access
    BY DEF Nobody, Access
  <2> QED
    BY <1>2, <2>1, AccessKeeps DEF WatchStarts, TypeOK
<1>3. CASE RoundStarts
  <2>1. [conf |-> config, revoke |-> LostAccess(seen, config) \X Repo] \in Round
    BY DEF Round, TypeOK, LostAccess
  <2>2. round' \in Round
    BY <1>3, <2>1 DEF RoundStarts
  <2> QED
    BY <1>3, <2>2, AccessKeeps DEF RoundStarts, TypeOK
<1>4. CASE RoundEnds
  <2>1. round \in Round
    BY <1>4 DEF RoundEnds, TypeOK
  <2>2. round.conf \in Access
    BY <2>1 DEF Round
  <2> QED
    BY <1>4, <2>2, AccessKeeps DEF RoundEnds, TypeOK
<1> QED
  BY <1>1, <1>2, <1>3, <1>4

-----------------------------------------------------------------------------
(* Whatever comes next, the invariant of the teardown stays. *)
LEMMA LifecycleStep == LifecycleInv /\ [Next]_vars => LifecycleInv'
<1> SUFFICES ASSUME LifecycleInv, [Next]_vars PROVE LifecycleInv'
  OBVIOUS
<1>1. CASE RepoNext /\ UNCHANGED <<stage, victim, aclVars>>
  BY <1>1, CloseKeeps, ZeroizeKeeps, ThreadStepKeeps DEF RepoNext
<1>2. CASE \E s \in Session : \/ FindExisting(s) \/ EvictExisting(s) \/ AddSession(s)
                              \/ \E c \in Client, r \in Repo : Handshake(s, c, r)
  BY <1>2, FindKeeps, EvictKeeps, AddKeeps, HandshakeKeeps
<1>3. CASE \E c \in Client, a \in Address \cup {None} : EditConfig(c, a)
  BY <1>3, AccessStepKeeps
<1>4. CASE \E c \in Client, r \in Repo : Revoke(c, r)
  BY <1>4, RevokeKeeps
<1>5. CASE WatchStarts \/ RoundStarts \/ RoundEnds
  BY <1>5, AccessStepKeeps
<1>6. CASE UNCHANGED vars
  <2>1. /\ UNCHANGED <<repoVars, stage, victim>>
        /\ UNCHANGED <<config, allowed, edits, seen, round>>
    BY <1>6 DEF vars, aclVars
  <2> QED
    BY <2>1, AccessKeeps DEF LifecycleInv, TypeOK
<1> QED
  BY <1>1, <1>2, <1>3, <1>4, <1>5, <1>6 DEF Next

(* Every reachable state satisfies the invariant of the teardown. *)
THEOREM LifecycleHolds == Spec => []LifecycleInv
<1>1. Init => LifecycleInv
  BY InitLifecycle
<1>2. LifecycleInv /\ [Next]_vars => LifecycleInv'
  BY LifecycleStep
<1> QED
  BY <1>1, <1>2, PTL DEF Spec

(* No key is wiped under a thread that encrypts or decrypts with it. *)
THEOREM NoUseAfterZeroizeHolds == Spec => []NoUseAfterZeroize
<1>1. LifecycleInv => NoUseAfterZeroize
  BY DEF LifecycleInv
<1> QED
  BY <1>1, LifecycleHolds, PTL

(* No lookup of any index finds a peer that was closed. *)
THEOREM ClosedIsUnreachableHolds == Spec => []ClosedIsUnreachable
<1>1. LifecycleInv => ClosedIsUnreachable
  BY DEF LifecycleInv
<1> QED
  BY <1>1, LifecycleHolds, PTL

-----------------------------------------------------------------------------
(* Registrations and rounds of the watcher one after another.              *)

(* A registration is alone in its repository, and between rounds of the    *)
(* watcher: the access it was admitted with is the present one.            *)
RegistersAlone ==
  \A s \in Session : Registering(s) =>
    /\ round = None /\ seen # None /\ seen = allowed /\ allowed[peer[s].client] = peer[s].addr
    /\ \A t \in Session : Registering(t) /\ peer[t].repo = peer[s].repo => t = s

(* Nobody but the deletion closes what it is about to close.               *)
TodoIsOpen == \A r \in Repo : lock[r] # None => lock[r].todo \cap closed = {}

Live == added \ closed
At(s) == <<peer[s].repo, peer[s].addr>>
AboutToClose(s, r) == lock[r] # None /\ s \in lock[r].todo

(* What is left of the session that has the address of a registration: the *)
(* one it found, then nothing but what a deletion is about to close.       *)
AddressBecomesFree ==
  \A s \in Session, t \in Live : Registering(s) /\ At(t) = At(s) =>
    /\ stage[s] = "evicting" => t = victim[s]
    /\ stage[s] = "adding" => AboutToClose(t, peer[s].repo)

LiveInKey == Live \subseteq byKey

(* Whom a round does not leave with access it still has to revoke, or the  *)
(* deletion it waits for has still to close.                               *)
StillRevoked(s) ==
  \/ <<peer[s].client, peer[s].repo>> \in round.revoke
  \/ AboutToClose(s, peer[s].repo) /\ lock[peer[s].repo].by = "watcher"

RoundRevokes ==
  \A s \in Live :
    /\ seen # None /\ seen[peer[s].client] = peer[s].addr
    /\ round # None => round.conf[peer[s].client] = peer[s].addr \/ StillRevoked(s)

SerialInv ==
  /\ LifecycleInv /\ RegistersAlone /\ TodoIsOpen /\ AddressBecomesFree /\ LiveInKey /\ RoundRevokes
  /\ LiveSessionReachable
  /\ round # None => seen # None

(* What SerialInv says of the invariant of the teardown's own parts. *)
LEMMA LiveParts ==
  ASSUME LifecycleInv, NEW s \in Live
  PROVE  /\ s \in Session /\ s \in added /\ s \notin closed /\ stage[s] = "done" /\ ~Registering(s)
         /\ peer[s] \in Peer /\ peer[s].repo \in Repo /\ peer[s].client \in Client
         /\ peer[s].addr \in Address
<1>1. s \in Session /\ s \in added /\ s \notin closed
  BY DEF Live, LifecycleInv, TypeOK
<1>2. stage[s] = "done" /\ peer[s] \in Peer
  BY <1>1 DEF LifecycleInv, RegistrationsOrdered
<1> QED
  BY <1>1, <1>2 DEF Registering, Peer

LEMMA RegisteringParts ==
  ASSUME LifecycleInv, NEW s \in Session, Registering(s)
  PROVE  s \notin added /\ peer[s] \in Peer /\ peer[s].repo \in Repo /\ peer[s].client \in Client
         /\ peer[s].addr \in Address
<1>1. peer[s] \in Peer /\ s \notin added
  BY DEF LifecycleInv, RegistrationsOrdered, Registering
<1> QED
  BY <1>1 DEF Peer

LEMMA InitSerial == Init => SerialInv
<1> SUFFICES ASSUME Init PROVE SerialInv
  OBVIOUS
<1>1. LifecycleInv
  BY InitLifecycle
<1>2. added = {} /\ round = None /\ \A s \in Session : ~Registering(s)
  BY DEF Init, RepoInit, Registering
<1>3. \A r \in Repo : lock[r] = None
  BY DEF Init, RepoInit
<1> QED
  BY <1>1, <1>2, <1>3 DEF SerialInv, RegistersAlone, TodoIsOpen, AddressBecomesFree, LiveInKey, Live,
     RoundRevokes, LiveSessionReachable

(* What the invariant speaks of, and a step of a packet thread or of the   *)
(* operator leaves alone.                                                  *)
LEMMA QuietKeeps ==
  ASSUME SerialInv, LifecycleInv', UNCHANGED <<peer, added, closed, byIP, byAddr, byKey, lock>>,
         UNCHANGED <<stage, victim, allowed, seen, round>>
  PROVE  SerialInv'
  BY DEF SerialInv, RegistersAlone, Registering, TodoIsOpen, AddressBecomesFree, Live, At, AboutToClose,
     LiveInKey, RoundRevokes, StillRevoked, LiveSessionReachable

(* A deletion takes the lock of a repository that was free. *)
LEMMA DeletionBegun ==
  ASSUME LifecycleInv, NEW r \in Repo, NEW S \in SUBSET Session,
         NEW by \in {"session", "tun", "reaper", "watcher"}, StartDelete(r, S, by)
  PROVE  /\ lock[r] = None
         /\ \A q \in Repo : q # r => lock'[q] = lock[q]
         /\ \A q \in Repo, s \in Session : AboutToClose(s, q) =>
              AboutToClose(s, q)' /\ lock'[q] = lock[q]
         /\ \A s \in S : s \notin closed => AboutToClose(s, r)' /\ lock'[r].by = by
         /\ \A q \in Repo : lock'[q] # None /\ (lock[q] # None => lock[q].todo \cap closed = {}) =>
              lock'[q].todo \cap closed = {}
<1>1. lock[r] = None /\ lock \in [Repo -> Deletion \cup {None}]
  BY DEF StartDelete, LifecycleInv, TypeOK
<1>2. CASE lock' = lock /\ S \subseteq closed
  BY <1>1, <1>2 DEF AboutToClose
<1>3. CASE lock' = [lock EXCEPT ![r] = DeletionOf(None, S \ closed, by)]
  <2> DEFINE d == DeletionOf(None, S \ closed, by)
  <2>1. lock'[r] = d /\ \A q \in Repo : q # r => lock'[q] = lock[q]
    BY <1>1, <1>3
  <2>2. d.todo = S \ closed /\ d.by = by /\ d \in Deletion
    BY DEF DeletionOf, Deletion
  <2>3. d # None
    BY <2>2, RepoAssumption
  <2> HIDE DEF d
  <2> QED
    BY <1>1, <2>1, <2>2, <2>3 DEF AboutToClose
<1> QED
  BY <1>2, <1>3 DEF StartDelete

(* The start of a deletion by anybody but the watcher; a registration that *)
(* deletes what it found goes on to the addition.                          *)
LEMMA DeletionKeeps ==
  ASSUME SerialInv, LifecycleInv', UNCHANGED <<peer, added, closed, byIP, byAddr, byKey>>,
         UNCHANGED <<victim, allowed, seen, round>>,
         NEW r \in Repo, NEW S \in SUBSET Session,
         NEW by \in {"session", "tun", "reaper", "watcher"}, StartDelete(r, S, by),
         \A s \in Session : \/ stage'[s] = stage[s]
                            \/ /\ stage[s] = "evicting" /\ stage'[s] = "adding"
                               /\ peer[s].repo = r /\ victim[s] \in S
  PROVE  SerialInv'
<1> USE DEF SerialInv
<1>1. \A s \in Session : Registering(s)' <=> Registering(s)
  BY DEF Registering
<1>2. RegistersAlone'
  BY <1>1 DEF RegistersAlone
<1>3. TodoIsOpen'
  BY DeletionBegun DEF TodoIsOpen
<1>4. AddressBecomesFree'
  <2> SUFFICES ASSUME NEW s \in Session, NEW t \in Live, Registering(s), At(t) = At(s)
               PROVE  /\ stage'[s] = "evicting" => t = victim[s]
                      /\ stage'[s] = "adding" => AboutToClose(t, peer[s].repo)'
    BY <1>1 DEF AddressBecomesFree, Live, At
  <2>1. t \in Session /\ peer[s].repo \in Repo /\ t \notin closed
    BY LiveParts, RegisteringParts
  <2>2. CASE stage'[s] = stage[s]
    BY <2>1, <2>2, DeletionBegun DEF AddressBecomesFree
  <2>3. CASE stage[s] = "evicting" /\ stage'[s] = "adding" /\ peer[s].repo = r /\ victim[s] \in S
    <3>1. t = victim[s]
      BY <2>3 DEF AddressBecomesFree
    <3> QED
      BY <2>1, <2>3, <3>1, DeletionBegun
  <2> QED
    BY <2>2, <2>3
<1>5. RoundRevokes'
  <2> SUFFICES ASSUME NEW s \in Live, round # None, StillRevoked(s) PROVE StillRevoked(s)'
    BY DEF RoundRevokes, Live
  <2> QED
    BY LiveParts, DeletionBegun DEF StillRevoked
<1> QED
  BY <1>2, <1>3, <1>4, <1>5 DEF LiveInKey, Live, LiveSessionReachable

(* Closing a peer: the index entry that goes is its own. *)
LEMMA CloseKeepsSerial ==
  ASSUME SerialInv, LifecycleInv', NEW r \in Repo, CloseOne(r), UNCHANGED <<stage, victim, aclVars>>
  PROVE  SerialInv'
<1> USE DEF SerialInv, aclVars
<1>1. PICK s \in lock[r].todo :
        /\ lock' = [lock EXCEPT ![r] = DeletionOf(s, lock[r].todo \ {s}, lock[r].by)]
        /\ closed' = closed \cup {s}
        /\ byIP' = [byIP EXCEPT ![r][peer[s].addr] = None]
        /\ byAddr' = [byAddr EXCEPT ![r][peer[s].addr] = IF @ = s THEN None ELSE @]
        /\ byKey' = byKey \ {s}
  BY DEF CloseOne
<1>2. /\ lock[r] # None /\ UNCHANGED <<peer, added>>
      /\ lock[r].closing \in Session \cup {None} /\ lock[r].todo \subseteq Session
      /\ lock[r].by \in {"session", "tun", "reaper", "watcher"}
  BY LockParts DEF CloseOne, LifecycleInv
<1>3. s \in Live /\ s \in Session /\ peer[s].repo = r /\ peer[s].addr \in Address
  <2>1. Belongs(s, r) /\ s \notin closed
    BY <1>1, <1>2 DEF LifecycleInv, HeldBelong, TodoIsOpen
  <2> QED
    BY <2>1, LiveParts DEF Belongs, Live
<1>4. /\ \A q \in Repo : q # r => lock'[q] = lock[q]
      /\ lock'[r] = DeletionOf(s, lock[r].todo \ {s}, lock[r].by)
      /\ lock'[r] # None /\ lock'[r].todo = lock[r].todo \ {s} /\ lock'[r].by = lock[r].by
  <2> DEFINE d == DeletionOf(s, lock[r].todo \ {s}, lock[r].by)
  <2>1. d \in Deletion /\ d.todo = lock[r].todo \ {s} /\ d.by = lock[r].by
    BY <1>2, <1>3 DEF Deletion, DeletionOf
  <2> HIDE DEF d
  <2> QED
    BY <1>1, <2>1, RepoAssumption DEF LifecycleInv, TypeOK, d
<1>5. \A t : t \in Live' <=> t \in Live /\ t # s
  BY <1>1, <1>2 DEF Live
<1>6. \A t \in Live', q \in Repo : AboutToClose(t, q) => AboutToClose(t, q)' /\ lock'[q].by = lock[q].by
  BY <1>4, <1>5 DEF AboutToClose
<1>7. RegistersAlone'
  BY <1>2 DEF RegistersAlone, Registering
<1>8. TodoIsOpen'
  <2> SUFFICES ASSUME NEW q \in Repo, lock'[q] # None, NEW t \in lock'[q].todo PROVE t \notin closed'
    BY DEF TodoIsOpen
  <2>1. lock[q] # None /\ t \in lock[q].todo /\ t \notin closed
    BY <1>2, <1>4 DEF TodoIsOpen
  <2>2. t # s
    <3>1. CASE q = r
      BY <1>4, <3>1
    <3>2. CASE q # r
      BY <1>3, <2>1, <3>2 DEF LifecycleInv, HeldBelong, Belongs
    <3> QED
      BY <3>1, <3>2
  <2> QED
    BY <1>1, <2>1, <2>2
<1>9. AddressBecomesFree'
  <2> SUFFICES ASSUME NEW x \in Session, NEW t \in Live', Registering(x), At(t) = At(x)
               PROVE  /\ stage[x] = "evicting" => t = victim[x]
                      /\ stage[x] = "adding" => AboutToClose(t, peer[x].repo)'
    BY <1>2 DEF AddressBecomesFree, Registering, At
  <2>1. t \in Live /\ peer[x].repo \in Repo
    BY <1>5, RegisteringParts
  <2>2. /\ stage[x] = "evicting" => t = victim[x]
        /\ stage[x] = "adding" => AboutToClose(t, peer[x].repo)
    BY <2>1 DEF AddressBecomesFree
  <2> QED
    BY <1>2, <1>6, <2>1, <2>2
<1>10. LiveInKey'
  BY <1>1, <1>5 DEF LiveInKey
<1>11. RoundRevokes'
  <2> SUFFICES ASSUME NEW t \in Live', round # None, StillRevoked(t) PROVE StillRevoked(t)'
    BY <1>2, <1>5 DEF RoundRevokes
  <2> QED
    BY <1>2, <1>5, <1>6, LiveParts DEF StillRevoked
<1>12. LiveSessionReachable'
  <2> SUFFICES ASSUME NEW t \in Live'
               PROVE  /\ byIP'[peer[t].repo][peer[t].addr] = t
                      /\ byAddr'[peer[t].repo][peer[t].addr] = t
    BY <1>2 DEF LiveSessionReachable, Live
  <2>1. t # s /\ t \in Live /\ peer[t].repo \in Repo /\ peer[t].addr \in Address
    BY <1>5, LiveParts
  <2>2. /\ byIP[peer[t].repo][peer[t].addr] = t /\ byAddr[peer[t].repo][peer[t].addr] = t
        /\ byIP[r][peer[s].addr] = s
    BY <1>3, <2>1 DEF LiveSessionReachable, Live
  <2>3. ~(peer[t].repo = r /\ peer[t].addr = peer[s].addr)
    BY <2>1, <2>2
  <2>4. byIP \in [Repo -> [Address -> Session \cup {None}]] /\ byAddr \in [Repo -> [Address -> Session \cup {None}]]
    BY DEF LifecycleInv, TypeOK
  <2> QED
    BY <1>1, <2>1, <2>2, <2>3, <2>4
<1> QED
  BY <1>7, <1>8, <1>9, <1>10, <1>11, <1>12

(* Wiping a peer gives the lock back only when none is left to close. *)
LEMMA ZeroizeKeepsSerial ==
  ASSUME SerialInv, LifecycleInv', NEW r \in Repo, ZeroizeOne(r), UNCHANGED <<stage, victim, aclVars>>
  PROVE  SerialInv'
<1> USE DEF SerialInv, aclVars
<1> DEFINE rest == DeletionOf(None, lock[r].todo, lock[r].by)
<1>1. /\ lock[r] # None /\ UNCHANGED <<peer, added, closed, byIP, byAddr, byKey>>
      /\ lock' = [lock EXCEPT ![r] = IF lock[r].todo = {} THEN None ELSE rest]
  BY DEF ZeroizeOne, indexes
<1>2. rest \in Deletion /\ rest.todo = lock[r].todo /\ rest.by = lock[r].by
  BY <1>1, LockParts DEF Deletion, DeletionOf, LifecycleInv
<1> HIDE DEF rest
<1>3. /\ \A q \in Repo : q # r => lock'[q] = lock[q]
      /\ lock'[r] = IF lock[r].todo = {} THEN None ELSE rest
  BY <1>1 DEF LifecycleInv, TypeOK
<1>4. \A q \in Repo, s \in Session : AboutToClose(s, q) => AboutToClose(s, q)' /\ lock'[q].by = lock[q].by
  BY <1>2, <1>3, RepoAssumption DEF AboutToClose
<1>5. TodoIsOpen'
  BY <1>1, <1>2, <1>3 DEF TodoIsOpen
<1>6. RegistersAlone' /\ LiveInKey' /\ LiveSessionReachable'
  BY <1>1 DEF RegistersAlone, Registering, LiveInKey, Live, LiveSessionReachable
<1>7. AddressBecomesFree'
  <2> SUFFICES ASSUME NEW s \in Session, NEW t \in Live, Registering(s), At(t) = At(s)
               PROVE  /\ stage[s] = "evicting" => t = victim[s]
                      /\ stage[s] = "adding" => AboutToClose(t, peer[s].repo)'
    BY <1>1 DEF AddressBecomesFree, Live, At, Registering
  <2>1. t \in Session /\ peer[s].repo \in Repo
    BY LiveParts, RegisteringParts
  <2>2. /\ stage[s] = "evicting" => t = victim[s]
        /\ stage[s] = "adding" => AboutToClose(t, peer[s].repo)
    BY DEF AddressBecomesFree
  <2> QED
    BY <1>1, <1>4, <2>1, <2>2
<1>8. RoundRevokes'
  <2> SUFFICES ASSUME NEW s \in Live, round # None, StillRevoked(s) PROVE StillRevoked(s)'
    BY <1>1 DEF RoundRevokes, Live
  <2> QED
    BY <1>1, <1>4, LiveParts DEF StillRevoked
<1> QED
  BY <1>5, <1>6, <1>7, <1>8

-----------------------------------------------------------------------------
(* Registrations. *)

LEMMA HandshakeKeepsSerial ==
  ASSUME SerialInv, LifecycleInv', Overlap = {},
         NEW s \in Session, NEW c \in Client, NEW r \in Repo, Handshake(s, c, r)
  PROVE  SerialInv'
<1> USE DEF SerialInv, aclVars, indexes
<1> DEFINE p == [repo |-> r, client |-> c, addr |-> allowed[c]]
<1>1. /\ stage[s] = "new" /\ allowed[c] # None
      /\ peer' = [peer EXCEPT ![s] = p]
      /\ stage' = [stage EXCEPT ![s] = "admitted"]
      /\ UNCHANGED <<added, closed, indexes, lock, victim, aclVars>>
      /\ \A t \in Session : Registering(t) => peer[t].repo # r
      /\ round = None /\ seen # None /\ seen = allowed
  BY DEF Handshake, MayBegin
<1>2. p.repo = r /\ p.client = c /\ p.addr = allowed[c]
  OBVIOUS
<1> HIDE DEF p
<1>3. /\ \A t \in Session : t # s => peer'[t] = peer[t] /\ stage'[t] = stage[t]
      /\ peer'[s] = p /\ stage'[s] = "admitted"
  BY <1>1 DEF LifecycleInv, TypeOK
<1>4. \A t \in Live : t \in Session /\ t # s /\ peer'[t] = peer[t]
  BY <1>1, <1>3, LiveParts
<1>5. Live' = Live
  BY <1>1 DEF Live
<1>6. \A t \in Session : Registering(t)' <=> t = s \/ Registering(t)
  BY <1>3 DEF Registering
<1>7. RegistersAlone'
  <2> SUFFICES ASSUME NEW x \in Session, Registering(x)'
               PROVE  /\ allowed[peer'[x].client] = peer'[x].addr
                      /\ \A t \in Session : Registering(t)' /\ peer'[t].repo = peer'[x].repo => t = x
    BY <1>1 DEF RegistersAlone
  <2> QED
    BY <1>1, <1>2, <1>3, <1>6 DEF RegistersAlone
<1>8. AddressBecomesFree'
  <2> SUFFICES ASSUME NEW x \in Session, NEW t \in Live, Registering(x)', At(t)' = At(x)'
               PROVE  /\ stage'[x] = "evicting" => t = victim[x]
                      /\ stage'[x] = "adding" => AboutToClose(t, peer'[x].repo)
    BY <1>1, <1>5 DEF AddressBecomesFree, AboutToClose
  <2>1. CASE x = s
    BY <1>3, <2>1
  <2>2. CASE x # s
    <3>1. Registering(x) /\ At(t) = At(x) /\ stage'[x] = stage[x] /\ peer'[x] = peer[x]
      BY <1>3, <1>4, <1>6, <2>2 DEF At
    <3> QED
      BY <3>1 DEF AddressBecomesFree
  <2> QED
    BY <2>1, <2>2
<1>9. TodoIsOpen' /\ LiveInKey'
  BY <1>1, <1>5 DEF TodoIsOpen, LiveInKey
<1>10. RoundRevokes'
  BY <1>1, <1>4, <1>5 DEF RoundRevokes
<1>11. LiveSessionReachable'
  BY <1>1, <1>4, <1>5 DEF LiveSessionReachable, Live
<1> QED
  BY <1>1, <1>7, <1>8, <1>9, <1>10, <1>11

LEMMA FindKeepsSerial ==
  ASSUME SerialInv, LifecycleInv', NEW s \in Session, FindExisting(s)
  PROVE  SerialInv'
<1> USE DEF SerialInv, aclVars, indexes, repoVars
<1> DEFINE found == byIP[peer[s].repo][peer[s].addr]
           next == IF found = None THEN "adding" ELSE "evicting"
<1>1. /\ stage[s] = "admitted"
      /\ victim' = [victim EXCEPT ![s] = found]
      /\ stage' = [stage EXCEPT ![s] = next]
      /\ UNCHANGED <<repoVars, aclVars>>
  BY DEF FindExisting, Existing
<1>2. /\ \A t \in Session : t # s => victim'[t] = victim[t] /\ stage'[t] = stage[t]
      /\ victim'[s] = found /\ stage'[s] = next
  BY <1>1 DEF LifecycleInv, TypeOK
<1>3. \A t \in Session : Registering(t)' <=> Registering(t)
  BY <1>1, <1>2 DEF Registering
<1>4. AddressBecomesFree'
  <2> SUFFICES ASSUME NEW x \in Session, NEW t \in Live, Registering(x), At(t) = At(x)
               PROVE  /\ stage'[x] = "evicting" => t = victim'[x]
                      /\ stage'[x] = "adding" => AboutToClose(t, peer[x].repo)
    BY <1>1, <1>3 DEF AddressBecomesFree, Live, At, AboutToClose
  <2>1. CASE x = s
    <3>1. found = t /\ t \in Session
      BY <2>1, LiveParts DEF At, LiveSessionReachable, Live
    <3>2. found # None
      BY <3>1, RepoAssumption
    <3> QED
      BY <1>2, <2>1, <3>1, <3>2
  <2>2. CASE x # s
    BY <1>2, <2>2 DEF AddressBecomesFree
  <2> QED
    BY <2>1, <2>2
<1>5. RegistersAlone'
  BY <1>1, <1>3 DEF RegistersAlone
<1>6. TodoIsOpen' /\ LiveInKey' /\ RoundRevokes' /\ LiveSessionReachable'
  BY <1>1 DEF TodoIsOpen, LiveInKey, RoundRevokes, StillRevoked, AboutToClose, LiveSessionReachable, Live
<1> QED
  BY <1>1, <1>4, <1>5, <1>6

LEMMA EvictKeepsSerial ==
  ASSUME SerialInv, LifecycleInv', NEW s \in Session, EvictExisting(s)
  PROVE  SerialInv'
<1> USE DEF SerialInv, aclVars, indexes
<1>1. /\ stage[s] = "evicting" /\ StartDelete(peer[s].repo, {victim[s]}, "session")
      /\ stage' = [stage EXCEPT ![s] = "adding"]
      /\ UNCHANGED <<peer, added, closed, indexes, victim, aclVars>>
  BY DEF EvictExisting
<1>2. peer[s].repo \in Repo
  BY <1>1, RegisteringParts DEF Registering
<1>3. {victim[s]} \in SUBSET Session
  BY <1>1 DEF LifecycleInv, RegistrationsOrdered, Belongs, TypeOK
<1>4. \A t \in Session : stage'[t] = stage[t] \/ (t = s /\ stage'[t] = "adding")
  BY <1>1 DEF LifecycleInv, TypeOK
<1> QED
  BY <1>1, <1>2, <1>3, <1>4, DeletionKeeps

LEMMA AddKeepsSerial ==
  ASSUME SerialInv, LifecycleInv', NEW s \in Session, AddSession(s)
  PROVE  SerialInv'
<1> USE DEF SerialInv, aclVars, indexes
<1> DEFINE r == peer[s].repo
           a == peer[s].addr
<1>1. /\ stage[s] = "adding" /\ Registering(s) /\ lock[r] = None
      /\ added' = added \cup {s} /\ byKey' = byKey \cup {s}
      /\ byIP' = [byIP EXCEPT ![r][a] = s] /\ byAddr' = [byAddr EXCEPT ![r][a] = s]
      /\ stage' = [stage EXCEPT ![s] = "done"]
      /\ UNCHANGED <<peer, closed, lock, victim, aclVars>>
  BY DEF AddSession, Add, Registering
<1>2. s \notin added /\ r \in Repo /\ a \in Address
  BY <1>1, RegisteringParts
<1>3. \A t \in Live : At(t) # At(s)
  BY <1>1 DEF AddressBecomesFree, AboutToClose
<1>4. \A t : t \in Live' => t \in Live \/ t = s
  BY <1>1 DEF Live
<1>5. \A t \in Session : stage'[t] = IF t = s THEN "done" ELSE stage[t]
  BY <1>1 DEF LifecycleInv, TypeOK
<1>6. \A t \in Session : Registering(t)' <=> Registering(t) /\ t # s
  BY <1>5 DEF Registering
<1>7. round = None /\ seen # None /\ seen[peer[s].client] = peer[s].addr
      /\ \A t \in Session : Registering(t) /\ peer[t].repo = r => t = s
  BY <1>1 DEF RegistersAlone
<1> HIDE DEF r, a
<1>8. RegistersAlone'
  BY <1>1, <1>6 DEF RegistersAlone
<1>9. TodoIsOpen' /\ LiveInKey'
  BY <1>1, <1>4 DEF TodoIsOpen, LiveInKey
<1>10. AddressBecomesFree'
  <2> SUFFICES ASSUME NEW x \in Session, NEW t \in Live', Registering(x), x # s, At(t) = At(x)
               PROVE  /\ stage[x] = "evicting" => t = victim[x]
                      /\ stage[x] = "adding" => AboutToClose(t, peer[x].repo)
    BY <1>1, <1>5, <1>6 DEF AddressBecomesFree, At, AboutToClose
  <2>1. t # s
    BY <1>7 DEF At, r
  <2> QED
    BY <1>4, <2>1 DEF AddressBecomesFree
<1>11. RoundRevokes'
  BY <1>1, <1>4, <1>7 DEF RoundRevokes
<1>12. LiveSessionReachable'
  <2> SUFFICES ASSUME NEW t \in Live'
               PROVE  /\ byIP'[peer[t].repo][peer[t].addr] = t
                      /\ byAddr'[peer[t].repo][peer[t].addr] = t
    BY <1>1 DEF LiveSessionReachable, Live
  <2>1. /\ byIP \in [Repo -> [Address -> Session \cup {None}]]
        /\ byAddr \in [Repo -> [Address -> Session \cup {None}]]
    BY DEF LifecycleInv, TypeOK
  <2>2. CASE t = s
    BY <1>1, <1>2, <2>1, <2>2 DEF r, a
  <2>3. CASE t # s
    <3>1. t \in Live /\ peer[t].repo \in Repo /\ peer[t].addr \in Address
      BY <1>4, <2>3, LiveParts
    <3>2. /\ byIP[peer[t].repo][peer[t].addr] = t /\ byAddr[peer[t].repo][peer[t].addr] = t
          /\ ~(peer[t].repo = r /\ peer[t].addr = a)
      BY <1>3, <3>1 DEF LiveSessionReachable, Live, At, r, a
    <3> QED
      BY <1>1, <1>2, <2>1, <3>1, <3>2
  <2> QED
    BY <2>2, <2>3
<1> QED
  BY <1>1, <1>7, <1>8, <1>9, <1>10, <1>11, <1>12

-----------------------------------------------------------------------------
(* The watcher. *)

LEMMA WatchStartsKeepsSerial ==
  ASSUME SerialInv, LifecycleInv', WatchStarts PROVE SerialInv'
<1> USE DEF SerialInv, repoVars, indexes
<1>1. /\ seen = None /\ round = None
      /\ UNCHANGED <<peer, added, closed, byIP, byAddr, byKey, lock, stage, victim, allowed, round>>
  BY DEF WatchStarts
<1>2. Live = {} /\ \A s \in Session : ~Registering(s)
  BY <1>1 DEF RoundRevokes, RegistersAlone
<1>3. Live' = {} /\ \A s \in Session : ~Registering(s)'
  BY <1>1, <1>2 DEF Live, Registering
<1>4. RegistersAlone' /\ AddressBecomesFree' /\ RoundRevokes' /\ LiveInKey' /\ LiveSessionReachable'
  BY <1>3 DEF RegistersAlone, AddressBecomesFree, RoundRevokes, LiveInKey, LiveSessionReachable, Live
<1> QED
  BY <1>1, <1>4 DEF TodoIsOpen

LEMMA RoundStartsKeepsSerial ==
  ASSUME SerialInv, LifecycleInv', Overlap = {}, RoundStarts PROVE SerialInv'
<1> USE DEF SerialInv, repoVars, indexes
<1>1. /\ seen # None /\ \A s \in Session : ~Registering(s)
      /\ round' = [conf |-> config, revoke |-> LostAccess(seen, config) \X Repo]
      /\ UNCHANGED <<peer, added, closed, byIP, byAddr, byKey, lock, stage, victim, allowed, seen>>
  BY DEF RoundStarts
<1>2. \A s \in Session : ~Registering(s)'
  BY <1>1 DEF Registering
<1>3. RegistersAlone' /\ AddressBecomesFree'
  BY <1>2 DEF RegistersAlone, AddressBecomesFree
<1>4. TodoIsOpen' /\ LiveInKey' /\ LiveSessionReachable'
  BY <1>1 DEF TodoIsOpen, LiveInKey, LiveSessionReachable, Live
<1>5. RoundRevokes'
  <2> SUFFICES ASSUME NEW s \in Live
               PROVE  config[peer[s].client] = peer[s].addr
                      \/ <<peer[s].client, peer[s].repo>> \in LostAccess(seen, config) \X Repo
    BY <1>1 DEF RoundRevokes, StillRevoked, Live
  <2>1. /\ peer[s].client \in Client /\ peer[s].repo \in Repo /\ peer[s].addr \in Address
        /\ seen[peer[s].client] = peer[s].addr
    BY LiveParts DEF RoundRevokes
  <2> QED
    BY <2>1, ServerAssumption DEF LostAccess
<1> QED
  BY <1>1, <1>3, <1>4, <1>5

LEMMA RevokeKeepsSerial ==
  ASSUME SerialInv, LifecycleInv', NEW c \in Client, NEW r \in Repo, Revoke(c, r) PROVE SerialInv'
<1> USE DEF SerialInv, indexes
<1> DEFINE S == {s \in byKey : peer[s].client = c /\ peer[s].repo = r}
<1>1. /\ round # None /\ seen # None
      /\ StartDelete(r, S, "watcher")
      /\ round' = [round EXCEPT !.revoke = @ \ {<<c, r>>}]
      /\ UNCHANGED <<peer, added, closed, byIP, byAddr, byKey, stage, victim, allowed, seen>>
  BY DEF Revoke
<1>2. S \in SUBSET Session /\ \A s \in Live : peer[s].client = c /\ peer[s].repo = r => s \in S
  BY DEF LifecycleInv, TypeOK, LiveInKey
<1> HIDE DEF S
<1>3. \A s \in Session : ~Registering(s)
  BY <1>1 DEF RegistersAlone
<1>4. RegistersAlone' /\ AddressBecomesFree'
  BY <1>1, <1>3 DEF RegistersAlone, AddressBecomesFree, Registering
<1>5. TodoIsOpen'
  BY <1>1, <1>2, DeletionBegun DEF TodoIsOpen
<1>6. LiveInKey' /\ LiveSessionReachable'
  BY <1>1 DEF LiveInKey, LiveSessionReachable, Live
<1>7. RoundRevokes'
  <2> SUFFICES ASSUME NEW s \in Live
               PROVE  round'.conf[peer[s].client] = peer[s].addr \/ StillRevoked(s)'
    BY <1>1 DEF RoundRevokes, Live
  <2>1. /\ s \in Session /\ peer[s].repo \in Repo /\ s \notin closed
        /\ round.conf[peer[s].client] = peer[s].addr \/ StillRevoked(s)
    BY <1>1, LiveParts DEF RoundRevokes
  <2>2. round'.conf = round.conf /\ round'.revoke = round.revoke \ {<<c, r>>}
    BY <1>1 DEF LifecycleInv, TypeOK, Round
  <2>3. CASE AboutToClose(s, peer[s].repo) /\ lock[peer[s].repo].by = "watcher"
    BY <1>1, <1>2, <2>1, <2>3, DeletionBegun DEF StillRevoked
  <2>4. CASE peer[s].client = c /\ peer[s].repo = r
    BY <1>1, <1>2, <2>1, <2>4, DeletionBegun DEF StillRevoked
  <2>5. CASE ~(peer[s].client = c /\ peer[s].repo = r)
    BY <1>1, <2>1, <2>2, <2>3, <2>5 DEF StillRevoked
  <2> QED
    BY <2>4, <2>5
<1> QED
  BY <1>1, <1>4, <1>5, <1>6, <1>7

LEMMA RoundEndsKeepsSerial ==
  ASSUME SerialInv, LifecycleInv', RoundEnds PROVE SerialInv'
<1> USE DEF SerialInv, repoVars, indexes
<1>1. /\ round # None /\ round.revoke = {} /\ ~WatcherWaits
      /\ allowed' = round.conf /\ seen' = round.conf /\ round' = None
      /\ UNCHANGED <<peer, added, closed, byIP, byAddr, byKey, lock, stage, victim>>
  BY DEF RoundEnds
<1>2. seen' # None
  BY <1>1, ServerAssumption DEF LifecycleInv, TypeOK, Round
<1>3. \A s \in Session : ~Registering(s)
  BY <1>1 DEF RegistersAlone
<1>4. RegistersAlone' /\ AddressBecomesFree'
  BY <1>1, <1>3 DEF RegistersAlone, AddressBecomesFree, Registering
<1>5. TodoIsOpen' /\ LiveInKey' /\ LiveSessionReachable'
  BY <1>1 DEF TodoIsOpen, LiveInKey, LiveSessionReachable, Live
<1>6. RoundRevokes'
  <2> SUFFICES ASSUME NEW s \in Live PROVE round.conf[peer[s].client] = peer[s].addr
    BY <1>1, <1>2 DEF RoundRevokes, Live
  <2>1. peer[s].repo \in Repo /\ (round.conf[peer[s].client] = peer[s].addr \/ StillRevoked(s))
    BY <1>1, LiveParts DEF RoundRevokes
  <2>2. ~StillRevoked(s)
    BY <1>1, <2>1 DEF StillRevoked, AboutToClose, WatcherWaits
  <2> QED
    BY <2>1, <2>2
<1> QED
  BY <1>1, <1>4, <1>5, <1>6

-----------------------------------------------------------------------------
LEMMA PacketKeepsSerial ==
  ASSUME SerialInv, LifecycleInv', UNCHANGED <<stage, victim, aclVars>>,
         \/ \E s \in Session : \/ Receive(s) \/ RecvUse(s) \/ RecvDone(s)
                               \/ RecvHandle(s) \/ RecvRekey(s)
         \/ \E r \in Repo : TunFind(r) \/ TunUse(r) \/ TunDone(r)
  PROVE  SerialInv'
<1>1. UNCHANGED <<peer, added, closed, byIP, byAddr, byKey, lock>>
  BY DEF Receive, RecvUse, RecvDone, RecvHandle, RecvRekey, TunFind, TunUse, TunDone, indexes
<1> QED
  BY <1>1, QuietKeeps DEF aclVars

LEMMA ThreadDeletesSerial ==
  ASSUME SerialInv, LifecycleInv', UNCHANGED <<stage, victim, aclVars>>,
         \/ \E s \in Session : ServeEnds(s)
         \/ \E r \in Repo : ReapIdle(r) \/ TunDrop(r)
  PROVE  SerialInv'
<1>1. UNCHANGED <<peer, added, closed, byIP, byAddr, byKey>>
  BY DEF ServeEnds, ReapIdle, TunDrop, indexes
<1>2. PICK r \in Repo, S \in SUBSET Session, by \in {"session", "tun", "reaper", "watcher"} :
        StartDelete(r, S, by)
  <2>1. ASSUME NEW s \in Session, ServeEnds(s)
        PROVE  peer[s].repo \in Repo /\ {s} \in SUBSET Session
               /\ StartDelete(peer[s].repo, {s}, "session")
    BY <2>1 DEF ServeEnds, SerialInv, LifecycleInv, RegistrationsOrdered, Peer
  <2>2. ASSUME NEW r \in Repo, ReapIdle(r)
        PROVE  \E S \in SUBSET Session : StartDelete(r, S, "reaper")
    <3>1. PICK idle \in SUBSET ({byIP[r][a] : a \in Address} \ {None}) : StartDelete(r, idle, "reaper")
      BY <2>2 DEF ReapIdle
    <3>2. idle \in SUBSET Session
      BY <3>1 DEF SerialInv, LifecycleInv, TypeOK
    <3> QED
      BY <3>1, <3>2
  <2>3. ASSUME NEW r \in Repo, TunDrop(r)
        PROVE  {tun[r].peer} \in SUBSET Session /\ StartDelete(r, {tun[r].peer}, "tun")
    BY <2>3 DEF TunDrop, SerialInv, LifecycleInv, HeldBelong, Belongs, TypeOK
  <2> QED
    BY <2>1, <2>2, <2>3
<1> QED
  BY <1>1, <1>2, DeletionKeeps DEF aclVars

LEMMA SerialStep == Overlap = {} /\ SerialInv /\ [Next]_vars => SerialInv'
<1> SUFFICES ASSUME Overlap = {}, SerialInv, [Next]_vars PROVE SerialInv'
  OBVIOUS
<1>0. LifecycleInv'
  BY LifecycleStep DEF SerialInv
<1>1. CASE RepoNext /\ UNCHANGED <<stage, victim, aclVars>>
  BY <1>0, <1>1, CloseKeepsSerial, ZeroizeKeepsSerial, PacketKeepsSerial, ThreadDeletesSerial DEF RepoNext
<1>2. CASE \E s \in Session : \/ FindExisting(s) \/ EvictExisting(s) \/ AddSession(s)
                              \/ \E c \in Client, r \in Repo : Handshake(s, c, r)
  BY <1>0, <1>2, FindKeepsSerial, EvictKeepsSerial, AddKeepsSerial, HandshakeKeepsSerial
<1>3. CASE \E c \in Client, a \in Address \cup {None} : EditConfig(c, a)
  BY <1>0, <1>3, QuietKeeps DEF EditConfig, repoVars, indexes
<1>4. CASE \E c \in Client, r \in Repo : Revoke(c, r)
  BY <1>0, <1>4, RevokeKeepsSerial
<1>5. CASE WatchStarts \/ RoundStarts \/ RoundEnds
  BY <1>0, <1>5, WatchStartsKeepsSerial, RoundStartsKeepsSerial, RoundEndsKeepsSerial
<1>6. CASE UNCHANGED vars
  BY <1>0, <1>6, QuietKeeps DEF vars, repoVars, indexes, aclVars
<1> QED
  BY <1>1, <1>2, <1>3, <1>4, <1>5, <1>6 DEF Next

(* When registrations and rounds of the watcher come one after another,    *)
(* every open session is the one its addresses lead to, and between rounds *)
(* its client has the access it was admitted with.                         *)
THEOREM SessionsSoundHolds ==
  ASSUME Overlap = {}
  PROVE  Spec => []SessionsSound
<1>1. Init => SerialInv
  BY InitSerial
<1>2. SerialInv /\ [Next]_vars => SerialInv'
  BY SerialStep
<1>3. SerialInv => SessionsSound
  BY DEF SerialInv, SessionsSound, SessionsHaveAccess, RoundRevokes, Live
<1> QED
  BY <1>1, <1>2, <1>3, PTL DEF Spec

(* One after another, the repositories implement the table of sessions: a  *)
(* registration enters the session where none is, and a deletion removes   *)
(* the one that is there.                                                  *)
THEOREM ImplementsTableHolds ==
  ASSUME Overlap = {}
  PROVE  Spec => ImplementsTable
<1>1. Init => SerialInv
  BY InitSerial
<1>2. SerialInv /\ [Next]_vars => SerialInv'
  BY SerialStep
<1>3. Init => Table!TableInit
  BY DEF Init, RepoInit, Table!TableInit
<1>4. SerialInv /\ [Next]_vars => [Table!TableNext]_Table!tableVars
  <2> SUFFICES ASSUME SerialInv, [Next]_vars
               PROVE  Table!TableNext \/ UNCHANGED <<byIP, Live, added>>
    BY DEF Table!tableVars, Live
  <2> USE DEF SerialInv
  <2>1. CASE UNCHANGED <<byIP, added, closed>>
    BY <2>1 DEF Live
  <2>2. ASSUME NEW s \in Session, AddSession(s) PROVE Table!TableNext
    <3> DEFINE r == peer[s].repo
               a == peer[s].addr
    <3>1. /\ stage[s] = "adding" /\ Registering(s) /\ lock[r] = None
          /\ added' = added \cup {s} /\ closed' = closed
          /\ byIP' = [byIP EXCEPT ![r][a] = s]
      BY <2>2 DEF AddSession, Add, Registering
    <3>2. s \notin added /\ r \in Repo /\ a \in Address /\ s \notin closed
      BY <3>1, RegisteringParts DEF LifecycleInv, TypeOK
    <3>3. byIP[r][a] = None
      <4> SUFFICES ASSUME byIP[r][a] # None PROVE FALSE
        OBVIOUS
      <4>1. Belongs(byIP[r][a], r) /\ peer[byIP[r][a]].addr = a
        BY <3>2 DEF LifecycleInv, IndexesBelong
      <4>2. byIP[r][a] \notin closed
        BY <3>2 DEF LifecycleInv, ClosedIsUnreachable
      <4>3. byIP[r][a] \in Live /\ At(byIP[r][a]) = At(s)
        BY <4>1, <4>2 DEF Belongs, Live, At
      <4> QED
        BY <3>1, <4>3 DEF AddressBecomesFree, AboutToClose
    <3>4. Table!Enter(r, a, s)
      BY <3>1, <3>2, <3>3 DEF Table!Enter
    <3> QED
      BY <3>2, <3>4 DEF Table!TableNext
  <2>3. ASSUME NEW r \in Repo, CloseOne(r) PROVE Table!TableNext
    <3>1. PICK s \in lock[r].todo :
            /\ closed' = closed \cup {s}
            /\ byIP' = [byIP EXCEPT ![r][peer[s].addr] = None]
      BY <2>3 DEF CloseOne
    <3>2. lock[r] # None /\ added' = added
      BY <2>3 DEF CloseOne
    <3>3. s \in Live /\ peer[s].repo = r
      BY <3>1, <3>2 DEF LifecycleInv, HeldBelong, Belongs, TodoIsOpen, Live
    <3>4. peer[s].addr \in Address /\ byIP[r][peer[s].addr] = s /\ s # None
      BY <3>3, LiveParts, RepoAssumption DEF LiveSessionReachable, Live
    <3>5. Table!Leave(r, peer[s].addr)
      BY <3>1, <3>2, <3>4 DEF Table!Leave
    <3> QED
      BY <3>4, <3>5 DEF Table!TableNext
  <2>4. CASE RepoNext
    <3>1. UNCHANGED <<byIP, added, closed>> \/ \E r \in Repo : CloseOne(r)
      BY <2>4 DEF RepoNext, ZeroizeOne, ReapIdle, TunFind, TunUse, TunDone, TunDrop, Receive, RecvUse, RecvDone,
                  RecvHandle, RecvRekey, ServeEnds, indexes
    <3> QED
      BY <2>1, <2>3, <3>1
  <2>5. CASE ~RepoNext
    <3>1. UNCHANGED <<byIP, added, closed>> \/ \E s \in Session : AddSession(s)
      BY <2>5 DEF Next, vars, repoVars, indexes, FindExisting, EvictExisting, Handshake, EditConfig, Revoke,
                  WatchStarts, RoundStarts, RoundEnds
    <3> QED
      BY <2>1, <2>2, <3>1
  <2> QED
    BY <2>4, <2>5
<1> QED
  BY <1>1, <1>2, <1>3, <1>4, PTL DEF Spec, ImplementsTable, Table!TableSpec

-----------------------------------------------------------------------------
(* The replay window of a session. *)

(* What one step hands to the next: the window is the history of what was  *)
(* accepted, only what was sent is accepted, and the sender's counter is   *)
(* not behind anything it has sent.                                        *)
WindowTypes ==
  /\ counter \in Nonce /\ sent \subseteq Nonce /\ accepted \subseteq sent
  /\ max \in [High -> Low]
  /\ held \in [High -> SUBSET (0 .. Size - 1)]

NotBehind(n) == n.high < counter.high \/ (n.high = counter.high /\ n.low <= counter.low)

WindowInv ==
  /\ WindowTypes
  /\ \A n \in sent : NotBehind(n)
  /\ WindowIsHistory

(* The counter counts on while it is not exhausted. *)
LEMMA CountsOn ==
  ASSUME WindowBounds, counter \in Nonce, ~Exhausted(counter)
  PROVE  /\ Incremented(counter) \in Nonce
         /\ \/ /\ Incremented(counter).high = counter.high
               /\ Incremented(counter).low = counter.low + 1
            \/ Incremented(counter).high = counter.high + 1
  BY DEF WindowBounds, Nonce, Low, High, Exhausted, Incremented

LEMMA WindowInitially ==
  ASSUME WindowBounds, ReplayInit
  PROVE  WindowInv
  BY DEF WindowBounds, ReplayInit, WindowInv, WindowTypes, WindowIsHistory, Nonce, Low, High

LEMMA EncryptKeeps ==
  ASSUME WindowBounds, WindowInv, Encrypt
  PROVE  WindowInv'
<1>1. counter \in Nonce /\ ~Exhausted(counter) /\ counter' = Incremented(counter)
  BY DEF WindowInv, WindowTypes, Encrypt
<1>2. WindowTypes'
  BY <1>1, CountsOn DEF WindowInv, WindowTypes, Encrypt
<1>3. \A n \in sent' : NotBehind(n)'
  <2> SUFFICES ASSUME NEW n \in sent'
               PROVE  NotBehind(n)'
    OBVIOUS
  <2>1. CASE n = counter'
    BY <1>1, <2>1, CountsOn DEF NotBehind, Nonce, Low, High, WindowBounds
  <2>2. CASE n \in sent
    <3>1. NotBehind(n)
      BY <2>2 DEF WindowInv
    <3>2. /\ n.high \in Nat /\ n.low \in Nat
          /\ counter.high \in Nat /\ counter.low \in Nat
      BY <1>1, <2>2 DEF WindowInv, WindowTypes, Nonce, Low, High, WindowBounds
    <3>3. \/ counter'.high = counter.high /\ counter'.low = counter.low + 1
          \/ counter'.high = counter.high + 1
      BY <1>1, CountsOn
    <3> QED
      BY <3>1, <3>2, <3>3 DEF NotBehind
  <2> QED
    BY <1>1, <2>1, <2>2 DEF Encrypt
<1>4. WindowIsHistory'
  BY DEF WindowInv, WindowIsHistory, Encrypt
<1> QED
  BY <1>2, <1>3, <1>4 DEF WindowInv

(* A nonce beyond the newest shifts the window up to itself. *)
LEMMA NewestKeeps ==
  ASSUME WindowBounds, WindowInv, NEW n \in Nonce, Decrypt(n), n.low > max[n.high]
  PROVE  WindowInv'
<1> DEFINE h == n.high
           steps == n.low - max[h]
<1>1. /\ n \in sent /\ h \in High /\ n.low \in Low /\ max[h] \in Low /\ steps \in Nat \ {0}
      /\ Size \in Nat \ {0}
  BY DEF WindowInv, WindowTypes, WindowBounds, Decrypt, Nonce, Low, High
<1>2. /\ held' = [held EXCEPT ![h] = Shifted(@, steps) \cup {0}]
      /\ max' = [max EXCEPT ![h] = n.low]
      /\ accepted' = accepted \cup {n}
      /\ counter' = counter /\ sent' = sent
  BY DEF Decrypt
<1>3. /\ max'[h] = n.low /\ held'[h] = Shifted(held[h], steps) \cup {0}
      /\ \A g \in High \ {h} : max'[g] = max[g] /\ held'[g] = held[g]
  BY <1>1, <1>2 DEF WindowInv, WindowTypes
<1>4. Shifted(held[h], steps) \cup {0} \subseteq 0 .. Size - 1
  BY <1>1 DEF Shifted
<1>5. WindowTypes'
  BY <1>1, <1>2, <1>4 DEF WindowInv, WindowTypes
<1>6. \A m \in sent' : NotBehind(m)'
  BY <1>2 DEF WindowInv, NotBehind
<1>7. \A m \in accepted : m \in Nonce /\ m.low \in Low /\ m.high \in High /\ max[m.high] \in Low
  BY DEF WindowInv, WindowTypes, Nonce
<1>8. \A m \in accepted' : m.low <= max'[m.high]
  BY <1>1, <1>2, <1>3, <1>7 DEF WindowInv, WindowIsHistory, Low, WindowBounds
<1>9. \A m \in accepted' : max'[m.high] - m.low < Size => max'[m.high] - m.low \in held'[m.high]
  <2> SUFFICES ASSUME NEW m \in accepted', max'[m.high] - m.low < Size
               PROVE  max'[m.high] - m.low \in held'[m.high]
    OBVIOUS
  <2>1. CASE m = n
    BY <1>1, <1>3, <2>1 DEF Low, WindowBounds
  <2>2. CASE m \in accepted /\ m.high # h
    BY <1>3, <1>7, <2>2 DEF WindowInv, WindowIsHistory
  <2>3. CASE m \in accepted /\ m.high = h
    <3> DEFINE d == n.low - m.low
    <3>1. m.low <= max[h] /\ m.low \in Nat /\ n.low \in Nat /\ max[h] \in Nat
      BY <1>1, <1>7, <2>3 DEF WindowInv, WindowIsHistory, Low, WindowBounds
    <3>2. d \in 0 .. Size - 1 /\ d - steps = max[h] - m.low /\ max[h] - m.low < Size
      BY <1>1, <1>3, <2>3, <3>1
    <3>3. d - steps \in held[h]
      BY <2>3, <3>2 DEF WindowInv, WindowIsHistory
    <3> QED
      BY <1>3, <2>3, <3>2, <3>3 DEF Shifted
  <2> QED
    BY <1>2, <2>1, <2>2, <2>3
<1>10. \A g \in High : \A d \in held'[g] : [low |-> max'[g] - d, high |-> g] \in accepted'
  <2> SUFFICES ASSUME NEW g \in High, NEW d \in held'[g]
               PROVE  [low |-> max'[g] - d, high |-> g] \in accepted'
    OBVIOUS
  <2>1. CASE g # h
    BY <1>2, <1>3, <2>1 DEF WindowInv, WindowIsHistory
  <2>2. CASE g = h /\ d = 0
    <3>1. [low |-> n.low - 0, high |-> h] = n
      BY <1>1 DEF Nonce, Low, WindowBounds
    <3> QED
      BY <1>2, <1>3, <2>2, <3>1
  <2>3. CASE g = h /\ d # 0
    <3>1. d - steps \in held[h] /\ d \in Nat
      BY <1>3, <2>3 DEF Shifted
    <3>2. [low |-> max[h] - (d - steps), high |-> h] \in accepted
      BY <1>1, <3>1 DEF WindowInv, WindowIsHistory
    <3>3. max[h] - (d - steps) = n.low - d
      BY <1>1, <3>1 DEF Low, WindowBounds
    <3> QED
      BY <1>2, <1>3, <2>3, <3>2, <3>3
  <2> QED
    BY <2>1, <2>2, <2>3
<1> QED
  BY <1>5, <1>6, <1>8, <1>9, <1>10 DEF WindowInv, WindowIsHistory

(* A nonce within the window is marked where it is. *)
LEMMA LateKeeps ==
  ASSUME WindowBounds, WindowInv, NEW n \in Nonce, Decrypt(n), ~(n.low > max[n.high])
  PROVE  WindowInv'
<1> DEFINE h == n.high
           d0 == max[h] - n.low
<1>1. /\ n \in sent /\ h \in High /\ n.low \in Nat /\ max[h] \in Nat /\ d0 \in 0 .. Size - 1
      /\ Size \in Nat \ {0}
  BY DEF WindowInv, WindowTypes, WindowBounds, Decrypt, Acceptable, Nonce, Low, High
<1>2. /\ held' = [held EXCEPT ![h] = @ \cup {d0}]
      /\ max' = max
      /\ accepted' = accepted \cup {n}
      /\ counter' = counter /\ sent' = sent
  BY DEF Decrypt
<1>3. /\ held'[h] = held[h] \cup {d0}
      /\ \A g \in High \ {h} : held'[g] = held[g]
  BY <1>1, <1>2 DEF WindowInv, WindowTypes
<1>4. WindowTypes'
  BY <1>1, <1>2 DEF WindowInv, WindowTypes
<1>5. \A m \in sent' : NotBehind(m)'
  BY <1>2 DEF WindowInv, NotBehind
<1>6. \A m \in accepted : m.high \in High
  BY DEF WindowInv, WindowTypes, Nonce
<1>7. \A m \in accepted' : m.low <= max'[m.high]
  BY <1>1, <1>2 DEF WindowInv, WindowIsHistory
<1>8. \A m \in accepted' : max'[m.high] - m.low < Size => max'[m.high] - m.low \in held'[m.high]
  BY <1>1, <1>2, <1>3, <1>6 DEF WindowInv, WindowIsHistory
<1>9. [low |-> max[h] - d0, high |-> h] = n
  BY <1>1 DEF Nonce
<1>10. \A g \in High : \A d \in held'[g] : [low |-> max'[g] - d, high |-> g] \in accepted'
  BY <1>2, <1>3, <1>9 DEF WindowInv, WindowIsHistory
<1> QED
  BY <1>4, <1>5, <1>7, <1>8, <1>10 DEF WindowInv, WindowIsHistory

LEMMA WindowStep ==
  ASSUME WindowBounds, WindowInv, [ReplayNext]_replayVars
  PROVE  WindowInv'
<1>1. CASE Encrypt
  BY <1>1, EncryptKeeps
<1>2. CASE \E n \in Nonce : Decrypt(n)
  BY <1>2, NewestKeeps, LateKeeps
<1>3. CASE UNCHANGED replayVars
  BY <1>3 DEF replayVars, WindowInv, WindowTypes, NotBehind, WindowIsHistory
<1> QED
  BY <1>1, <1>2, <1>3 DEF ReplayNext

LEMMA WindowHolds ==
  ASSUME WindowBounds
  PROVE  ReplaySpec => []WindowInv
<1>1. ReplayInit => WindowInv
  BY WindowInitially
<1>2. WindowInv /\ [ReplayNext]_replayVars => WindowInv'
  BY WindowStep
<1> QED
  BY <1>1, <1>2, PTL DEF ReplaySpec

(* What the window holds is what was accepted of the last Size nonces of a *)
(* high half (SlidingWindow.Accept).                                       *)
THEOREM WindowIsHistoryHolds ==
  ASSUME WindowBounds
  PROVE  ReplaySpec => []WindowIsHistory
<1>1. WindowInv => WindowIsHistory
  BY DEF WindowInv
<1> QED
  BY <1>1, WindowHolds, PTL

(* No datagram is accepted twice, however often the network delivers it,   *)
(* and no datagram is refused that is new and within the window            *)
(* (SlidingWindow.Check).                                                  *)
THEOREM AcceptsOnceHolds ==
  ASSUME WindowBounds
  PROVE  ReplaySpec => []AcceptsOnce
<1>1. ASSUME WindowInv
      PROVE  AcceptsOnce
  <2>1. \A n \in accepted : ~Acceptable(n)
    BY <1>1 DEF WindowInv, WindowTypes, WindowIsHistory, Acceptable, Nonce, Low, High, WindowBounds
  <2>2. ASSUME NEW n \in sent \ accepted, max[n.high] - n.low < Size, ~(n.low > max[n.high])
        PROVE  max[n.high] - n.low \notin held[n.high]
    <3>1. n \in Nonce /\ n.high \in High /\ n.low \in Nat /\ max[n.high] \in Nat
      BY <1>1, <2>2 DEF WindowInv, WindowTypes, Nonce, Low, High, WindowBounds
    <3>2. [low |-> max[n.high] - (max[n.high] - n.low), high |-> n.high] = n
      BY <3>1 DEF Nonce
    <3> QED
      BY <1>1, <2>2, <3>1, <3>2 DEF WindowInv, WindowIsHistory
  <2> QED
    BY <2>1, <2>2 DEF AcceptsOnce, Acceptable
<1> QED
  BY <1>1, WindowHolds, PTL

(* A nonce is used for one datagram only, also where the low half of the   *)
(* counter wraps around (Nonce.incrementNonce).                            *)
THEOREM NonceFreshHolds ==
  ASSUME WindowBounds
  PROVE  ReplaySpec => []NonceFresh
<1>1. ASSUME WindowInv, ~Exhausted(counter)
      PROVE  Incremented(counter) \notin sent
  <2>1. counter \in Nonce /\ sent \subseteq Nonce
    BY <1>1 DEF WindowInv, WindowTypes
  <2> QED
    BY <1>1, <2>1, CountsOn DEF WindowInv, NotBehind, Nonce, Low, High, WindowBounds
<1>2. WindowInv => NonceFresh
  BY <1>1 DEF NonceFresh
<1> QED
  BY <1>2, WindowHolds, PTL

-----------------------------------------------------------------------------
(* The window as it is built: words, bits and a list of windows.           *)

LEMMA ProductGrows ==
  ASSUME NEW W \in Nat \ {0}, NEW q \in Int, NEW p \in Int, q < p
  PROVE  q * W + W <= p * W
  OBVIOUS

LEMMA Divides ==
  ASSUME NEW W \in Nat \ {0}, NEW d \in Int
  PROVE  /\ d \div W \in Int /\ d % W \in 0 .. W - 1
         /\ d = (d \div W) * W + (d % W)
  OBVIOUS

LEMMA DividesOnce ==
  ASSUME NEW W \in Nat \ {0}, NEW q \in Int, NEW p \in Int, NEW r \in 0 .. W - 1, NEW s \in 0 .. W - 1,
         q * W + r = p * W + s
  PROVE  q = p /\ r = s
<1>1. ~(q < p)
  <2> SUFFICES ASSUME q < p PROVE FALSE
    OBVIOUS
  <2> QED
    BY ProductGrows
<1>2. ~(p < q)
  <2> SUFFICES ASSUME p < q PROVE FALSE
    OBVIOUS
  <2> QED
    BY ProductGrows
<1> QED
  BY <1>1, <1>2

(* The word and the bit of a distance. *)
LEMMA QuotientAndRest ==
  ASSUME NEW W \in Nat \ {0}, NEW d \in Int, NEW q \in Int, NEW r \in 0 .. W - 1, d = q * W + r
  PROVE  d \div W = q /\ d % W = r
<1>1. d \div W \in Int /\ d % W \in 0 .. W - 1 /\ d = (d \div W) * W + (d % W)
  BY Divides
<1> QED
  BY <1>1, DividesOnce

Bitmap == [Word -> SUBSET Bit]
Distance == 0 .. WindowBits - 1
DistancesIn(b) == {d \in Distance : HasBit(b, d)}

LEMMA Sizes ==
  WordBits \in Nat \ {0} /\ WindowWords \in Nat \ {0} /\ WindowBits \in Nat \ {0}
<1>1. WordBits \in Nat \ {0} /\ WindowWords \in Nat \ {0}
  BY SlidingWindowAssumption
<1>2. WindowBits \in Nat \ {0}
  BY <1>1 DEF WindowBits
<1> QED
  BY <1>1, <1>2

(* Where a distance is in a bitmap. *)
LEMMA PlaceInBitmap ==
  ASSUME NEW d \in Distance
  PROVE  /\ d \in Nat /\ d < WindowBits
         /\ d \div WordBits \in Word /\ d % WordBits \in Bit
         /\ d = (d \div WordBits) * WordBits + (d % WordBits)
<1>1. d \in Int /\ 0 <= d /\ d < WindowWords * WordBits /\ d < WindowBits
  BY Sizes DEF Distance, WindowBits
<1>2. d \div WordBits \in Int /\ d % WordBits \in 0 .. WordBits - 1
      /\ d = (d \div WordBits) * WordBits + (d % WordBits)
  BY <1>1, Sizes, Divides
<1> DEFINE q == d \div WordBits
           r == d % WordBits
<1>3. q \in Int /\ r \in 0 .. WordBits - 1 /\ d = q * WordBits + r
  BY <1>2
<1> HIDE DEF q, r
<1>4. ~(q < 0)
  <2> SUFFICES ASSUME q < 0 PROVE FALSE
    OBVIOUS
  <2>1. q * WordBits + WordBits <= 0 * WordBits
    BY <1>3, Sizes, ProductGrows
  <2> QED
    BY <1>1, <1>3, <2>1, Sizes
<1>5. ~(WindowWords - 1 < q)
  <2> SUFFICES ASSUME WindowWords - 1 < q PROVE FALSE
    OBVIOUS
  <2>1. (WindowWords - 1) * WordBits + WordBits <= q * WordBits
    BY <1>3, Sizes, ProductGrows
  <2>2. (WindowWords - 1) * WordBits + WordBits = WindowWords * WordBits
    BY Sizes
  <2> QED
    BY <1>1, <1>3, <2>1, <2>2, Sizes
<1>6. q \in Word
  BY <1>3, <1>4, <1>5, Sizes DEF Word
<1> QED
  BY <1>1, <1>3, <1>6 DEF q, r, Bit

(* A word and a bit are those of a distance, and of one only. *)
LEMMA DistanceAt ==
  ASSUME NEW q \in Word, NEW r \in Bit
  PROVE  /\ q * WordBits + r \in Distance
         /\ (q * WordBits + r) \div WordBits = q /\ (q * WordBits + r) % WordBits = r
<1>1. q \in Nat /\ q < WindowWords /\ r \in 0 .. WordBits - 1
  BY Sizes DEF Word, Bit
<1>2. q * WordBits \in Nat
  BY <1>1, Sizes
<1>3. q * WordBits + WordBits <= WindowWords * WordBits
  BY <1>1, Sizes, ProductGrows
<1>4. q * WordBits + r \in Distance
  BY <1>1, <1>2, <1>3, Sizes DEF Distance, WindowBits
<1>5. q * WordBits + r \in Int /\ q \in Int /\ WordBits \in Nat \ {0}
  BY <1>1, <1>2, Sizes
<1>6. \A d \in Int : d = q * WordBits + r => d \div WordBits = q /\ d % WordBits = r
  BY <1>1, <1>5, QuotientAndRest
<1> QED
  BY <1>4, <1>5, <1>6

LEMMA BitIsSet ==
  ASSUME NEW b \in Bitmap, NEW d \in Distance
  PROVE  SetBit(b, d) \in Bitmap /\ DistancesIn(SetBit(b, d)) = DistancesIn(b) \cup {d}
<1>1. d \div WordBits \in Word /\ d % WordBits \in Bit
  BY PlaceInBitmap
<1>2. SetBit(b, d) \in Bitmap
  BY <1>1 DEF SetBit, Bitmap
<1>3. ASSUME NEW e \in Distance PROVE HasBit(SetBit(b, d), e) <=> HasBit(b, e) \/ e = d
  <2>1. e \div WordBits \in Word /\ e % WordBits \in Bit
    BY PlaceInBitmap
  <2>2. HasBit(SetBit(b, d), e) <=> HasBit(b, e) \/ (e \div WordBits = d \div WordBits /\ e % WordBits = d % WordBits)
    BY <1>1, <2>1 DEF SetBit, HasBit, Bitmap
  <2>3. e \div WordBits = d \div WordBits /\ e % WordBits = d % WordBits => e = d
    <3>1. /\ e = (e \div WordBits) * WordBits + (e % WordBits)
          /\ d = (d \div WordBits) * WordBits + (d % WordBits)
      BY PlaceInBitmap
    <3> QED
      BY <3>1
  <2> QED
    BY <2>2, <2>3
<1> QED
  BY <1>2, <1>3 DEF DistancesIn

LEMMA EmptyHoldsNone == EmptyBitmap \in Bitmap /\ DistancesIn(EmptyBitmap) = {}
  BY PlaceInBitmap DEF DistancesIn, HasBit, EmptyBitmap, Bitmap

(* The shift of the words: whole words first, then the bits with what they *)
(* carry over.                                                             *)
LEMMA BitsAreShifted ==
  ASSUME NEW b \in Bitmap, NEW n \in Nat
  PROVE  /\ ShiftBitmap(b, n) \in Bitmap
         /\ \A d \in Distance : HasBit(ShiftBitmap(b, n), d) <=> d - n \in DistancesIn(b)
<1>1. CASE n >= WindowBits
  <2>1. \A d \in Distance : ~HasBit(EmptyBitmap, d) /\ d - n \notin Distance
    BY <1>1, EmptyHoldsNone, Sizes DEF DistancesIn, Distance
  <2> QED
    BY <1>1, <2>1, EmptyHoldsNone DEF ShiftBitmap, DistancesIn
<1>2. CASE ~(n >= WindowBits)
  <2> DEFINE words == n \div WordBits
             bits == n % WordBits
             moved == [i \in Word |-> IF i >= words THEN b[i - words] ELSE {}]
             shifted == [i \in Word |-> LeftShift(moved[i], bits)
                           \cup (IF i > 0 THEN CarriedOver(moved[i - 1], bits) ELSE {})]
  <2>1. ShiftBitmap(b, n) = shifted
    BY <1>2 DEF ShiftBitmap
  <2>2. n \in Distance
    BY <1>2, Sizes DEF Distance
  <2>3. words \in Word /\ bits \in Bit /\ n = words * WordBits + bits
    BY <2>2, PlaceInBitmap
  <2> HIDE DEF words, bits
  <2>4. moved \in Bitmap
    BY <2>3, Sizes DEF Bitmap, Word
  <2>5. \A i \in Word : moved[i] = IF i >= words THEN b[i - words] ELSE {}
    OBVIOUS
  <2> HIDE DEF moved
  <2>6. \A i \in Word : shifted[i] = LeftShift(moved[i], bits)
                           \cup (IF i > 0 THEN CarriedOver(moved[i - 1], bits) ELSE {})
    OBVIOUS
  <2>7. shifted \in Bitmap
    <3>1. ASSUME NEW i \in Word PROVE shifted[i] \subseteq Bit
      <4>1. LeftShift(moved[i], bits) \subseteq Bit
        BY DEF LeftShift
      <4>2. ASSUME i > 0, NEW x \in CarriedOver(moved[i - 1], bits) PROVE x \in Bit
        <5>1. i - 1 \in Word
          BY <4>2, Sizes DEF Word
        <5>2. PICK c \in moved[i - 1] : c >= WordBits - bits /\ x = c - (WordBits - bits)
          BY <4>2 DEF CarriedOver
        <5>3. c \in Bit
          BY <2>4, <5>1, <5>2 DEF Bitmap
        <5> QED
          BY <2>3, <5>2, <5>3, Sizes DEF Bit
      <4> QED
        BY <2>6, <4>1, <4>2
    <3> QED
      BY <3>1 DEF Bitmap
  <2> HIDE DEF shifted
  <2>8. ASSUME NEW d \in Distance PROVE HasBit(shifted, d) <=> d - n \in DistancesIn(b)
    <3> DEFINE i == d \div WordBits
               r == d % WordBits
    <3>1. i \in Word /\ r \in Bit /\ d = i * WordBits + r /\ d \in Nat
      BY PlaceInBitmap
    <3>2. HasBit(shifted, d) <=> r \in shifted[i]
      BY DEF HasBit
    <3> HIDE DEF i, r
    <3>3. i \in Nat /\ words \in Nat /\ r \in Nat /\ bits \in Nat /\ r < WordBits /\ bits < WordBits
          /\ n \in Nat /\ WordBits \in Nat \ {0}
          /\ WindowWords \in Nat /\ i < WindowWords /\ words < WindowWords
      BY <2>3, <3>1, Sizes DEF Word, Bit
    <3>4. ASSUME NEW j \in Word PROVE moved[j] \subseteq Bit
      BY <2>4, <3>4 DEF Bitmap
    <3>5. r \in LeftShift(moved[i], bits) <=> r - bits \in moved[i]
      <4>1. \A c \in moved[i] : c \in Int
        BY <3>1, <3>4 DEF Bit
      <4> QED
        BY <3>1, <3>3, <4>1 DEF LeftShift
    <3>6. i > 0 => (r \in CarriedOver(moved[i - 1], bits) <=> r + WordBits - bits \in moved[i - 1])
      <4> SUFFICES ASSUME i > 0
                   PROVE  r \in CarriedOver(moved[i - 1], bits) <=> r + WordBits - bits \in moved[i - 1]
        OBVIOUS
      <4>1. i - 1 \in Word
        BY <3>1, Sizes DEF Word
      <4>2. \A c \in moved[i - 1] : c \in Int
        BY <3>4, <4>1 DEF Bit
      <4> QED
        BY <3>3, <4>2 DEF CarriedOver
    <3>7. \A q \in Word, s \in Bit : q * WordBits + s \in DistancesIn(b) <=> s \in b[q]
      BY DistanceAt DEF DistancesIn, HasBit
    <3>8. \A e \in DistancesIn(b) : e >= 0
      BY Sizes DEF DistancesIn, Distance
    <3>9. CASE r >= bits
      <4>1. i > 0 => r + WordBits - bits \notin moved[i - 1]
        BY <3>1, <3>3, <3>4, <3>9, Sizes DEF Bit, Word
      <4>2. CASE i >= words
        <5>1. i - words \in Word /\ r - bits \in Bit
          BY <3>3, <3>9, <4>2 DEF Word, Bit
        <5>2. d - n = (i - words) * WordBits + (r - bits)
          BY <2>3, <3>1, <3>3
        <5>3. d - n \in DistancesIn(b) <=> r - bits \in b[i - words]
          BY <3>7, <5>1, <5>2
        <5> QED
          BY <2>5, <2>6, <3>1, <3>2, <3>5, <3>6, <4>1, <4>2, <5>3
      <4>3. CASE ~(i >= words)
        <5>1. i * WordBits + WordBits <= words * WordBits
          BY <3>3, <4>3, ProductGrows
        <5>2. i * WordBits \in Int /\ words * WordBits \in Int
          BY <3>3
        <5>3. d - n < 0
          BY <2>3, <3>1, <3>3, <5>1, <5>2
        <5> QED
          BY <2>5, <2>6, <3>1, <3>2, <3>5, <3>6, <3>8, <4>1, <4>3, <5>3
      <4> QED
        BY <4>2, <4>3
    <3>10. CASE ~(r >= bits)
      <4>1. r - bits \notin moved[i]
        BY <3>1, <3>3, <3>4, <3>10 DEF Bit
      <4>2. CASE i > words
        <5>1. i - 1 \in Word /\ i - 1 >= words /\ (i - 1) - words \in Word /\ r + WordBits - bits \in Bit /\ i > 0
          BY <3>3, <3>10, <4>2 DEF Word, Bit
        <5>2. d - n = ((i - 1) - words) * WordBits + (r + WordBits - bits)
          BY <2>3, <3>1, <3>3
        <5>3. d - n \in DistancesIn(b) <=> r + WordBits - bits \in b[(i - 1) - words]
          BY <3>7, <5>1, <5>2
        <5> QED
          BY <2>5, <2>6, <3>1, <3>2, <3>5, <3>6, <4>1, <5>1, <5>3
      <4>3. CASE ~(i > words)
        <5>1. i * WordBits <= words * WordBits
          <6>1. CASE i = words
            BY <6>1, <3>3
          <6>2. CASE i < words
            <7>1. i * WordBits + WordBits <= words * WordBits
              BY <3>3, <6>2, ProductGrows
            <7>2. i * WordBits \in Int /\ words * WordBits \in Int
              BY <3>3
            <7> QED
              BY <3>3, <7>1, <7>2
          <6> QED
            BY <3>3, <4>3, <6>1, <6>2
        <5>2. i * WordBits \in Int /\ words * WordBits \in Int
          BY <3>3
        <5>3. d - n < 0
          BY <2>3, <3>1, <3>3, <3>10, <5>1, <5>2
        <5>4. i > 0 => moved[i - 1] = {}
          <6> SUFFICES ASSUME i > 0 PROVE moved[i - 1] = {}
            OBVIOUS
          <6>1. i - 1 \in Word /\ ~(i - 1 >= words)
            BY <3>3, <4>3 DEF Word
          <6> QED
            BY <2>5, <6>1
        <5> QED
          BY <2>6, <3>1, <3>2, <3>5, <3>6, <3>8, <4>1, <5>3, <5>4
      <4> QED
        BY <4>2, <4>3
    <3> QED
      BY <3>9, <3>10
  <2> QED
    BY <2>1, <2>7, <2>8
<1> QED
  BY <1>1, <1>2

(* What a list of windows says of a high half. *)
Window == [high : 0 .. CounterHighMax, max : 0 .. CounterLowMax, bitmap : Bitmap]

OneEach(ws) == \A i, j \in DOMAIN ws : ws[i].high = ws[j].high => i = j
MaxAt(ws, h) ==
  LET places == {i \in DOMAIN ws : ws[i].high = h}
  IN  IF places = {} THEN 0 ELSE ws[CHOOSE i \in places : TRUE].max
HeldAt(ws, h) ==
  LET places == {i \in DOMAIN ws : ws[i].high = h}
  IN  IF places = {} THEN {} ELSE DistancesIn(ws[CHOOSE i \in places : TRUE].bitmap)

LEMMA WindowIsFound ==
  ASSUME NEW ws, OneEach(ws), NEW i \in DOMAIN ws
  PROVE  MaxAt(ws, ws[i].high) = ws[i].max /\ HeldAt(ws, ws[i].high) = DistancesIn(ws[i].bitmap)
<1> DEFINE places == {j \in DOMAIN ws : ws[j].high = ws[i].high}
<1>1. places = {i}
  BY DEF OneEach
<1>2. (CHOOSE j \in places : TRUE) = i
  BY <1>1
<1> QED
  BY <1>1, <1>2 DEF MaxAt, HeldAt

LEMMA WindowIsMissing ==
  ASSUME NEW ws, NEW h, \A i \in DOMAIN ws : ws[i].high # h
  PROVE  MaxAt(ws, h) = 0 /\ HeldAt(ws, h) = {}
<1>1. {i \in DOMAIN ws : ws[i].high = h} = {}
  OBVIOUS
<1> QED
  BY <1>1 DEF MaxAt, HeldAt

(* The distances from a newest nonce that is n further. *)
Later(distances, n) == {d \in Distance : d - n \in distances} \cup {0}

(* One window after a nonce it allows: its bits are the distances of the   *)
(* promise.                                                                *)
LEMMA WindowIsMarked ==
  ASSUME NEW w \in Window, NEW low \in 0 .. CounterLowMax,
         low <= w.max => w.max - low < WindowBits
  PROVE  /\ Marked(w, low) \in Window /\ Marked(w, low).high = w.high
         /\ low > w.max =>
              /\ Marked(w, low).max = low
              /\ DistancesIn(Marked(w, low).bitmap)
                   = Later(DistancesIn(w.bitmap), low - w.max)
         /\ ~(low > w.max) =>
              /\ Marked(w, low).max = w.max
              /\ DistancesIn(Marked(w, low).bitmap) = DistancesIn(w.bitmap) \cup {w.max - low}
<1>1. w.max \in Nat /\ low \in Nat /\ w.bitmap \in Bitmap
  BY SlidingWindowAssumption DEF Window
<1>2. CASE low > w.max
  <2>1. low - w.max \in Nat
    BY <1>1, <1>2
  <2> DEFINE moved == ShiftBitmap(w.bitmap, low - w.max)
  <2>2. moved \in Bitmap
        /\ \A d \in Distance : HasBit(moved, d) <=> d - (low - w.max) \in DistancesIn(w.bitmap)
    BY <1>1, <2>1, BitsAreShifted
  <2> HIDE DEF moved
  <2>3. 0 \in Distance
    BY Sizes DEF Distance
  <2>4. SetBit(moved, 0) \in Bitmap /\ DistancesIn(SetBit(moved, 0)) = DistancesIn(moved) \cup {0}
    BY <2>2, <2>3, BitIsSet
  <2>5. DistancesIn(moved) = {d \in Distance : d - (low - w.max) \in DistancesIn(w.bitmap)}
    BY <2>2 DEF DistancesIn
  <2>6. Marked(w, low) = [w EXCEPT !.bitmap = SetBit(moved, 0), !.max = low]
    BY <1>2 DEF Marked, moved
  <2> QED
    BY <1>2, <2>4, <2>5, <2>6 DEF Window, Later
<1>3. CASE ~(low > w.max)
  <2>1. w.max - low \in Distance
    BY <1>1, <1>3, Sizes DEF Distance
  <2>2. SetBit(w.bitmap, w.max - low) \in Bitmap
        /\ DistancesIn(SetBit(w.bitmap, w.max - low)) = DistancesIn(w.bitmap) \cup {w.max - low}
    BY <1>1, <2>1, BitIsSet
  <2>3. w.max - low < WindowBits
    BY <1>1, <1>3
  <2>4. Marked(w, low) = [w EXCEPT !.bitmap = SetBit(@, w.max - low)]
    BY <1>3, <2>3 DEF Marked
  <2> QED
    BY <1>3, <2>2, <2>4 DEF Window
<1> QED
  BY <1>2, <1>3

(* The list when a window for a high half is there: it says what it said. *)
LEMMA RoomIsMade ==
  ASSUME NEW ws \in Seq(Window), OneEach(ws), NEW h \in 0 .. CounterHighMax,
         \A i \in DOMAIN ws : ws[i].high # h
  PROVE  LET longer == Append(ws, [high |-> h, max |-> 0, bitmap |-> EmptyBitmap])
         IN  /\ longer \in Seq(Window) /\ OneEach(longer)
             /\ \E i \in DOMAIN longer : longer[i].high = h
             /\ \A i \in DOMAIN longer : longer[i].high = h \/ \E j \in DOMAIN ws : longer[i].high = ws[j].high
             /\ \A g : MaxAt(longer, g) = MaxAt(ws, g) /\ HeldAt(longer, g) = HeldAt(ws, g)
<1> DEFINE new == [high |-> h, max |-> 0, bitmap |-> EmptyBitmap]
           longer == Append(ws, new)
<1>1. new \in Window /\ new.high = h /\ new.max = 0 /\ DistancesIn(new.bitmap) = {}
  BY EmptyHoldsNone, SlidingWindowAssumption DEF Window
<1> HIDE DEF new
<1>2. /\ longer \in Seq(Window) /\ Len(ws) \in Nat
      /\ DOMAIN ws = 1 .. Len(ws) /\ DOMAIN longer = 1 .. Len(ws) + 1
      /\ \A i \in 1 .. Len(ws) : longer[i] = ws[i]
      /\ longer[Len(ws) + 1] = new
  BY <1>1
<1> HIDE DEF longer
<1>3. OneEach(longer)
  BY <1>1, <1>2 DEF OneEach
<1>4. \A i \in DOMAIN longer : longer[i].high = h \/ \E j \in DOMAIN ws : longer[i].high = ws[j].high
  BY <1>1, <1>2
<1>5. ASSUME NEW g PROVE MaxAt(longer, g) = MaxAt(ws, g) /\ HeldAt(longer, g) = HeldAt(ws, g)
  <2>1. CASE \E i \in DOMAIN ws : ws[i].high = g
    <3>1. PICK i \in DOMAIN ws : ws[i].high = g
      BY <2>1
    <3>2. i \in DOMAIN longer /\ longer[i] = ws[i]
      BY <1>2
    <3>3. MaxAt(longer, longer[i].high) = longer[i].max /\ HeldAt(longer, longer[i].high) = DistancesIn(longer[i].bitmap)
      BY <1>3, <3>2, WindowIsFound
    <3>4. MaxAt(ws, ws[i].high) = ws[i].max /\ HeldAt(ws, ws[i].high) = DistancesIn(ws[i].bitmap)
      BY WindowIsFound
    <3> QED
      BY <3>1, <3>2, <3>3, <3>4
  <2>2. CASE ~\E i \in DOMAIN ws : ws[i].high = g
    <3>1. MaxAt(ws, g) = 0 /\ HeldAt(ws, g) = {}
      BY <2>2, WindowIsMissing
    <3>2. CASE g = h
      <4>1. Len(ws) + 1 \in DOMAIN longer /\ longer[Len(ws) + 1].high = g
        BY <1>1, <1>2, <3>2
      <4>2. MaxAt(longer, g) = longer[Len(ws) + 1].max
            /\ HeldAt(longer, g) = DistancesIn(longer[Len(ws) + 1].bitmap)
        BY <1>3, <4>1, WindowIsFound
      <4> QED
        BY <1>1, <1>2, <3>1, <4>2
    <3>3. CASE g # h
      <4>1. \A i \in DOMAIN longer : longer[i].high # g
        BY <1>4, <2>2, <3>3
      <4> QED
        BY <3>1, <4>1, WindowIsMissing
    <3> QED
      BY <3>2, <3>3
  <2> QED
    BY <2>1, <2>2
<1> QED
  BY <1>1, <1>2, <1>3, <1>4, <1>5 DEF longer, new

(* What becomes of the list when the window of a nonce takes it.            *)
Takes(ws, n, marked) ==
  /\ marked \in Seq(Window) /\ OneEach(marked)
  /\ DOMAIN marked = DOMAIN ws
  /\ \A i \in DOMAIN ws : marked[i].high = ws[i].high
  /\ \A g : g # n.high => MaxAt(marked, g) = MaxAt(ws, g) /\ HeldAt(marked, g) = HeldAt(ws, g)
  /\ n.low > MaxAt(ws, n.high) =>
       /\ MaxAt(marked, n.high) = n.low
       /\ HeldAt(marked, n.high)
            = Later(HeldAt(ws, n.high), n.low - MaxAt(ws, n.high))
  /\ ~(n.low > MaxAt(ws, n.high)) =>
       /\ MaxAt(marked, n.high) = MaxAt(ws, n.high)
       /\ HeldAt(marked, n.high) = HeldAt(ws, n.high) \cup {MaxAt(ws, n.high) - n.low}

(* A list with a window for a nonce, after that window was marked. *)
LEMMA ListIsMarked ==
  ASSUME NEW ws \in Seq(Window), OneEach(ws), NEW n \in [low : 0 .. CounterLowMax, high : 0 .. CounterHighMax],
         \E i \in DOMAIN ws : ws[i].high = n.high,
         n.low <= MaxAt(ws, n.high) => MaxAt(ws, n.high) - n.low < WindowBits,
         NEW marked,
         marked = [i \in DOMAIN ws |-> IF ws[i].high = n.high THEN Marked(ws[i], n.low) ELSE ws[i]]
  PROVE  Takes(ws, n, marked)
<1>1. PICK k \in DOMAIN ws : ws[k].high = n.high
  OBVIOUS
<1>2. MaxAt(ws, n.high) = ws[k].max /\ HeldAt(ws, n.high) = DistancesIn(ws[k].bitmap)
  BY <1>1, WindowIsFound
<1>3. \A i \in DOMAIN ws : ws[i].high = n.high => i = k
  BY <1>1 DEF OneEach
<1>4. n.low \in 0 .. CounterLowMax /\ ws[k] \in Window
  BY <1>1
<1>5. n.low <= ws[k].max => ws[k].max - n.low < WindowBits
  BY <1>2, Zenon
<1>6. /\ Marked(ws[k], n.low) \in Window /\ Marked(ws[k], n.low).high = ws[k].high
      /\ n.low > ws[k].max =>
           /\ Marked(ws[k], n.low).max = n.low
           /\ DistancesIn(Marked(ws[k], n.low).bitmap)
                = Later(DistancesIn(ws[k].bitmap), n.low - ws[k].max)
      /\ ~(n.low > ws[k].max) =>
           /\ Marked(ws[k], n.low).max = ws[k].max
           /\ DistancesIn(Marked(ws[k], n.low).bitmap) = DistancesIn(ws[k].bitmap) \cup {ws[k].max - n.low}
  BY <1>5, <1>4, WindowIsMarked, Zenon
<1>7. /\ DOMAIN marked = DOMAIN ws
      /\ marked[k] = Marked(ws[k], n.low)
      /\ \A i \in DOMAIN ws : i # k => marked[i] = ws[i]
  BY <1>1, <1>3
<1>8. \A i \in DOMAIN ws : marked[i] \in Window /\ marked[i].high = ws[i].high
  BY <1>6, <1>7
<1>9. marked \in Seq(Window)
  <2>1. marked = [i \in 1 .. Len(ws) |-> marked[i]] /\ Len(ws) \in Nat /\ DOMAIN ws = 1 .. Len(ws)
    BY <1>7
  <2> QED
    BY <1>8, <2>1
<1>10. OneEach(marked)
  BY <1>7, <1>8 DEF OneEach
<1>11. MaxAt(marked, n.high) = marked[k].max /\ HeldAt(marked, n.high) = DistancesIn(marked[k].bitmap)
  BY <1>1, <1>7, <1>8, <1>10, WindowIsFound
<1>12. ASSUME NEW g, g # n.high PROVE MaxAt(marked, g) = MaxAt(ws, g) /\ HeldAt(marked, g) = HeldAt(ws, g)
  <2>1. CASE \E i \in DOMAIN ws : ws[i].high = g
    <3>1. PICK i \in DOMAIN ws : ws[i].high = g
      BY <2>1
    <3>2. i \in DOMAIN marked /\ marked[i] = ws[i]
      BY <1>1, <1>7, <1>12, <3>1
    <3>3. MaxAt(marked, marked[i].high) = marked[i].max /\ HeldAt(marked, marked[i].high) = DistancesIn(marked[i].bitmap)
      BY <1>10, <3>2, WindowIsFound
    <3>4. MaxAt(ws, ws[i].high) = ws[i].max /\ HeldAt(ws, ws[i].high) = DistancesIn(ws[i].bitmap)
      BY WindowIsFound
    <3> QED
      BY <3>1, <3>2, <3>3, <3>4
  <2>2. CASE ~\E i \in DOMAIN ws : ws[i].high = g
    <3>1. \A i \in DOMAIN marked : marked[i].high # g
      BY <1>7, <1>8, <2>2
    <3>2. MaxAt(marked, g) = 0 /\ HeldAt(marked, g) = {}
      BY <3>1, WindowIsMissing
    <3>3. MaxAt(ws, g) = 0 /\ HeldAt(ws, g) = {}
      BY <2>2, WindowIsMissing
    <3> QED
      BY <3>2, <3>3
  <2> QED
    BY <2>1, <2>2
<1>13. n.low > MaxAt(ws, n.high) =>
         /\ MaxAt(marked, n.high) = n.low
         /\ HeldAt(marked, n.high)
              = Later(HeldAt(ws, n.high), n.low - MaxAt(ws, n.high))
  BY <1>2, <1>6, <1>7, <1>11
<1>14. ~(n.low > MaxAt(ws, n.high)) =>
         /\ MaxAt(marked, n.high) = MaxAt(ws, n.high)
         /\ HeldAt(marked, n.high) = HeldAt(ws, n.high) \cup {MaxAt(ws, n.high) - n.low}
  BY <1>2, <1>6, <1>7, <1>11
<1>15. \A i \in DOMAIN ws : marked[i].high = ws[i].high
  BY <1>8
<1>16. DOMAIN marked = DOMAIN ws
  BY <1>7
<1>17. \A g : g # n.high => MaxAt(marked, g) = MaxAt(ws, g) /\ HeldAt(marked, g) = HeldAt(ws, g)
  BY <1>12
<1> QED
  BY <1>9, <1>10, <1>13, <1>14, <1>15, <1>16, <1>17 DEF Takes

(* Each of the high halves has one window, so while one of the first       *)
(* WindowCap has none there is room for it.                                *)
LEMMA RoomForAll ==
  ASSUME NEW ws \in Seq(Window), OneEach(ws), NEW h \in Nat, h < WindowCap,
         \A i \in DOMAIN ws : ws[i].high < WindowCap /\ ws[i].high # h
  PROVE  Len(ws) # WindowCap
<1> DEFINE highs == 0 .. WindowCap - 1
           f == [i \in 1 .. Len(ws) |-> ws[i].high]
<1>1. WindowCap \in Nat \ {0} /\ CounterHighMax \in Nat
  BY SlidingWindowAssumption
<1>2. Len(ws) \in Nat /\ DOMAIN ws = 1 .. Len(ws)
  OBVIOUS
<1>3. \A i \in 1 .. Len(ws) : ws[i].high \in highs \ {h}
  <2>1. \A i \in 1 .. Len(ws) : ws[i] \in Window
    BY <1>2
  <2>2. \A i \in 1 .. Len(ws) : ws[i].high \in Nat
    BY <1>1, <2>1 DEF Window
  <2> QED
    BY <1>1, <1>2, <2>2
<1>4. f \in Injection(1 .. Len(ws), highs \ {h})
  BY <1>2, <1>3 DEF Injection, IsInjective, OneEach
<1>5. IsFiniteSet(highs) /\ Cardinality(highs) = WindowCap
  <2>1. 0 \in Int /\ WindowCap - 1 \in Int
    BY <1>1
  <2>2. /\ IsFiniteSet(0 .. WindowCap - 1)
        /\ Cardinality(0 .. WindowCap - 1) = IF 0 > WindowCap - 1 THEN 0 ELSE (WindowCap - 1) - 0 + 1
    BY <2>1, FS_Interval
  <2> QED
    BY <1>1, <2>2
<1>6. IsFiniteSet(highs \ {h}) /\ Cardinality(highs \ {h}) = WindowCap - 1
  <2>1. h \in highs
    BY <1>1
  <2> QED
    BY <1>5, <2>1, FS_RemoveElement
<1>7. Cardinality(1 .. Len(ws)) <= Cardinality(highs \ {h})
  BY <1>4, <1>6, FS_Injection
<1>8. Cardinality(1 .. Len(ws)) = Len(ws)
  <2>1. Len(ws) \in Int /\ 1 \in Int
    BY <1>2
  <2>2. Cardinality(1 .. Len(ws)) = IF 1 > Len(ws) THEN 0 ELSE Len(ws) - 1 + 1
    BY <2>1, FS_Interval
  <2> QED
    BY <1>2, <2>2
<1>9. Len(ws) <= WindowCap - 1
  BY <1>6, <1>7, <1>8
<1>10. Len(ws) \in Int /\ WindowCap \in Int
  BY <1>1, <1>2
<1>11. \A a, b \in Int : a <= b - 1 => a # b
  OBVIOUS
<1> QED
  BY <1>9, <1>10, <1>11, Zenon

-----------------------------------------------------------------------------
CounterNonce == [low : 0 .. CounterLowMax, high : 0 .. CounterHighMax]

SlidingInv ==
  /\ sendNonce \in CounterNonce
  /\ used \subseteq {n \in CounterNonce : n.high <= sendNonce.high}
  /\ wins \in Seq(Window)
  /\ OneEach(wins)
  /\ \A i \in DOMAIN wins : wins[i].high <= sendNonce.high

(* Four times 2^64 datagrams are not sent under one key.                   *)
InReach == sendNonce.high < WindowCap

LEMMA CounterAdvances ==
  ASSUME NEW n \in CounterNonce, ~NonceOverflow(n)
  PROVE  Increment(n) \in CounterNonce /\ n.high <= Increment(n).high
<1>1. CounterLowMax \in Nat /\ CounterHighMax \in Nat
  BY SlidingWindowAssumption
<1>2. n.low \in 0 .. CounterLowMax /\ n.high \in 0 .. CounterHighMax
  BY DEF CounterNonce
<1>3. CASE n.low = CounterLowMax
  <2>1. n.high + 1 \in 0 .. CounterHighMax
    BY <1>1, <1>2, <1>3 DEF NonceOverflow
  <2> QED
    BY <1>1, <1>2, <1>3, <2>1 DEF Increment, CounterNonce
<1>4. CASE n.low # CounterLowMax
  <2>1. n.low + 1 \in 0 .. CounterLowMax
    BY <1>1, <1>2, <1>4
  <2> QED
    BY <1>2, <1>4, <2>1 DEF Increment, CounterNonce
<1> QED
  BY <1>3, <1>4

(* The list a datagram finds its window in.                                *)
LEMMA WindowIsThere ==
  ASSUME SlidingInv, InReach, NEW n \in used
  PROVE  /\ WithWindow(n) \in Seq(Window) /\ OneEach(WithWindow(n))
         /\ \E i \in DOMAIN WithWindow(n) : WithWindow(n)[i].high = n.high
         /\ \A i \in DOMAIN WithWindow(n) : WithWindow(n)[i].high <= sendNonce.high
         /\ \A g : MaxAt(WithWindow(n), g) = MaxAt(wins, g) /\ HeldAt(WithWindow(n), g) = HeldAt(wins, g)
<1>1. /\ n \in CounterNonce /\ n.high \in 0 .. CounterHighMax /\ n.high <= sendNonce.high
      /\ sendNonce.high \in Nat /\ sendNonce.high < WindowCap
      /\ WindowCap \in Nat /\ CounterHighMax \in Nat
  BY SlidingWindowAssumption DEF SlidingInv, InReach, CounterNonce
<1>2. wins \in Seq(Window) /\ OneEach(wins) /\ \A i \in DOMAIN wins : wins[i].high <= sendNonce.high
  BY DEF SlidingInv
<1>3. CASE IndexFor(n.high) # {}
  <2>1. WithWindow(n) = wins /\ \E i \in DOMAIN wins : wins[i].high = n.high
    BY <1>3 DEF WithWindow, IndexFor
  <2> QED
    BY <1>2, <2>1
<1>4. CASE IndexFor(n.high) = {}
  <2>1. \A i \in DOMAIN wins : wins[i].high # n.high
    BY <1>4 DEF IndexFor
  <2>2. \A i \in DOMAIN wins : wins[i].high \in Nat
    <3>1. \A i \in DOMAIN wins : wins[i] \in Window
      BY <1>2
    <3> QED
      BY <1>1, <3>1 DEF Window
  <2>3. \A i \in DOMAIN wins : wins[i].high < WindowCap /\ wins[i].high # n.high
    BY <1>1, <1>2, <2>1, <2>2
  <2>4. Len(wins) # WindowCap
    BY <1>1, <1>2, <2>3, RoomForAll, SMTT(30)
  <2>5. WithWindow(n) = Append(wins, [high |-> n.high, max |-> 0, bitmap |-> EmptyBitmap])
    BY <1>4, <2>4 DEF WithWindow
  <2> HIDE DEF WithWindow
  <2>6. /\ WithWindow(n) \in Seq(Window) /\ OneEach(WithWindow(n))
        /\ \E i \in DOMAIN WithWindow(n) : WithWindow(n)[i].high = n.high
        /\ \A i \in DOMAIN WithWindow(n) :
             WithWindow(n)[i].high = n.high \/ \E j \in DOMAIN wins : WithWindow(n)[i].high = wins[j].high
        /\ \A g : MaxAt(WithWindow(n), g) = MaxAt(wins, g) /\ HeldAt(WithWindow(n), g) = HeldAt(wins, g)
    BY <1>1, <1>2, <2>1, <2>5, RoomIsMade, SMTT(30)
  <2>7. \A i \in DOMAIN WithWindow(n) : WithWindow(n)[i].high <= sendNonce.high
    BY <1>1, <1>2, <2>6
  <2> QED
    BY <2>6, <2>7
<1> QED
  BY <1>3, <1>4

(* What the code checks is what the promise accepts.                       *)
LEMMA CheckIsAcceptable ==
  ASSUME SlidingInv, NEW n \in used
  PROVE  Check(n) <=> \/ n.low > MaxAt(wins, n.high)
                      \/ /\ MaxAt(wins, n.high) - n.low < WindowBits
                         /\ MaxAt(wins, n.high) - n.low \notin HeldAt(wins, n.high)
<1>1. n.low \in Nat
  BY SlidingWindowAssumption DEF SlidingInv, CounterNonce
<1>2. OneEach(wins) /\ \A i \in DOMAIN wins : wins[i] \in Window
  BY DEF SlidingInv
<1>3. CASE IndexFor(n.high) # {}
  <2>1. PICK k \in DOMAIN wins : wins[k].high = n.high
    BY <1>3 DEF IndexFor
  <2>2. MaxAt(wins, n.high) = wins[k].max /\ HeldAt(wins, n.high) = DistancesIn(wins[k].bitmap)
    BY <1>2, <2>1, WindowIsFound
  <2>3. IndexFor(n.high) = {k}
    BY <1>2, <2>1 DEF IndexFor, OneEach
  <2>4. wins[k].max \in Nat
    BY <1>2, <2>1, SlidingWindowAssumption DEF Window
  <2>5. Check(n) <=> (n.low <= wins[k].max =>
                        wins[k].max - n.low < WindowBits /\ ~HasBit(wins[k].bitmap, wins[k].max - n.low))
    BY <2>3 DEF Check
  <2>6. n.low <= wins[k].max /\ wins[k].max - n.low < WindowBits =>
          (HasBit(wins[k].bitmap, wins[k].max - n.low) <=> wins[k].max - n.low \in DistancesIn(wins[k].bitmap))
    BY <1>1, <2>4, Sizes DEF DistancesIn, Distance
  <2> QED
    BY <1>1, <2>2, <2>4, <2>5, <2>6
<1>4. CASE IndexFor(n.high) = {}
  <2>1. MaxAt(wins, n.high) = 0 /\ HeldAt(wins, n.high) = {}
    BY <1>4, WindowIsMissing DEF IndexFor
  <2>2. Check(n)
    BY <1>4 DEF Check
  <2> QED
    BY <1>1, <2>1, <2>2, Sizes
<1> QED
  BY <1>3, <1>4

(* An accepted datagram leaves the windows of the promise.                 *)
LEMMA WindowsAreAccepted ==
  ASSUME SlidingInv, InReach, NEW n \in used, Check(n)
  PROVE  /\ Accept(n) \in Seq(Window) /\ OneEach(Accept(n))
         /\ \A i \in DOMAIN Accept(n) : Accept(n)[i].high <= sendNonce.high
         /\ \A g : g # n.high => MaxAt(Accept(n), g) = MaxAt(wins, g) /\ HeldAt(Accept(n), g) = HeldAt(wins, g)
         /\ n.low > MaxAt(wins, n.high) =>
              /\ MaxAt(Accept(n), n.high) = n.low
              /\ HeldAt(Accept(n), n.high)
                   = Later(HeldAt(wins, n.high), n.low - MaxAt(wins, n.high))
         /\ ~(n.low > MaxAt(wins, n.high)) =>
              /\ MaxAt(Accept(n), n.high) = MaxAt(wins, n.high)
              /\ HeldAt(Accept(n), n.high) = HeldAt(wins, n.high) \cup {MaxAt(wins, n.high) - n.low}
<1> DEFINE ws == WithWindow(n)
<1>1. /\ ws \in Seq(Window) /\ OneEach(ws)
      /\ \E i \in DOMAIN ws : ws[i].high = n.high
      /\ \A i \in DOMAIN ws : ws[i].high <= sendNonce.high
      /\ \A g : MaxAt(ws, g) = MaxAt(wins, g) /\ HeldAt(ws, g) = HeldAt(wins, g)
  BY WindowIsThere
<1>2. Accept(n) = [i \in DOMAIN ws |-> IF ws[i].high = n.high THEN Marked(ws[i], n.low) ELSE ws[i]]
  BY DEF Accept
<1> HIDE DEF ws
<1>3. n \in [low : 0 .. CounterLowMax, high : 0 .. CounterHighMax]
  BY DEF SlidingInv, CounterNonce
<1>4. n.low <= MaxAt(ws, n.high) => MaxAt(ws, n.high) - n.low < WindowBits
  <2>1. PICK k \in DOMAIN ws : ws[k].high = n.high
    BY <1>1
  <2>2. MaxAt(ws, n.high) = ws[k].max /\ ws[k] \in Window
    BY <1>1, <2>1, WindowIsFound
  <2>3. MaxAt(ws, n.high) \in Nat /\ n.low \in Nat
    BY <1>3, <2>2, SlidingWindowAssumption DEF Window
  <2>4. MaxAt(ws, n.high) = MaxAt(wins, n.high)
    BY <1>1
  <2> QED
    BY <2>3, <2>4, CheckIsAcceptable
<1>5. Takes(ws, n, Accept(n))
  BY <1>1, <1>2, <1>3, <1>4, ListIsMarked
<1>6. /\ Accept(n) \in Seq(Window) /\ OneEach(Accept(n))
      /\ DOMAIN Accept(n) = DOMAIN ws
      /\ \A i \in DOMAIN ws : Accept(n)[i].high = ws[i].high
      /\ \A g : g # n.high => MaxAt(Accept(n), g) = MaxAt(ws, g) /\ HeldAt(Accept(n), g) = HeldAt(ws, g)
      /\ n.low > MaxAt(ws, n.high) =>
           /\ MaxAt(Accept(n), n.high) = n.low
           /\ HeldAt(Accept(n), n.high)
                = Later(HeldAt(ws, n.high), n.low - MaxAt(ws, n.high))
      /\ ~(n.low > MaxAt(ws, n.high)) =>
           /\ MaxAt(Accept(n), n.high) = MaxAt(ws, n.high)
           /\ HeldAt(Accept(n), n.high) = HeldAt(ws, n.high) \cup {MaxAt(ws, n.high) - n.low}
  BY <1>5 DEF Takes
<1>7. \A i \in DOMAIN Accept(n) : Accept(n)[i].high <= sendNonce.high
  BY <1>1, <1>6
<1>8. MaxAt(ws, n.high) = MaxAt(wins, n.high) /\ HeldAt(ws, n.high) = HeldAt(wins, n.high)
  BY <1>1
<1>9. \A g : g # n.high => MaxAt(Accept(n), g) = MaxAt(wins, g) /\ HeldAt(Accept(n), g) = HeldAt(wins, g)
  BY <1>1, <1>6
<1> QED
  BY <1>6, <1>7, <1>8, <1>9

LEMMA SlidingInitial ==
  ASSUME SlidingInit
  PROVE  SlidingInv /\ Promise!ReplayInit
<1>1. sendNonce = [low |-> 0, high |-> 0] /\ used = {} /\ wins = <<>> /\ opened = {}
  BY DEF SlidingInit
<1>2. DOMAIN wins = {}
  BY <1>1
<1>3. SlidingInv
  <2>1. wins \in Seq(Window)
    BY <1>1
  <2> QED
    BY <1>1, <1>2, <2>1, SlidingWindowAssumption DEF SlidingInv, CounterNonce, OneEach
<1>4. \A h : MaxOf(h) = 0 /\ BitsOf(h) = {}
  BY <1>2 DEF MaxOf, BitsOf, IndexFor
<1>5. Promise!ReplayInit
  BY <1>1, <1>4 DEF Promise!ReplayInit, Promise!High
<1> QED
  BY <1>3, <1>5

(* A function of which one value changes.                                  *)
LEMMA OneValueChanges ==
  ASSUME NEW D, NEW f, NEW g, NEW k \in D, NEW v, g[k] = v,
         f = [x \in D |-> f[x]], g = [x \in D |-> g[x]], \A x \in D : x # k => g[x] = f[x]
  PROVE  g = [f EXCEPT ![k] = v]
<1>1. [f EXCEPT ![k] = v] = [x \in D |-> IF x = k THEN v ELSE f[x]]
  OBVIOUS
<1>2. \A x \in D : g[x] = IF x = k THEN v ELSE f[x]
  OBVIOUS
<1> QED
  BY <1>1, <1>2

(* A step of the windows is a step of the promise.                         *)
LEMMA SlidingStep ==
  ASSUME SlidingInv, InReach, [SlidingNext]_slidingVars
  PROVE  SlidingInv' /\ [Promise!ReplayNext]_(Promise!replayVars)
<1> DEFINE newest == [h \in 0 .. CounterHighMax |-> MaxOf(h)]
           kept == [h \in 0 .. CounterHighMax |-> BitsOf(h)]
<1>1. \A h : MaxOf(h) = MaxAt(wins, h) /\ BitsOf(h) = HeldAt(wins, h)
  BY DEF MaxOf, BitsOf, IndexFor, MaxAt, HeldAt, DistancesIn, Distance
<1>2. \A h : MaxOf(h)' = MaxAt(wins', h) /\ BitsOf(h)' = HeldAt(wins', h)
  BY DEF MaxOf, BitsOf, IndexFor, MaxAt, HeldAt, DistancesIn, Distance
<1>3. CASE SessionEncrypt
  <2>1. /\ ~NonceOverflow(sendNonce) /\ sendNonce' = Increment(sendNonce)
        /\ used' = used \cup {Increment(sendNonce)} /\ wins' = wins /\ opened' = opened
    BY <1>3 DEF SessionEncrypt
  <2>2. Increment(sendNonce) \in CounterNonce /\ sendNonce.high <= Increment(sendNonce).high
    BY <2>1, CounterAdvances DEF SlidingInv
  <2>3. /\ \A n \in CounterNonce : n.high \in Nat
        /\ \A w \in Window : w.high \in Nat
    BY SlidingWindowAssumption DEF CounterNonce, Window
  <2>4. SlidingInv'
    <3>1. \A n \in used' : n \in CounterNonce /\ n.high <= sendNonce'.high
      BY <2>1, <2>2, <2>3 DEF SlidingInv
    <3>2. \A i \in DOMAIN wins : wins[i].high <= sendNonce'.high
      <4>1. \A i \in DOMAIN wins : wins[i] \in Window /\ wins[i].high <= sendNonce.high
        BY DEF SlidingInv
      <4>2. sendNonce \in CounterNonce
        BY DEF SlidingInv
      <4> QED
        BY <2>1, <2>2, <2>3, <4>1, <4>2
    <3> QED
      BY <2>1, <2>2, <3>1, <3>2 DEF SlidingInv
  <2>5. newest' = newest /\ kept' = kept
    BY <1>1, <1>2, <2>1
  <2>6. Promise!Encrypt
    BY <2>1, <2>5
       DEF Promise!Encrypt, Promise!Exhausted, Promise!Incremented, NonceOverflow, Increment
  <2> QED
    BY <2>4, <2>6 DEF Promise!ReplayNext
<1>4. ASSUME NEW n \in used, SessionDecrypt(n) PROVE SlidingInv' /\ [Promise!ReplayNext]_(Promise!replayVars)
  <2>1. /\ Check(n) /\ wins' = Accept(n) /\ opened' = opened \cup {n}
        /\ sendNonce' = sendNonce /\ used' = used
    BY <1>4 DEF SessionDecrypt
  <2>2. n \in CounterNonce /\ n.high \in 0 .. CounterHighMax
    BY DEF SlidingInv, CounterNonce
  <2>3. /\ wins' \in Seq(Window) /\ OneEach(wins')
        /\ \A i \in DOMAIN wins' : wins'[i].high <= sendNonce.high
        /\ \A g : g # n.high => MaxAt(wins', g) = MaxAt(wins, g) /\ HeldAt(wins', g) = HeldAt(wins, g)
        /\ n.low > MaxAt(wins, n.high) =>
             /\ MaxAt(wins', n.high) = n.low
             /\ HeldAt(wins', n.high)
                  = Later(HeldAt(wins, n.high), n.low - MaxAt(wins, n.high))
        /\ ~(n.low > MaxAt(wins, n.high)) =>
             /\ MaxAt(wins', n.high) = MaxAt(wins, n.high)
             /\ HeldAt(wins', n.high) = HeldAt(wins, n.high) \cup {MaxAt(wins, n.high) - n.low}
    BY <2>1, WindowsAreAccepted
  <2>4. SlidingInv'
    BY <2>1, <2>3 DEF SlidingInv
  <2>5. /\ newest = [h \in 0 .. CounterHighMax |-> MaxAt(wins, h)]
        /\ kept = [h \in 0 .. CounterHighMax |-> HeldAt(wins, h)]
        /\ newest' = [h \in 0 .. CounterHighMax |-> MaxAt(wins', h)]
        /\ kept' = [h \in 0 .. CounterHighMax |-> HeldAt(wins', h)]
    BY <1>1, <1>2
  <2>6. Check(n) <=> \/ n.low > MaxAt(wins, n.high)
                     \/ /\ MaxAt(wins, n.high) - n.low < WindowBits
                        /\ MaxAt(wins, n.high) - n.low \notin HeldAt(wins, n.high)
    BY CheckIsAcceptable
  <2>7. Promise!Acceptable(n)
    BY <2>1, <2>2, <2>5, <2>6 DEF Promise!Acceptable
  <2>8. IF n.low > newest[n.high]
          THEN /\ kept' = [kept EXCEPT ![n.high] = Promise!Shifted(@, n.low - newest[n.high]) \cup {0}]
               /\ newest' = [newest EXCEPT ![n.high] = n.low]
          ELSE /\ kept' = [kept EXCEPT ![n.high] = @ \cup {newest[n.high] - n.low}]
               /\ newest' = newest
    <3> DEFINE D == 0 .. CounterHighMax
    <3>1. newest[n.high] = MaxAt(wins, n.high) /\ kept[n.high] = HeldAt(wins, n.high)
      BY <2>2, <2>5
    <3>5. /\ newest = [h \in D |-> newest[h]] /\ kept = [h \in D |-> kept[h]]
          /\ newest' = [h \in D |-> newest'[h]] /\ kept' = [h \in D |-> kept'[h]]
      BY <2>5
    <3>6. \A h \in D : /\ newest[h] = MaxAt(wins, h) /\ kept[h] = HeldAt(wins, h)
                      /\ newest'[h] = MaxAt(wins', h) /\ kept'[h] = HeldAt(wins', h)
      BY <2>5
    <3>7. \A h \in D : h # n.high => newest'[h] = newest[h] /\ kept'[h] = kept[h]
      BY <2>3, <3>6
    <3>8. n.high \in D
      BY <2>2
    <3> HIDE DEF newest, kept, D
    <3>2. CASE n.low > MaxAt(wins, n.high)
      <4> DEFINE distances == Later(HeldAt(wins, n.high), n.low - MaxAt(wins, n.high))
      <4>1. Promise!Shifted(kept[n.high], n.low - newest[n.high]) \cup {0} = distances
        BY <3>1 DEF Promise!Shifted, Distance, Later
      <4>2. MaxAt(wins', n.high) = n.low /\ HeldAt(wins', n.high) = distances
        BY <2>3, <3>2
      <4> HIDE DEF distances
      <4>3. kept' = [kept EXCEPT ![n.high] = distances]
        BY <3>5, <3>6, <3>7, <3>8, <4>2, OneValueChanges
      <4>4. newest' = [newest EXCEPT ![n.high] = n.low]
        BY <3>5, <3>6, <3>7, <3>8, <4>2, OneValueChanges
      <4> QED
        BY <3>1, <3>2, <4>1, <4>3, <4>4
    <3>3. CASE ~(n.low > MaxAt(wins, n.high))
      <4> DEFINE distances == HeldAt(wins, n.high) \cup {MaxAt(wins, n.high) - n.low}
      <4>1. kept[n.high] \cup {newest[n.high] - n.low} = distances
        BY <3>1
      <4>2. MaxAt(wins', n.high) = MaxAt(wins, n.high) /\ HeldAt(wins', n.high) = distances
        BY <2>3, <3>3
      <4> HIDE DEF distances
      <4>3. kept' = [kept EXCEPT ![n.high] = distances]
        BY <3>5, <3>6, <3>7, <3>8, <4>2, OneValueChanges
      <4>4. newest' = newest
        <5>1. \A h \in D : newest'[h] = newest[h]
          BY <3>6, <3>7, <3>8, <4>2
        <5> QED
          BY <3>5, <5>1
      <4> QED
        BY <3>1, <3>3, <4>1, <4>3, <4>4
    <3> QED
      BY <3>1, <3>2, <3>3
  <2>9. Promise!Decrypt(n)
    BY <2>1, <2>7, <2>8 DEF Promise!Decrypt
  <2>10. n \in Promise!Nonce
    BY <2>2 DEF CounterNonce, Promise!Nonce, Promise!Low, Promise!High
  <2> QED
    BY <2>4, <2>9, <2>10 DEF Promise!ReplayNext
<1>5. CASE UNCHANGED slidingVars
  <2>1. sendNonce' = sendNonce /\ used' = used /\ wins' = wins /\ opened' = opened
    BY <1>5 DEF slidingVars
  <2>2. SlidingInv'
    BY <2>1 DEF SlidingInv
  <2>3. newest' = newest /\ kept' = kept
    BY <1>1, <1>2, <2>1
  <2> QED
    BY <2>1, <2>2, <2>3 DEF Promise!replayVars
<1> QED
  BY <1>3, <1>4, <1>5 DEF SlidingNext

(* Words, bits and the list of windows are a window over the counters, for *)
(* every number of words, bits of a word and width of the counter: as long *)
(* as no window is given up, the datagrams the code accepts are the ones   *)
(* ReplayWindow accepts (SlidingWindow.Check, Accept, shiftBitmap).        *)
THEOREM ImplementsReplayWindowHolds == SlidingSpec /\ []InReach => ImplementsReplayWindow
<1>1. SlidingInit => SlidingInv /\ Promise!ReplayInit
  BY SlidingInitial
<1>2. SlidingInv /\ InReach /\ [SlidingNext]_slidingVars
        => SlidingInv' /\ [Promise!ReplayNext]_(Promise!replayVars)
  BY SlidingStep
<1> QED
  BY <1>1, <1>2, PTL DEF SlidingSpec, ImplementsReplayWindow, Promise!ReplaySpec
=============================================================================
