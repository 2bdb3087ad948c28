-------------------------- MODULE SessionRepository --------------------------
(***************************************************************************)
(* session/repository.go and session/peer.go: the peers of the server's    *)
(* tunnels, the four indexes each repository finds them by, and the        *)
(* teardown that wipes their keys while packet threads may be using them.  *)
(*                                                                         *)
(* Locks.  A repository has a readers-writer lock; lookups and Add take it *)
(* for one step.  Delete, TerminateByPubKey and ReapIdle keep it for as    *)
(* long as they wait for cryptoMu of the peers they close, one after the   *)
(* other: "lock" holds what is left of such a call.  Send and Decrypt hold *)
(* a peer's cryptoMu for reading from the closed check to the end of the   *)
(* operation: "using", and for a receiver "opening" and "sending".  What   *)
(* a receiver does with a frame it opened, a rekey included, holds no lock.*)
(*                                                                         *)
(* Threads.  The TUN thread of a tunnel looks a peer up and sends to it.   *)
(* Received frames are handled by one thread per peer on TCP (serveClient, *)
(* which deletes its peer when it ends) and by one thread for all of them  *)
(* on UDP, where a reaper deletes the idle ones.  A thread may hold a peer *)
(* it looked up for any time before it uses it.                            *)
(***************************************************************************)
CONSTANTS
  Repo,        \* one repository per tunnel
  Datagrams,   \* the repositories of UDP tunnels; the others serve TCP or WebSocket
  Client,      \* clients, by their static public key
  Address,     \* client IDs, each with an internal IPv4 and an IPv6 address
  Session,     \* the peers the server creates, each once
  None

Peer == [repo : Repo, client : Client, addr : Address]
Deletion == [closing : Session \cup {None}, todo : SUBSET Session,
             by : {"session", "tun", "reaper", "watcher"}]

ASSUME RepoAssumption ==
  /\ Datagrams \subseteq Repo
  /\ None \notin Session /\ None \notin Deletion

VARIABLES
  peer,        \* what a peer was created with: repository, public key, address
  added,       \* the peers that were added to their repository
  closed,      \* Peer.closed
  zeroed,      \* the peers whose crypto was wiped by their deletion
  keyed,       \* the peers whose crypto holds session keys
  byIP,        \* internalIpToPeer
  byAddr,      \* allowedAddrToPeer: the IPv6 host route of each client
  byRoute,     \* routeIDToPeer
  byKey,       \* pubKeyToPeers
  lock,        \* the deletion that holds the repository's lock, or None
  recv,        \* what the thread that receives from a peer is doing with it
  tun          \* what the TUN thread of a repository is doing, and with which peer

indexes == <<byIP, byAddr, byRoute, byKey>>
repoVars == <<peer, added, closed, zeroed, keyed, indexes, lock, recv, tun>>

DeletionOf(s, S, by) == [closing |-> s, todo |-> S, by |-> by]
RecvState == {"idle", "found", "opening", "opened", "answering", "sending", "leaving", "exited"}
TunState == [pc : {"idle", "found", "using", "failed"}, peer : Session \cup {None}]
TunIdle == [pc |-> "idle", peer |-> None]

RepoInit ==
  /\ peer = [s \in Session |-> None]
  /\ added = {}
  /\ closed = {}
  /\ zeroed = {}
  /\ keyed = {}
  /\ byIP = [r \in Repo |-> [a \in Address |-> None]]
  /\ byAddr = [r \in Repo |-> [a \in Address |-> None]]
  /\ byRoute = {}
  /\ byKey = {}
  /\ lock = [r \in Repo |-> None]
  /\ recv = [s \in Session |-> "idle"]
  /\ tun = [r \in Repo |-> TunIdle]

IsTCP(s) == peer[s].repo \notin Datagrams

-----------------------------------------------------------------------------
(* Add: the internal address is taken over from whoever has it. *)
Add(s) ==
  LET p == peer[s]
  IN  /\ lock[p.repo] = None
      /\ added' = added \cup {s}
      /\ byIP' = [byIP EXCEPT ![p.repo][p.addr] = s]
      /\ byAddr' = [byAddr EXCEPT ![p.repo][p.addr] = s]
      /\ byRoute' = IF IsTCP(s) THEN byRoute ELSE byRoute \cup {s}
      /\ byKey' = byKey \cup {s}
      /\ UNCHANGED <<peer, closed, zeroed, keyed, lock, recv, tun>>

(* A deletion of the peers in S begins: the lock is taken, and given back  *)
(* at once when all of them are closed already.                            *)
StartDelete(r, S, by) ==
  /\ lock[r] = None
  /\ lock' = IF S \subseteq closed THEN lock
             ELSE [lock EXCEPT ![r] = DeletionOf(None, S \ closed, by)]

RoutesWithout(s) == byRoute \ {s}

(* deleteLocked, up to the wait for cryptoMu: closed, egress closed, out   *)
(* of every index; the entry under the internal address goes whoever it    *)
(* names.                                                                  *)
CloseOne(r) ==
  /\ lock[r] # None
  /\ lock[r].closing = None
  /\ \E s \in lock[r].todo :
       LET a == peer[s].addr
       IN  /\ lock' = [lock EXCEPT ![r] = DeletionOf(s, lock[r].todo \ {s}, lock[r].by)]
           /\ closed' = closed \cup {s}
           /\ byIP' = [byIP EXCEPT ![r][a] = None]
           /\ byAddr' = [byAddr EXCEPT ![r][a] = IF @ = s THEN None ELSE @]
           /\ byRoute' = RoutesWithout(s)
           /\ byKey' = byKey \ {s}
  /\ UNCHANGED <<peer, added, zeroed, keyed, recv, tun>>

Receives(s) == recv[s] \in {"opening", "sending"}
InUse(s) == Receives(s) \/ \E r \in Repo : tun[r] = [pc |-> "using", peer |-> s]

NotSending(s) ==  \* mutant: in-flight Decrypt calls are not waited for
  ~\E r \in Repo : tun[r] = [pc |-> "using", peer |-> s]
NotServed(s) ==  \* mutant: the deletion waits for the serving thread to end
  ~InUse(s) /\ (IsTCP(s) => recv[s] = "exited")
NotInUse(s) == ~InUse(s)

(* cryptoMu.Lock is granted once no Send or Decrypt is under way.          *)
ZeroizeOne(r) ==
  /\ lock[r] # None
  /\ lock[r].closing # None
  /\ NotInUse(lock[r].closing)
  /\ zeroed' = zeroed \cup {lock[r].closing}
  /\ keyed' = keyed \ {lock[r].closing}
  /\ lock' = [lock EXCEPT ![r] = IF lock[r].todo = {} THEN None
                                 ELSE DeletionOf(None, lock[r].todo, lock[r].by)]
  /\ UNCHANGED <<peer, added, closed, indexes, recv, tun>>

-----------------------------------------------------------------------------
(* Receiving. *)

(* TCP: serveClient has read a frame of its own peer.  UDP: the one thread *)
(* of the tunnel has found the peer by the route ID of a datagram.         *)
Receive(s) ==
  /\ s \in added
  /\ recv[s] = "idle"
  /\ \/ IsTCP(s) /\ s \notin closed
     \/ /\ s \in byRoute
        /\ lock[peer[s].repo] = None
        /\ \A t \in added : peer[t].repo = peer[s].repo => recv[t] = "idle"
  /\ recv' = [recv EXCEPT ![s] = "found"]
  /\ UNCHANGED <<peer, added, closed, zeroed, keyed, indexes, lock, tun>>

MayUse(s) == s \notin closed

(* Where a thread goes that gives up: on TCP it ends, on UDP it reads on.  *)
Left(s) == IF IsTCP(s) THEN "leaving" ELSE "idle"

(* Peer.Decrypt, or Peer.Send of a reply: cryptoMu, then the closed flag.  *)
RecvUse(s) ==
  /\ recv[s] \in {"found", "answering"}
  /\ recv' = [recv EXCEPT ![s] =
       IF ~MayUse(s) THEN Left(s) ELSE IF @ = "found" THEN "opening" ELSE "sending"]
  /\ UNCHANGED <<peer, added, closed, zeroed, keyed, indexes, lock, tun>>

(* cryptoMu is released.  On UDP a frame of a peer closed by now is dropped*)
(* (handleDecrypted).                                                      *)
RecvDone(s) ==
  /\ \/ /\ recv[s] = "opening"
        /\ \/ recv' = [recv EXCEPT ![s] = Left(s)]
           \/ (IsTCP(s) \/ s \notin closed) /\ recv' = [recv EXCEPT ![s] = "opened"]
     \/ /\ recv[s] = "sending"
        /\ \E next \in {"idle", Left(s)} : recv' = [recv EXCEPT ![s] = next]
  /\ UNCHANGED <<peer, added, closed, zeroed, keyed, indexes, lock, tun>>

(* The frame is data, a ping, or a service packet that changes no keys.    *)
RecvHandle(s) ==
  /\ recv[s] = "opened"
  /\ \E next \in {"idle", "answering", Left(s)} : recv' = [recv EXCEPT ![s] = next]
  /\ UNCHANGED <<peer, added, closed, zeroed, keyed, indexes, lock, tun>>

(* The frame is a rekey init: HandleRekey stages an epoch in the crypto    *)
(* without cryptoMu and without a look at the closed flag.                 *)
RecvRekey(s) ==
  /\ recv[s] = "opened"
  /\ keyed' = keyed \cup {s}
  /\ recv' = [recv EXCEPT ![s] = "answering"]
  /\ UNCHANGED <<peer, added, closed, zeroed, indexes, lock, tun>>

(* serveClient ends, on a read error (the connection, or its closing) or a *)
(* frame it could not handle, and deletes its peer.                        *)
ServeEnds(s) ==
  /\ s \in added
  /\ IsTCP(s)
  /\ recv[s] \in {"idle", "leaving"}
  /\ StartDelete(peer[s].repo, {s}, "session")
  /\ recv' = [recv EXCEPT ![s] = "exited"]
  /\ UNCHANGED <<peer, added, closed, zeroed, keyed, indexes, tun>>

ReapIdle(r) ==
  /\ r \in Datagrams
  /\ \E idle \in SUBSET ({byIP[r][a] : a \in Address} \ {None}) :
       idle # {} /\ StartDelete(r, idle, "reaper")
  /\ UNCHANGED <<peer, added, closed, zeroed, keyed, indexes, recv, tun>>

-----------------------------------------------------------------------------
(* The TUN thread: FindByDestinationIP, Peer.Send, Delete when it fails.   *)
TunFind(r) ==
  /\ tun[r].pc = "idle"
  /\ lock[r] = None
  /\ \E a \in Address :
       \E s \in {byIP[r][a], byAddr[r][a]} \ {None} :
         tun' = [tun EXCEPT ![r] = [pc |-> "found", peer |-> s]]
  /\ UNCHANGED <<peer, added, closed, zeroed, keyed, indexes, lock, recv>>

TunUse(r) ==
  /\ tun[r].pc = "found"
  /\ tun' = [tun EXCEPT ![r].pc = IF MayUse(tun[r].peer) THEN "using" ELSE "failed"]
  /\ UNCHANGED <<peer, added, closed, zeroed, keyed, indexes, lock, recv>>

TunDone(r) ==
  /\ tun[r].pc = "using"
  /\ \E next \in {TunIdle, [tun[r] EXCEPT !.pc = "failed"]} : tun' = [tun EXCEPT ![r] = next]
  /\ UNCHANGED <<peer, added, closed, zeroed, keyed, indexes, lock, recv>>

TunDrop(r) ==
  /\ tun[r].pc = "failed"
  /\ StartDelete(r, {tun[r].peer}, "tun")
  /\ tun' = [tun EXCEPT ![r] = TunIdle]
  /\ UNCHANGED <<peer, added, closed, zeroed, keyed, indexes, recv>>

-----------------------------------------------------------------------------
RepoNext ==
  \/ \E r \in Repo : \/ CloseOne(r) \/ ZeroizeOne(r) \/ ReapIdle(r)
                     \/ TunFind(r) \/ TunUse(r) \/ TunDone(r) \/ TunDrop(r)
  \/ \E s \in Session : \/ Receive(s) \/ RecvUse(s) \/ RecvDone(s)
                        \/ RecvHandle(s) \/ RecvRekey(s) \/ ServeEnds(s)

(* The threads go on.  An operation on a peer may block for as long as the *)
(* connection is open; once it is closed, reads and writes fail.           *)
RepoFairness ==
  /\ \A r \in Repo : /\ WF_repoVars(CloseOne(r)) /\ WF_repoVars(ZeroizeOne(r))
                     /\ WF_repoVars(TunUse(r))
                     /\ WF_repoVars(tun[r].peer \in closed /\ TunDone(r))
  /\ \A s \in Session : /\ WF_repoVars(RecvUse(s)) /\ WF_repoVars(RecvHandle(s))
                        /\ WF_repoVars(s \in closed /\ RecvDone(s))
                        /\ SF_repoVars(s \in closed /\ ServeEnds(s))
=============================================================================
