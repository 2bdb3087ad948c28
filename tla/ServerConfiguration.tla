------------------------- MODULE ServerConfiguration -------------------------
(***************************************************************************)
(* The configuration file of the server, the manager that the interface    *)
(* edits it through, and the server process that watches it.               *)
(*                                                                         *)
(* The two processes share the file only.  Each has a cache: the manager   *)
(* changes its cached copy in place and writes it out, which first         *)
(* truncates the file.  A client's configuration is generated in several   *)
(* updates of the file.  Writes may fail, the cache may expire within an   *)
(* operation, and the interface may die in it: all three count as flaws.   *)
(* The model has one writing process, and a person who edits ports and     *)
(* protocols by hand.                                                      *)
(***************************************************************************)
EXTENDS Naturals, FiniteSets, Sequences

CONSTANTS
  MaxRequests,    \* bound of the model: operations of the interface
  MaxHandEdits,   \* bound of the model: edits of the file by hand
  MaxFlaws,       \* bound of the model: how many things go wrong
  NoConfiguration \* stands for an empty cache

Protocols == {"TCP", "UDP"}

Configuration ==
  [peers : SUBSET [key : Nat, id : Nat, enabled : BOOLEAN], counter : Nat, keys : Nat, ipv6 : BOOLEAN,
   enabled : SUBSET Protocols, ports : [Protocols -> Nat]]

ASSUME ConfigurationAssumption ==
  /\ MaxRequests \in Nat /\ MaxHandEdits \in Nat /\ MaxFlaws \in Nat
  /\ NoConfiguration \notin Configuration

VARIABLES
  flaws,          \* how many things went wrong so far
  requests,       \* how many operations the interface has begun
  handEdits,      \* how often the file was edited by hand
  file,           \* the file: absent, partial or complete
  uiCache,        \* the TTLReader of the interface
  request,        \* the operation of the interface that is under way
  handed,         \* the clients whose configuration was handed out
  asked,          \* the clients somebody asked to remove
  daemon,         \* the server process: its cache and its allowed peers
  publicKeys      \* how many key pairs were generated

configVars == <<flaws, requests, handEdits, file, uiCache, request, handed, asked, daemon, publicKeys>>

(* The ports of the defaults are 1 and 2; 0 is a port that is not set.     *)
DefaultPort == [TCP |-> 1, UDP |-> 2]

(* New and ApplyServerDefaults *)
DefaultConfiguration ==
  [peers |-> {}, counter |-> 0, keys |-> 0, ipv6 |-> FALSE,
   enabled |-> {"UDP"}, ports |-> [p \in Protocols |-> 0]]

WithDefaults(c) ==
  [c EXCEPT !.ports = [p \in Protocols |-> IF @[p] = 0 THEN DefaultPort[p] ELSE @[p]]]

-----------------------------------------------------------------------------
(* Validation. *)

Distinctly(set, Attr(_)) == \A x, y \in set : x # y => Attr(x) # Attr(y)

PortsValid(c) == Distinctly(c.enabled, LAMBDA p : c.ports[p])

PeersValid(c) ==
  /\ \A p \in c.peers : p.id > 0
  /\ Distinctly(c.peers, LAMBDA p : p.id)
  /\ Distinctly(c.peers, LAMBDA p : p.key)

Valid(c) == PortsValid(c) /\ PeersValid(c)

-----------------------------------------------------------------------------
(* Reading.  TTLReader returns its copy until it expires.                  *)

FromDisk == WithDefaults(file.conf)
OnDiskReadable == file.state = "complete" /\ Valid(FromDisk)

Readable(cache) == cache # NoConfiguration \/ OnDiskReadable
Read(cache) == IF cache # NoConfiguration THEN cache ELSE FromDisk

NoRequest == [kind |-> "none", step |-> "none", id |-> 0, client |-> 0, conf |-> NoConfiguration]

ConfigInit ==
  /\ flaws = 0 /\ requests = 0 /\ handEdits = 0
  /\ file = [state |-> "absent", conf |-> NoConfiguration, author |-> "nobody"]
  /\ uiCache = NoConfiguration
  /\ request = NoRequest
  /\ handed = {} /\ asked = {}
  /\ daemon = [up |-> FALSE, cache |-> NoConfiguration, peers |-> {}]
  /\ publicKeys = 0

Flaw == flaws < MaxFlaws /\ flaws' = flaws + 1

-----------------------------------------------------------------------------
(* Operations of the interface and their steps, in order.  "read" and      *)
(* "reread" are the generator's own look at the configuration, "save"      *)
(* writes the configuration of the client to a file of its own.            *)

StepsOf(kind) ==
  CASE kind = "generate" -> <<"keys", "read", "ipv6", "reread", "count", "add", "save">>
    [] kind = "enable" -> <<"enable">>
    [] kind = "disable" -> <<"disable">>
    [] kind = "remove" -> <<"remove">>

StepFollowing(kind, step) ==
  LET steps == StepsOf(kind)
      i == CHOOSE j \in DOMAIN steps : steps[j] = step
  IN  IF i = Len(steps) THEN "none" ELSE steps[i + 1]

Advanced ==
  LET following == StepFollowing(request.kind, request.step)
  IN  IF following = "none" THEN NoRequest
      ELSE [request EXCEPT !.step = following, !.conf = NoConfiguration]

Begin(kind, id) ==
  /\ request = NoRequest
  /\ requests < MaxRequests
  /\ requests' = requests + 1
  /\ request' = [NoRequest EXCEPT !.kind = kind, !.step = Head(StepsOf(kind)), !.id = id]
  /\ asked' = IF kind = "remove" THEN asked \cup {id} ELSE asked
  /\ UNCHANGED <<flaws, handEdits, file, uiCache, handed, daemon, publicKeys>>

NextClientIDByCount(c) == Cardinality(c.peers) + 1  \* mutant: the ID follows from the number of peers
NextClientID(c) == c.counter + 1

PeersWith(c, id, on) ==
  {IF p.id = id THEN [p EXCEPT !.enabled = on] ELSE p : p \in c.peers}

Known(c) == \E p \in c.peers : p.id = request.id

(* What the function that is passed to update makes of the configuration.  *)
Updated(c) ==
  CASE request.step = "keys" -> [c EXCEPT !.keys = publicKeys + 1]
    [] request.step = "ipv6" -> [c EXCEPT !.ipv6 = TRUE]
    [] request.step = "count" -> [c EXCEPT !.counter = @ + 1]
    [] request.step = "add" ->
         [c EXCEPT !.peers = @ \cup {[key |-> publicKeys + 1, id |-> request.id, enabled |-> TRUE]}]
    [] request.step = "enable" -> [c EXCEPT !.peers = PeersWith(c, request.id, TRUE)]
    [] request.step = "disable" -> [c EXCEPT !.peers = PeersWith(c, request.id, FALSE)]
    [] request.step = "remove" -> [c EXCEPT !.peers = {p \in @ : p.id # request.id}]

DrawsKey == request.step \in {"keys", "add"}
OnlyReads == request.step \in {"read", "reread"}

(* PrepareKeys and EnsureIPv6Subnets find nothing to do.                   *)
UpToDate(c) ==
  \/ request.step = "keys" /\ c.keys # 0
  \/ request.step = "ipv6" /\ c.ipv6

Refused(c) == request.step \in {"enable", "disable", "remove"} /\ ~Known(c)

(* Configuration: the default is written when there is no file.            *)
NoFileYet == uiCache = NoConfiguration /\ file.state = "absent"

(* update: read, change the cached copy, write.  Opening the file          *)
(* truncates it; a failure leaves the changed copy in the cache.           *)
Update ==
  LET c == Updated(Read(uiCache)) IN
  /\ request.step \notin {"none", "save"} /\ ~OnlyReads
  /\ request.conf = NoConfiguration
  /\ ~NoFileYet /\ Readable(uiCache)
  /\ ~Refused(Read(uiCache))
  /\ ~UpToDate(Read(uiCache))
  /\ uiCache' = c
  /\ publicKeys' = IF DrawsKey THEN publicKeys + 1 ELSE publicKeys
  /\ \/ /\ file' = [file EXCEPT !.state = "partial"]
        /\ request' = [request EXCEPT !.conf = c,
                         !.client = IF request.step = "add" THEN publicKeys + 1 ELSE @]
        /\ flaws' = flaws
     \/ /\ Flaw
        /\ request' = NoRequest
        /\ file' = file
  /\ UNCHANGED <<requests, handEdits, handed, asked, daemon>>

CreateDefault ==
  /\ request.step \notin {"none", "save"}
  /\ request.conf = NoConfiguration
  /\ NoFileYet
  /\ file' = [file EXCEPT !.state = "partial"]
  /\ request' = [request EXCEPT !.conf = WithDefaults(DefaultConfiguration)]
  /\ UNCHANGED <<flaws, requests, handEdits, uiCache, handed, asked, daemon, publicKeys>>

WriteEnds ==
  /\ request.conf # NoConfiguration
  /\ file' = [state |-> "complete", conf |-> request.conf, author |-> "manager"]
  /\ request' = IF request.conf = WithDefaults(DefaultConfiguration)
                  THEN [request EXCEPT !.conf = NoConfiguration] ELSE Advanced
  /\ UNCHANGED <<flaws, requests, handEdits, uiCache, handed, asked, daemon, publicKeys>>

WriteFails ==
  /\ request.conf # NoConfiguration
  /\ Flaw
  /\ request' = NoRequest
  /\ UNCHANGED <<requests, handEdits, file, uiCache, handed, asked, daemon, publicKeys>>

(* Nothing to write.  A host without IPv6 takes the ID from the first look *)
(* at the configuration, one with IPv6 from the second.                    *)
ReadOn ==
  /\ request.step # "none"
  /\ request.conf = NoConfiguration
  /\ ~NoFileYet /\ Readable(uiCache)
  /\ OnlyReads \/ UpToDate(Read(uiCache))
  /\ uiCache' = Read(uiCache)
  /\ request' \in
       {[r EXCEPT !.id = IF OnlyReads THEN NextClientID(Read(uiCache)) ELSE @]
          : r \in {Advanced} \cup (IF request.step = "read" THEN {[request EXCEPT !.step = "count"]} ELSE {})}
  /\ UNCHANGED <<flaws, requests, handEdits, file, handed, asked, daemon, publicKeys>>

(* The file cannot be read, or there is no such peer. *)
Refuse ==
  /\ request.step \notin {"none", "save"}
  /\ request.conf = NoConfiguration
  /\ ~NoFileYet
  /\ IF Readable(uiCache)
       THEN Refused(Read(uiCache)) /\ uiCache' = Read(uiCache)
       ELSE UNCHANGED uiCache
  /\ request' = NoRequest
  /\ UNCHANGED <<flaws, requests, handEdits, file, handed, asked, daemon, publicKeys>>

Save ==
  /\ request.step = "save"
  /\ \/ handed' = handed \cup {[id |-> request.id, key |-> request.client]} /\ flaws' = flaws
     \/ Flaw /\ handed' = handed
  /\ request' = NoRequest
  /\ UNCHANGED <<requests, handEdits, file, uiCache, asked, daemon, publicKeys>>

-----------------------------------------------------------------------------
(* Time, death of the interface, and the editor.                           *)

Expires ==
  /\ uiCache # NoConfiguration
  /\ IF request = NoRequest THEN flaws' = flaws ELSE Flaw
  /\ uiCache' = NoConfiguration
  /\ UNCHANGED <<requests, handEdits, file, request, handed, asked, daemon, publicKeys>>

InterfaceDies ==
  /\ request # NoRequest
  /\ Flaw
  /\ request' = NoRequest
  /\ uiCache' = NoConfiguration
  /\ UNCHANGED <<requests, handEdits, file, handed, asked, daemon, publicKeys>>

HandEdit ==
  /\ handEdits < MaxHandEdits
  /\ handEdits' = handEdits + 1
  /\ file.state = "complete"
  /\ \E enabled \in {{"UDP"}, Protocols}, port \in {0, 2} :
       file' = [file EXCEPT !.conf.enabled = enabled, !.conf.ports["TCP"] = port, !.author = "person"]
  /\ UNCHANGED <<flaws, requests, uiCache, request, handed, asked, daemon, publicKeys>>

-----------------------------------------------------------------------------
(* The server process.  It begins with keys in the file (see README).      *)

DaemonStarts ==
  /\ ~daemon.up
  /\ OnDiskReadable /\ FromDisk.keys # 0
  /\ daemon' = [up |-> TRUE, cache |-> FromDisk, peers |-> FromDisk.peers]
  /\ UNCHANGED <<flaws, requests, handEdits, file, uiCache, request, handed, asked, publicKeys>>

InvalidatedNot(cache) == cache  \* mutant: the watcher trusts the cached copy
Invalidated(cache) == NoConfiguration

(* A change of the file that fsnotify reports, or the ticker.              *)
CheckAndRevoke ==
  LET cache == Invalidated(daemon.cache) IN
  /\ daemon.up
  /\ daemon' = IF Readable(cache)
       THEN [daemon EXCEPT !.cache = Read(cache), !.peers = Read(cache).peers]
       ELSE [daemon EXCEPT !.cache = cache]
  /\ UNCHANGED <<flaws, requests, handEdits, file, uiCache, request, handed, asked, publicKeys>>

-----------------------------------------------------------------------------
Operations ==
  \/ Begin("generate", 0)
  \/ \E kind \in {"enable", "disable", "remove"}, id \in {h.id : h \in handed} \cup {1} : Begin(kind, id)

ConfigNext ==
  \/ Operations \/ Update \/ CreateDefault \/ WriteEnds \/ WriteFails \/ ReadOn \/ Refuse \/ Save
  \/ Expires \/ InterfaceDies \/ HandEdit
  \/ DaemonStarts \/ CheckAndRevoke

ConfigSpec == ConfigInit /\ [][ConfigNext]_configVars

(* The ticker goes on. *)
ConfigFairSpec == ConfigSpec /\ WF_configVars(CheckAndRevoke)

-----------------------------------------------------------------------------
(* Types, and: what a manager has written can be read again, whatever      *)
(* failed before; no two clients ever get the same ID, also when one was   *)
(* removed in between; and a client that got its configuration stays in    *)
(* the file unless somebody asked to remove it.                            *)
ConfigTypes ==
  /\ flaws \in 0 .. MaxFlaws /\ requests \in 0 .. MaxRequests /\ handEdits \in 0 .. MaxHandEdits
  /\ file.state \in {"absent", "partial", "complete"}
  /\ publicKeys \in Nat

ConfigurationSound ==
  /\ ConfigTypes
  /\ file.state = "complete" /\ file.author = "manager" => Valid(FromDisk)
  /\ Distinctly(handed, LAMBDA h : h.id)
  /\ file.state = "complete" =>
       \A h \in handed : h.id \notin asked =>
         \E p \in file.conf.peers : p.id = h.id /\ p.key = h.key

(* What is in the file reaches the running server, also when the server    *)
(* has met a file that was only half written or not valid.                 *)
RuntimeFollowsFile ==
  <>[](daemon.up /\ OnDiskReadable => daemon.peers = FromDisk.peers)
=============================================================================
