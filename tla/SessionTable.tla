---------------------------- MODULE SessionTable ----------------------------
(***************************************************************************)
(* What the session repositories of the server promise: a table that gives *)
(* each address of a tunnel at most one session, the live one.  A session  *)
(* enters once, when its address is free, and is live until it is removed; *)
(* it never comes back.                                                    *)
(***************************************************************************)
CONSTANTS Repo, Address, Session, None

VARIABLES
  table,    \* the session that packets for an address go to, or None
  live,     \* the sessions that send and receive
  entered   \* the sessions that were ever in the table

tableVars == <<table, live, entered>>

TableInit ==
  /\ table = [r \in Repo |-> [a \in Address |-> None]]
  /\ live = {}
  /\ entered = {}

Enter(r, a, s) ==
  /\ table[r][a] = None
  /\ s \notin entered
  /\ table' = [table EXCEPT ![r][a] = s]
  /\ live' = live \cup {s}
  /\ entered' = entered \cup {s}

Leave(r, a) ==
  /\ table[r][a] # None
  /\ table' = [table EXCEPT ![r][a] = None]
  /\ live' = live \ {table[r][a]}
  /\ UNCHANGED entered

TableNext ==
  \E r \in Repo, a \in Address :
    Leave(r, a) \/ \E s \in Session : Enter(r, a, s)

TableSpec == TableInit /\ [][TableNext]_tableVars
=============================================================================
