-------------------------- MODULE MCServerSessions --------------------------
(* Model-checking instance of ServerSessions. *)
EXTENDS ServerSessions, TLC

SessionSymmetry == Permutations(Session)
=============================================================================
