---------------------------- MODULE MCClientRoute ----------------------------
(* ClientRuntime with a server that the settings name by its domain only. *)
EXTENDS ClientRuntime

DomainOnly == {[domain |-> TRUE, v4 |-> FALSE, v6 |-> FALSE]}
DualStack == {{"v4", "v6"}}
Literal == {[domain |-> FALSE, v4 |-> TRUE, v6 |-> b] : b \in BOOLEAN}
=============================================================================
