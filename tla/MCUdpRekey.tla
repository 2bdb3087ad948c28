----------------------------- MODULE MCUdpRekey -----------------------------
(* Model-checking instance of UdpRekey. *)
EXTENDS UdpRekeyInv
=============================================================================
