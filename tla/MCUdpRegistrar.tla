--------------------------- MODULE MCUdpRegistrar ---------------------------
(* Model-checking instance of UdpRegistrar. *)
EXTENDS UdpRegistrar, TLC
=============================================================================
