------------------------------ MODULE MCPairing ------------------------------
(* Small instances of Pairing for TLC: two devices, whose pings overlap. *)
EXTENDS Pairing
=============================================================================
