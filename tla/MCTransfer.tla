----------------------------- MODULE MCTransfer -----------------------------
(* Small instances of Transfer for TLC. *)
EXTENDS Transfer, TLC

CONSTANT f1

\* The file arrives in two pieces.
SizeTwo == f1 :> 2
=============================================================================
