------------------------------ MODULE MCWinDnsSd ------------------------------
(* Small instances of WinDnsSd for TLC. *)
EXTENDS WinDnsSd, TLC

Symmetry == Permutations(Contexts) \cup Permutations(Peers)
=============================================================================
