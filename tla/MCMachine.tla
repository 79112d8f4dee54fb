------------------------------- MODULE MCMachine -------------------------------
(* Small instances of Machine for TLC. *)
EXTENDS Machine, TLC

Symmetry == Permutations(Programs) \cup Permutations(Keys) \cup Permutations(Devices)
=============================================================================
