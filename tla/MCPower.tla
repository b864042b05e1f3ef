------------------------------- MODULE MCPower -------------------------------
(* Instances of Power for TLC. *)
EXTENDS Power, TLC

Symmetry == Permutations(Apps)
=============================================================================
