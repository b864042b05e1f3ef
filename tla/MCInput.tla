------------------------------ MODULE MCInput ------------------------------
(* The clients are alike: nothing of the model tells one from another. *)
EXTENDS Input, TLC
ClientSymmetry == Permutations(Clients)
=============================================================================
