----------------------------- MODULE MCPlayerDB -----------------------------
(* Instances of PlayerDB for TLC. *)
EXTENDS PlayerDB, TLC

Symmetry == Permutations(Instances) \cup Permutations(Players)
=============================================================================
