----------------------------- MODULE MCContract -----------------------------
(* Instances of Contract for TLC. *)
EXTENDS Contract, TLC

Symmetry == Permutations(ItemId)
=============================================================================
