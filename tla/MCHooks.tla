------------------------------ MODULE MCHooks -------------------------------
(* Instances of Hooks for TLC. *)
EXTENDS Hooks, TLC

Sessions == Permutations(Session)
=============================================================================
