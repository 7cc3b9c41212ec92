-------------------------- MODULE MCStandardTier --------------------------
(* StandardTier on a small instance. *)
EXTENDS StandardTier, TLC
Symmetry == Permutations(Jobs) \cup Permutations(Miners) \cup Permutations(Challenges)
============================================================================
