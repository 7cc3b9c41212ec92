-------------------------- MODULE MCRedundantTier --------------------------
(* RedundantTier on a small instance. *)
EXTENDS RedundantTier, TLC
Symmetry == Permutations(Miners) \cup Permutations(Hashes)
============================================================================
