------------------------------ MODULE MCChain ------------------------------
(* Chain on a small instance. *)
EXTENDS Chain, TLC
Symmetry == Permutations(Txs) \cup Permutations(Blocks)
============================================================================
