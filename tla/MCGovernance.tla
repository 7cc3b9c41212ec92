---------------------------- MODULE MCGovernance ----------------------------
(* Governance on a small instance: one proposal of any kind and three voters; *)
(* the smallest meets no quorum, and only all of them the constitutional one. *)
EXTENDS Governance, TLC

CONSTANTS v1, v2, v3
MCWeight == (v1 :> 1) @@ (v2 :> 2) @@ (v3 :> 5)
Symmetry == Permutations(Callers)
=============================================================================
