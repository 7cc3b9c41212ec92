------------------------------ MODULE MCGossip ------------------------------
(* Gossip on small instances. *)
EXTENDS Gossip, TLC

CONSTANTS n1, n2, n3, b1, b2, t1
Star == (n1 :> {}) @@ (n2 :> {n1}) @@ (n3 :> {n1})
Line == (n1 :> {}) @@ (n2 :> {n1})
=============================================================================
