----------------------------- MODULE MCPayments -----------------------------
(* Payments on a small instance: two transfers in one transaction and one in *)
(* another, two developers, two jobs of the first.                           *)
EXTENDS Payments, TLC

CONSTANTS d1, d2, d3, x1, x2, dev1, dev2, j1, j2
MCTxOf == (d1 :> x1) @@ (d2 :> x1) @@ (d3 :> x2)
MCToAccount == (d1 :> dev1) @@ (d2 :> dev2) @@ (d3 :> dev1)
MCOwnerOf == (j1 :> dev1) @@ (j2 :> dev1)
=============================================================================
