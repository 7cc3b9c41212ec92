--------------------------- MODULE MCRefundSweep ---------------------------
(* RefundSweep on a small instance. *)
EXTENDS RefundSweep
============================================================================
