------------------------------- MODULE MCGas -------------------------------
(* Gas on a small instance. *)
EXTENDS Gas, TLC
============================================================================
