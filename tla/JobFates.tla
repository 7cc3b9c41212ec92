------------------------------ MODULE JobFates ------------------------------
(***************************************************************************)
(* What the two tiers promise the refund sweep.  RedundantTier and         *)
(* StandardTier implement this module, each for its own jobs; RefundSweep  *)
(* lets every job it walks take the steps allowed here, and no others.     *)
(***************************************************************************)
EXTENDS JobLedger

VARIABLES
  fate,      \* what became of each job
  saved      \* the same in tokenomics_state.json

\* one critical section of a handler, a callback or a sweep
Decide(j) ==
  /\ \E f \in Fates(fate[j]) : fate' = [fate EXCEPT ![j] = f]
  /\ UNCHANGED saved

Save ==
  /\ saved' = fate
  /\ UNCHANGED fate

\* a snapshot that was cut short is rejected, and the ledger starts empty
Crash ==
  /\ fate' \in {saved, [j \in Jobs |-> Lost]}
  /\ saved' = fate'

Init == fate = [j \in Jobs |-> Lost] /\ saved = fate
Next == Save \/ Crash \/ \E j \in Jobs : Decide(j)
Spec == Init /\ [][Next]_<<fate, saved>>
============================================================================
