----------------------------- MODULE JobLedger -----------------------------
(***************************************************************************)
(* What RedundantTier, StandardTier and RefundSweep have in common: the    *)
(* jobs of TokenomicsEngine._jobs, what may become of one of them, and how *)
(* often the process that keeps them writes them to disk and dies.         *)
(***************************************************************************)
EXTENDS Integers, FiniteSets

CONSTANTS
  Jobs,              \* job ids
  NoJob,             \* what an idle thread works on
  MaxSaves,          \* bound: snapshots written
  MaxCrashes         \* bound: process crashes

ASSUME NoJobAssumption == NoJob \notin Jobs
ASSUME SavesAssumption == {MaxSaves, MaxCrashes} \subseteq Nat
----------------------------------------------------------------------------
(***************************************************************************)
(* A job's fate is what the refund sweep reads of it: its status, and      *)
(* whether a refund is recorded (refund_oby > 0).  A job nobody submitted, *)
(* or that a crash forgot, is lost.                                        *)
(***************************************************************************)
Fate == [status: {"lost", "open", "done", "faulted", "disputed"}, owed: BOOLEAN]
Lost == [status |-> "lost", owed |-> FALSE]

FateOf(j) ==
  [status |-> IF j.status = "absent" THEN "lost"
              ELSE IF j.status \in {"pending", "assigned"} THEN "open" ELSE j.status,
   owed   |-> j.refund]

(***************************************************************************)
(* What a critical section may make of a fate.  A job that was settled is  *)
(* never open again; any job may fault, by a lost challenge or a miner's   *)
(* own report; one that faulted may still pass, but one in dispute may     *)
(* not; and a refund, once owed, stays owed.                               *)
(***************************************************************************)
Follows(f, g) ==
  \/ g = f \/ g = "faulted"
  \/ g = "done" /\ f # "disputed"
  \/ g = "disputed" /\ f = "open"

Fates(f) ==
  IF f.status = "lost" THEN {[status |-> "open", owed |-> FALSE]}
  ELSE {g \in Fate : /\ Follows(f.status, g.status)
                     /\ g.owed = f.owed \/ (g.owed /\ g.status # "open")}
============================================================================
