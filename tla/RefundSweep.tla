---------------------------- MODULE RefundSweep ----------------------------
(***************************************************************************)
(* What happens to a refund that a verdict has promised:                   *)
(* TokenomicsEngine.process_pending_refunds, run by the refund-sweep       *)
(* thread of node/fullnode.py.  For one job after another it sells the     *)
(* owed OBY into the AMM pool (engine lock), credits the developer in      *)
(* accounts.db (SQLite, committed at once) and marks the job settled       *)
(* (engine lock).  Three stores, three lifetimes:                          *)
(*                                                                         *)
(*   refund    memory, copied to tokenomics_state.json every 30 s          *)
(*   credits   accounts.db, durable at every call                          *)
(*   seeded    the pool, memory only: load() does not restore it           *)
(*                                                                         *)
(* Between two steps of the sweep the other threads of the engine go on    *)
(* changing the jobs it is walking.                                        *)
(***************************************************************************)
EXTENDS JobLedger

CONSTANT MaxFailures \* bound: credits that raise (a locked or full database)

ASSUME FailureAssumption == MaxFailures \in Nat

VARIABLES
  refund,    \* _jobs: status, refund_oby > 0 and refund_settled
  seeded,    \* pool.basket_usd_reserve >= MIN_LIQUIDITY
  accounts,  \* the jobs whose developer_addr get_by_id finds in accounts.db
  credits,   \* credit_refund calls committed for each job
  sold,      \* swaps of each job's refund made since the process started
  sweep,     \* where the refund-sweep thread is
  refundDisk,\* the jobs of tokenomics_state.json
  refundEnv  \* how often the environment has acted (bounds only)

refundVars == <<refund, seeded, accounts, credits, sold, sweep, refundDisk, refundEnv>>

RefundRecord ==
  [status: {"lost", "open", "done", "faulted", "disputed"}, owed: BOOLEAN, settled: BOOLEAN]

NoRefund == [status |-> "lost", owed |-> FALSE, settled |-> FALSE]

Sweep ==
  [at: {"idle", "sell", "credit", "mark"}, todo: SUBSET Jobs, job: Jobs \cup {NoJob}]

SweepIdle == [at |-> "idle", todo |-> {}, job |-> NoJob]
Walk(todo) == [at |-> "sell", todo |-> todo, job |-> NoJob]
On(place, j) == [at |-> place, todo |-> sweep.todo, job |-> j]
----------------------------------------------------------------------------
(***************************************************************************)
(* The other threads, as far as the sweep can tell: whatever JobFates lets *)
(* a job's status and refund do, one critical section at a time.           *)
(***************************************************************************)
Others(j) ==
  /\ \E f \in Fates([status |-> refund[j].status, owed |-> refund[j].owed]) :
       refund' = [refund EXCEPT ![j].status = f.status, ![j].owed = f.owed]
  /\ UNCHANGED <<seeded, accounts, credits, sold, sweep, refundDisk, refundEnv>>

\* somebody adds liquidity
SeedPool ==
  /\ ~seeded
  /\ seeded' = TRUE
  /\ UNCHANGED <<refund, accounts, credits, sold, sweep, refundDisk, refundEnv>>
----------------------------------------------------------------------------
(***************************************************************************)
(* process_pending_refunds                                                 *)
(***************************************************************************)
CandidatesAlways == {j \in Jobs : refund[j].owed /\ refund[j].status = "faulted"}
CandidatesUnsold == {j \in CandidatesAlways : ~refund[j].settled /\ sold[j] = 0}
Candidates == {j \in Jobs : refund[j].owed /\ ~refund[j].settled /\ refund[j].status = "faulted"}

Snapshot ==
  /\ sweep.at = "idle"
  /\ Candidates # {}
  /\ sweep' = Walk(Candidates)
  /\ UNCHANGED <<refund, seeded, accounts, credits, sold, refundDisk, refundEnv>>

\* sell_oby; nothing of the snapshot's condition is looked at again, and what
\* is paid out may leave the pool below its minimum
Sell(j) ==
  /\ sweep.at = "sell" /\ j \in sweep.todo
  /\ seeded
  /\ seeded' \in BOOLEAN
  /\ sold' = [sold EXCEPT ![j] = @ + 1]
  /\ sweep' = On("credit", j)
  /\ UNCHANGED <<refund, accounts, credits, refundDisk, refundEnv>>

\* the except clause: count the error and go on with the next job
AfterErrorMark(j) == On("mark", j)
AfterError(j) == Walk(sweep.todo \ {j})

\* "Pool not seeded yet"
SellFails(j) ==
  /\ sweep.at = "sell" /\ j \in sweep.todo
  /\ ~seeded
  /\ sweep' = AfterError(j)
  /\ UNCHANGED <<refund, seeded, accounts, credits, sold, refundDisk, refundEnv>>

\* get_by_id and credit_refund; without an account nobody is credited
Credit ==
  LET j == sweep.job IN
  /\ sweep.at = "credit"
  /\ credits' = IF j \in accounts THEN [credits EXCEPT ![j] = @ + 1] ELSE credits
  /\ sweep' = On("mark", j)
  /\ UNCHANGED <<refund, seeded, accounts, sold, refundDisk, refundEnv>>

\* credit_refund raises and is rolled back; the swap is not
CreditFails ==
  /\ sweep.at = "credit"
  /\ sweep.job \in accounts
  /\ refundEnv.failures < MaxFailures
  /\ sweep' = AfterError(sweep.job)
  /\ refundEnv' = [refundEnv EXCEPT !.failures = @ + 1]
  /\ UNCHANGED <<refund, seeded, accounts, credits, sold, refundDisk>>

Mark ==
  /\ sweep.at = "mark"
  /\ refund' = [refund EXCEPT ![sweep.job].settled = TRUE]
  /\ sweep' = Walk(sweep.todo \ {sweep.job})
  /\ UNCHANGED <<seeded, accounts, credits, sold, refundDisk, refundEnv>>

SweepEnds ==
  /\ sweep.at = "sell" /\ sweep.todo = {}
  /\ sweep' = SweepIdle
  /\ UNCHANGED <<refund, seeded, accounts, credits, sold, refundDisk, refundEnv>>
----------------------------------------------------------------------------
SaveRefunds ==
  /\ refundEnv.saves < MaxSaves
  /\ refundDisk' = refund
  /\ refundEnv' = [refundEnv EXCEPT !.saves = @ + 1]
  /\ UNCHANGED <<refund, seeded, accounts, credits, sold, sweep>>

\* what the ledger holds when no job was saved, or the file was cut short
LostRefunds == [j \in Jobs |-> NoRefund]

\* the ledger goes back to the last snapshot, the pool to nothing; accounts.db
\* keeps what was committed
RefundsCrash ==
  /\ refundEnv.crashes < MaxCrashes
  /\ refund' \in {refundDisk, LostRefunds}
  /\ refundDisk' = refund'
  /\ seeded' = FALSE
  /\ sold' = [j \in Jobs |-> 0]
  /\ sweep' = SweepIdle
  /\ refundEnv' = [refundEnv EXCEPT !.crashes = @ + 1]
  /\ UNCHANGED <<accounts, credits>>

RefundsInit ==
  /\ refund = LostRefunds
  /\ seeded \in BOOLEAN
  /\ accounts \in SUBSET Jobs
  /\ credits = [j \in Jobs |-> 0]
  /\ sold = [j \in Jobs |-> 0]
  /\ sweep = SweepIdle
  /\ refundDisk = LostRefunds
  /\ refundEnv = [saves |-> 0, crashes |-> 0, failures |-> 0]

RefundThread ==
  \/ Snapshot \/ Credit \/ CreditFails \/ Mark \/ SweepEnds
  \/ \E j \in Jobs : Sell(j) \/ SellFails(j)

OtherThreads == \E j \in Jobs : Others(j)

RefundsNext == RefundThread \/ OtherThreads \/ SeedPool \/ SaveRefunds \/ RefundsCrash

(***************************************************************************)
(* The sweep loops for ever: its body is wrapped in try/except and the     *)
(* process lives until it crashes.  Nothing else is owed.                  *)
(***************************************************************************)
RefundsSpec == RefundsInit /\ [][RefundsNext]_refundVars
FairRefundsSpec == RefundsSpec /\ WF_refundVars(RefundThread)
----------------------------------------------------------------------------
(* Properties *)

\* RefundsTypeOK: every record has its shape, and the thread has a job in hand
\* exactly when it is between a swap and its mark
RefundsTypeOK ==
  /\ refund \in [Jobs -> RefundRecord]
  /\ refundDisk \in [Jobs -> RefundRecord]
  /\ seeded \in BOOLEAN
  /\ accounts \subseteq Jobs
  /\ credits \in [Jobs -> Nat] /\ sold \in [Jobs -> Nat]
  /\ sweep \in Sweep
  /\ sweep.at \in {"credit", "mark"} <=> sweep.job # NoJob
  /\ refundEnv \in [saves: Nat, crashes: Nat, failures: Nat]

\* SettledWasCredited: a job marked settled, in memory or on disk, was
\* credited in accounts.db if its developer has an account, whatever failed
\* or crashed on the way
SettledWasCredited ==
  \A j \in accounts : refund[j].settled \/ refundDisk[j].settled => credits[j] > 0

\* CreditedOncePerLife: one life of the process credits a refund at most once
CreditedOncePerLife == \A j \in Jobs : credits[j] <= 1 + refundEnv.crashes

\* CreditsBacked: until the process dies, nobody is credited without a swap
CreditsBacked == refundEnv.crashes = 0 => \A j \in Jobs : credits[j] <= sold[j]

\* FaultsRefunded: an owed refund of a faulted job is settled, unless the job
\* passes after all, the pool is not seeded, or the node crashes
FaultsRefunded ==
  \A j \in Jobs :
    refund[j].status = "faulted" /\ refund[j].owed
      ~> (refund[j].settled \/ refund[j].status # "faulted" \/ ~seeded \/ refundEnv.crashes > 0)

(***************************************************************************)
(* The inductive strengthening of the three invariants above.              *)
(***************************************************************************)
\* what the thread has done for the jobs it has not marked yet
CreditsSoFar(j) ==
  IF refund[j].settled \/ (sweep.at = "mark" /\ sweep.job = j)
  THEN credits[j] <= 1 + refundEnv.crashes ELSE credits[j] <= refundEnv.crashes

RefundsInv ==
  /\ RefundsTypeOK
  /\ sweep.at = "idle" => sweep.todo = {}
  /\ sweep.at \in {"credit", "mark"} => sweep.job \in sweep.todo
  /\ \A j \in sweep.todo : ~refund[j].settled
  /\ sweep.at = "mark" /\ sweep.job \in accounts => credits[sweep.job] > 0
  /\ SettledWasCredited
  /\ \A j \in Jobs : CreditsSoFar(j)
  /\ refundEnv.crashes = 0 =>
       \A j \in Jobs :
         credits[j] <= sold[j] - (IF sweep.at = "credit" /\ sweep.job = j THEN 1 ELSE 0)
============================================================================
