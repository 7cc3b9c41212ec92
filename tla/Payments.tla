------------------------------ MODULE Payments ------------------------------
(***************************************************************************)
(* A developer's dollars, from a token transfer on a public chain to the   *)
(* destination wallets: the deposit watcher (payments/deposit_watcher.py), *)
(* the balances (accounts/registry.py), charges and refunds                *)
(* (payments/manager.py) and the daily settlement (payments/settlement.py).*)
(*                                                                         *)
(* Three stores survive a crash and are written one after the other:       *)
(* accounts.db, settlement.db and the watcher's cursor file.  Three        *)
(* threads work on them: the watcher's loop, the settlement's loop and     *)
(* whoever serves the developers' jobs.                                    *)
(*                                                                         *)
(* Every transfer is worth one unit and every job costs one.  There is one *)
(* coin on one network: the watcher's loops over them are the same scan    *)
(* again.  Amounts below the minimum deposit are not transfers here.       *)
(***************************************************************************)
EXTENDS Integers, FiniteSets, FiniteSetsExt, Functions

CONSTANTS
  Transfers, TxOf,     \* transfers to deposit addresses; their transactions
  Accounts, Founders,  \* the accounts; those that registered long ago
  ToAccount,           \* the account whose address a transfer pays
  Jobs, OwnerOf,       \* jobs and who has to pay for them
  Nil,
  MaxRange,            \* MAX_BLOCKS_PER_POLL
  MinSettle,           \* MIN_SETTLEMENT_USD
  MaxTrouble,          \* bound: RPC calls and database writes that fail
  MaxCrashes           \* bound

ASSUME PaymentsAssumption ==
  /\ IsFiniteSet(Transfers) /\ IsFiniteSet(Accounts) /\ IsFiniteSet(Jobs)
  /\ DOMAIN TxOf = Transfers
  /\ ToAccount \in [Transfers -> Accounts] /\ OwnerOf \in [Jobs -> Accounts]
  /\ Nil \notin Transfers /\ Founders \subseteq Accounts
  /\ MaxRange \in Nat \ {0} /\ {MinSettle, MaxTrouble, MaxCrashes} \subseteq Nat

VARIABLES
  block,    \* the confirmed block of each transfer, 0 when there is none yet
  watcher,  \* the watch loop's memory
  cursor,   \* watcher_state.json
  users,    \* accounts.db: the accounts registered so far
  balance,  \* accounts.db: balance_usd
  credits,  \* accounts.db: the deposits credited, by transfer
  job,      \* how far each job's payment is
  ledger,   \* settlement.db: the allocations of jobs, open and settled
  settler,  \* the settlement loop's memory
  paid,     \* how often each allocation was part of the transfers out
  ghost     \* bounds, and what the properties need to know of the past

vars == <<block, watcher, cursor, users, balance, credits, job, ledger, settler, paid, ghost>>
watching == <<watcher, cursor>>
accounts == <<users, balance, credits>>
settling == <<ledger, settler, paid>>

Watching(last) ==
  [last |-> last, seen |-> {}, at |-> "idle", for |-> {}, to |-> 0, todo |-> {}, now |-> Nil]
Stopped(w) == [Watching(w.last) EXCEPT !.seen = w.seen]
Resting == [at |-> "idle", totals |-> {}, pending |-> {}]

Txs == {TxOf[t] : t \in Transfers}
Head == Max({block[t] : t \in Transfers} \cup {0})
----------------------------------------------------------------------------
(***************************************************************************)
(* Deposits                                                                *)
(***************************************************************************)
\* whoever registers gets the deposit addresses at once
Register(a) ==
  /\ a \notin users
  /\ users' = users \cup {a}
  /\ UNCHANGED <<block, watching, balance, credits, job, settling, ghost>>

\* a transaction with one or several transfers is confirmed in a new block
Deposit(x) ==
  /\ \A t \in Transfers : TxOf[t] = x => block[t] = 0 /\ ToAccount[t] \in users
  /\ block' = [t \in Transfers |-> IF TxOf[t] = x THEN Head + 1 ELSE block[t]]
  /\ UNCHANGED <<watching, accounts, job, settling, ghost>>

\* a round begins with the addresses there are; the networks' blocks are asked
\* for after that, one network at a time
ReadAddresses ==
  /\ watcher.at = "idle"
  /\ users # {}
  /\ watcher' = [watcher EXCEPT !.at = "blocks", !.for = users]
  /\ UNCHANGED <<block, cursor, accounts, job, settling, ghost>>

NothingNew ==
  /\ watcher.at = "blocks" /\ Head <= watcher.last
  /\ watcher' = Stopped(watcher)
  /\ UNCHANGED <<block, cursor, accounts, job, settling, ghost>>

\* _scan_network up to the logs.  An RPC call that fails is an empty list.
ScanStarts(rpcFails) ==
  LET to == Min({Head, watcher.last + MaxRange})
      new == {t \in Transfers : block[t] \in (watcher.last + 1)..to}
      ours == {t \in new : ToAccount[t] \in watcher.for}
  IN /\ watcher.at = "blocks" /\ Head > watcher.last
     /\ rpcFails => ghost.trouble < MaxTrouble
     /\ watcher' = [watcher EXCEPT !.at = "scan", !.to = to,
                                   !.todo = IF rpcFails THEN {} ELSE ours]
     /\ ghost' = [ghost EXCEPT !.trouble = IF rpcFails THEN @ + 1 ELSE @,
                               !.late = @ \cup (new \ ours)]
     /\ UNCHANGED <<block, cursor, accounts, job, settling>>

\* a transaction counts as seen before its transfer is credited
SeenNever(t) == t = Nil
Seen(t) == TxOf[t] \in watcher.seen

Detect(t) ==
  /\ watcher.at = "scan" /\ watcher.now = Nil /\ t \in watcher.todo
  /\ watcher' = IF Seen(t) THEN [watcher EXCEPT !.todo = @ \ {t}]
                ELSE [watcher EXCEPT !.todo = @ \ {t}, !.now = t, !.seen = @ \cup {TxOf[t]}]
  /\ UNCHANGED <<block, cursor, accounts, job, settling, ghost>>

\* on_deposit: credit_balance
Credit ==
  LET t == watcher.now IN
  /\ watcher.at = "scan" /\ t # Nil
  /\ balance' = [balance EXCEPT ![ToAccount[t]] = @ + 1]
  /\ credits' = [credits EXCEPT ![t] = @ + 1]
  /\ watcher' = [watcher EXCEPT !.now = Nil]
  /\ UNCHANGED <<block, cursor, users, job, settling, ghost>>

\* an exception, before a transaction is seen, instead of its credit or after
\* it, ends the scan of this network for now
ScanFails ==
  /\ watcher.at = "scan"
  /\ ghost.trouble < MaxTrouble
  /\ watcher' = Stopped(watcher)
  /\ ghost' = [ghost EXCEPT !.trouble = @ + 1]
  /\ UNCHANGED <<block, cursor, accounts, job, settling>>

\* the cursor moves, in memory and, unless the write fails, in the file
ScanDoneEarly == TRUE
ScanDone == watcher.todo = {}

ScanEnds(saves) ==
  /\ watcher.at = "scan" /\ watcher.now = Nil /\ ScanDone
  /\ watcher' = Stopped([watcher EXCEPT !.last = watcher.to])
  /\ \/ saves /\ cursor' = watcher.to /\ UNCHANGED ghost
     \/ /\ ~saves /\ ghost.trouble < MaxTrouble
        /\ ghost' = [ghost EXCEPT !.trouble = @ + 1]
        /\ UNCHANGED cursor
  /\ UNCHANGED <<block, accounts, job, settling>>
----------------------------------------------------------------------------
(***************************************************************************)
(* Jobs                                                                    *)
(***************************************************************************)
Covered(a) == balance[a] >= 1

\* pre_job_check: nothing is reserved
Check(j) ==
  /\ job[j] = "new"
  /\ Covered(OwnerOf[j])
  /\ job' = [job EXCEPT ![j] = "running"]
  /\ UNCHANGED <<block, watching, accounts, settling, ghost>>

\* charge_job of a completed job: the balance first, in one transaction
DeductAlways(a) == a \in Accounts
Deducts(a) == Covered(a)

Deduct(j) ==
  /\ job[j] = "running"
  /\ IF Deducts(OwnerOf[j])
     THEN /\ balance' = [balance EXCEPT ![OwnerOf[j]] = @ - 1]
          /\ job' = [job EXCEPT ![j] = "deducted"]
     ELSE UNCHANGED balance /\ job' = [job EXCEPT ![j] = "unpaid"]
  /\ UNCHANGED <<block, watching, users, credits, settling, ghost>>

\* then the allocation, in the other database
Allocate(j) ==
  /\ job[j] = "deducted"
  /\ job' = [job EXCEPT ![j] = "charged"]
  /\ ledger' = [ledger EXCEPT !.open = @ \cup {j}]
  /\ UNCHANGED <<block, watching, accounts, settler, paid, ghost>>

\* refund_job of a job that was charged; its allocation stays
Refund(j) ==
  /\ job[j] = "charged"
  /\ job' = [job EXCEPT ![j] = "refunded"]
  /\ balance' = [balance EXCEPT ![OwnerOf[j]] = @ + 1]
  /\ UNCHANGED <<block, watching, users, credits, settling, ghost>>
----------------------------------------------------------------------------
(***************************************************************************)
(* Settlement: the totals and the allocations are two queries, the         *)
(* transfers go out before the allocations are marked.                     *)
(***************************************************************************)
Enough == Cardinality(ledger.open) >= MinSettle

Totals ==
  /\ settler.at = "idle"
  /\ ledger.open # {} /\ Enough
  /\ settler' = [settler EXCEPT !.at = "pending", !.totals = ledger.open]
  /\ UNCHANGED <<block, watching, accounts, job, ledger, paid, ghost>>

Pending ==
  /\ settler.at = "pending"
  /\ settler' = [settler EXCEPT !.at = "transfer", !.pending = ledger.open]
  /\ ghost' = [ghost EXCEPT !.between = @ \cup (ledger.open \ settler.totals)]
  /\ UNCHANGED <<block, watching, accounts, job, ledger, paid>>

\* _execute_transfers: what goes out is the sum of the totals
Transferred == settler.totals

Transfer ==
  /\ settler.at = "transfer"
  /\ paid' = [j \in Jobs |-> paid[j] + (IF j \in Transferred THEN 1 ELSE 0)]
  /\ settler' = [settler EXCEPT !.at = "mark"]
  /\ UNCHANGED <<block, watching, accounts, job, ledger, ghost>>

MarkedLate == ledger.open
MarkedNone == {}
Marked == settler.pending

Mark ==
  /\ settler.at = "mark"
  /\ ledger' = [open |-> ledger.open \ Marked, settled |-> ledger.settled \cup Marked]
  /\ settler' = Resting
  /\ UNCHANGED <<block, watching, accounts, job, paid, ghost>>

\* the loop catches it, and starts afresh the next day
MarkFails ==
  /\ settler.at = "mark"
  /\ ghost.trouble < MaxTrouble
  /\ settler' = Resting
  /\ ghost' = [ghost EXCEPT !.trouble = @ + 1, !.unmarked = @ + 1]
  /\ UNCHANGED <<block, watching, accounts, job, ledger, paid>>
----------------------------------------------------------------------------
\* the watcher starts again at the cursor it saved; a charge between its two
\* databases is gone, and so is a settlement between transfers and mark
Crash ==
  /\ ghost.crashes < MaxCrashes
  /\ watcher' = Watching(cursor)
  /\ job' = [j \in Jobs |-> IF job[j] = "deducted" THEN "lost" ELSE job[j]]
  /\ settler' = Resting
  /\ ghost' = [ghost EXCEPT !.crashes = @ + 1,
                 !.unmarked = @ + (IF settler.at = "mark" THEN 1 ELSE 0)]
  /\ UNCHANGED <<block, cursor, accounts, ledger, paid>>

Init ==
  /\ block = [t \in Transfers |-> 0]
  /\ watcher = Watching(0) /\ cursor = 0
  /\ users = Founders /\ balance = [a \in Accounts |-> 0] /\ credits = [t \in Transfers |-> 0]
  /\ job = [j \in Jobs |-> "new"]
  /\ ledger = [open |-> {}, settled |-> {}] /\ settler = Resting
  /\ paid = [j \in Jobs |-> 0]
  /\ ghost = [trouble |-> 0, crashes |-> 0, unmarked |-> 0, between |-> {}, late |-> {}]

Scan ==
  \/ ReadAddresses \/ NothingNew
  \/ \E rpcFails \in BOOLEAN : ScanStarts(rpcFails)
  \/ \E t \in Transfers : Detect(t)
  \/ \E saves \in BOOLEAN : ScanEnds(saves)
  \/ Credit \/ ScanFails
Serve(j) == Check(j) \/ Deduct(j) \/ Allocate(j) \/ Refund(j)
Settle == Totals \/ Pending \/ Transfer \/ Mark \/ MarkFails

Next ==
  \/ Scan \/ Settle \/ Crash
  \/ \E j \in Jobs : Serve(j)
  \/ \E a \in Accounts : Register(a)
  \/ \E x \in Txs : Deposit(x)

Spec == Init /\ [][Next]_vars

\* the watch loop runs for ever and catches what goes wrong in a round
FairSpec == Spec /\ WF_vars(Scan)
----------------------------------------------------------------------------
(***************************************************************************)
(* Properties                                                              *)
(***************************************************************************)
\* No balance is ever negative, although several jobs pass the check on the
\* same dollar; the cursor file never runs ahead of the watcher.
TypeOK ==
  /\ block \in [Transfers -> Nat] /\ cursor \in Nat
  /\ watcher.at \in {"idle", "blocks", "scan"} /\ watcher.last \in cursor..Head /\ watcher.to <= Head
  /\ watcher.now \in Transfers \cup {Nil} /\ watcher.todo \subseteq Transfers
  /\ watcher.for \subseteq users /\ users \subseteq Accounts
  /\ balance \in [Accounts -> Nat] /\ credits \in [Transfers -> Nat]
  /\ job \in [Jobs -> {"new", "running", "deducted", "charged", "refunded", "unpaid", "lost"}]
  /\ ledger.open \cup ledger.settled \subseteq Jobs
  /\ settler.at \in {"idle", "pending", "transfer", "mark"}
  /\ paid \in [Jobs -> Nat]
  /\ ghost.trouble \in 0..MaxTrouble /\ ghost.crashes \in 0..MaxCrashes

\* A transfer is credited once in each life of the process: the scan that a
\* crash or an exception cuts short runs again over the same blocks, and only
\* the set of seen transactions, which is in memory, tells what it did.
CreditedOncePerLife == \A t \in Transfers : credits[t] <= 1 + ghost.crashes

\* An allocation is part of the transfers of one settlement, and of one more
\* for each that ended between its transfers and its mark.  What was transferred
\* out and what the developers still have never exceeds what was deposited,
\* unless a transfer or a scan is repeated or a job that was already allocated
\* is refunded.
Solvency ==
  /\ \A j \in Jobs : paid[j] <= 1 + ghost.unmarked
  /\ ghost.crashes = 0 /\ ghost.unmarked = 0 /\ (\A j \in Jobs : job[j] # "refunded") =>
       SumFunctionOnSet(paid, Jobs) + SumFunctionOnSet(balance, Accounts)
         <= Cardinality({t \in Transfers : block[t] > 0})

\* What the ledger calls settled was transferred, except what was recorded
\* between the query for the totals and the query for the allocations.
SettledWasPaid == ledger.settled \subseteq {j \in Jobs : paid[j] > 0} \cup ghost.between

\* A confirmed deposit is credited in the end, unless a call fails, another
\* transfer of the same transaction was taken for it, or its account registered
\* between the reading of the addresses and the reading of the blocks.
DepositsCredited ==
  \A x \in Txs :
    LET sent == {t \in Transfers : TxOf[t] = x /\ block[t] > 0}
    IN sent # {} ~> ghost.trouble > 0 \/ \E t \in sent : credits[t] > 0 \/ t \in ghost.late
=============================================================================
