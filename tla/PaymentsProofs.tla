--------------------------- MODULE PaymentsProofs ---------------------------
(***************************************************************************)
(* Proofs about module Payments: type correctness, no transfer is credited *)
(* twice in one life of the process, what counts as settled was paid, and  *)
(* solvency.  The inductive invariant follows a dollar through the three   *)
(* stores: from the confirmed transfer to the scan that may credit it, from *)
(* the balance to a deducted job, from the job's allocation to the         *)
(* settlement that pays it out.                                            *)
(***************************************************************************)
EXTENDS Payments, AggregateTheorems

WatcherStates == {"idle", "blocks", "scan"}
JobStates == {"new", "running", "deducted", "charged", "refunded", "unpaid", "lost"}
SettlerStates == {"idle", "pending", "transfer", "mark"}

TypeInv ==
  /\ block \in [Transfers -> Nat] /\ cursor \in Nat
  /\ watcher \in [last : Nat, seen : SUBSET Txs, at : WatcherStates, for : SUBSET Accounts,
                  to : Nat, todo : SUBSET Transfers, now : Transfers \cup {Nil}]
  /\ users \in SUBSET Accounts
  /\ balance \in [Accounts -> Nat] /\ credits \in [Transfers -> Nat]
  /\ job \in [Jobs -> JobStates]
  /\ ledger \in [open : SUBSET Jobs, settled : SUBSET Jobs]
  /\ settler \in [at : SettlerStates, totals : SUBSET Jobs, pending : SUBSET Jobs]
  /\ paid \in [Jobs -> Nat]
  /\ ghost \in [trouble : 0..MaxTrouble, crashes : 0..MaxCrashes, unmarked : Nat,
                between : SUBSET Jobs, late : SUBSET Transfers]

\* The watcher never looks beyond the head, and its file is behind its memory.
Heights ==
  /\ cursor <= watcher.last /\ watcher.last <= Head /\ watcher.to <= Head
  /\ watcher.at = "scan" => watcher.last <= watcher.to
  /\ watcher.for \subseteq users

\* What is scanned or credited is confirmed,
Confirmed == {t \in Transfers : block[t] > 0}
CreditsConfirmed ==
  /\ watcher.todo \subseteq Confirmed
  /\ watcher.now # Nil => watcher.now \in Confirmed
  /\ \A t \in Transfers : credits[t] > 0 => t \in Confirmed

\* and a transfer whose transaction this process has not seen was credited by
\* earlier processes only, at most once by each.
CreditCount ==
  \A t \in Transfers :
    credits[t] + (IF watcher.now = t THEN 1 ELSE 0)
      <= ghost.crashes + (IF TxOf[t] \in watcher.seen THEN 1 ELSE 0)

\* The ledger has every allocated job once.
Allocated == {j \in Jobs : job[j] \in {"charged", "refunded"}}
Allocations ==
  /\ ledger.open \cap ledger.settled = {}
  /\ ledger.open \cup ledger.settled = Allocated

\* What a settlement read stays open until it marks it.
Settling ==
  /\ settler.at = "pending" => settler.totals \subseteq ledger.open
  /\ settler.at \in {"transfer", "mark"} =>
       /\ settler.totals \subseteq settler.pending /\ settler.pending \subseteq ledger.open
       /\ settler.pending \ settler.totals \subseteq ghost.between

\* An open allocation was paid by settlements that did not get to their mark,
\* and by the one that is about to mark it.
ToBeMarked(j) == settler.at = "mark" /\ j \in settler.totals
PaidCount ==
  \A j \in Jobs :
    /\ j \notin Allocated => paid[j] = 0
    /\ j \in ledger.open => paid[j] <= ghost.unmarked + (IF ToBeMarked(j) THEN 1 ELSE 0)
    /\ j \in ledger.settled => paid[j] <= 1 + ghost.unmarked
    /\ ToBeMarked(j) => paid[j] > 0

\* No dollar is lost or made: what was credited is in a balance, or a job took it.
Deducted == {j \in Jobs : job[j] \in {"deducted", "charged", "lost"}}
Conservation ==
  SumFunctionOnSet(balance, Accounts) + Cardinality(Deducted)
    = SumFunctionOnSet(credits, Transfers)

WatchInv == Heights /\ CreditsConfirmed /\ CreditCount
SettleInv == Allocations /\ Settling /\ PaidCount /\ SettledWasPaid
IInv == TypeInv /\ WatchInv /\ SettleInv /\ Conservation
----------------------------------------------------------------------------
USE PaymentsAssumption

\* The head is the height of the highest confirmed transfer.
LEMMA Highest ==
  ASSUME NEW b \in [Transfers -> Nat]
  PROVE  /\ Max({b[t] : t \in Transfers} \cup {0}) \in Nat
         /\ Max({b[t] : t \in Transfers} \cup {0}) \in {b[t] : t \in Transfers} \cup {0}
         /\ \A t \in Transfers : b[t] <= Max({b[u] : u \in Transfers} \cup {0})
<1> DEFINE B == {b[t] : t \in Transfers}
<1>1. IsFiniteSet(B)
  <2>1. b \in Surjection(Transfers, B)
    BY DEF Surjection
  <2> QED BY <2>1, FS_Surjection
<1> DEFINE C == B \cup {0}
<1>2. IsFiniteSet(C)
  BY <1>1, FS_AddElement
<1>3. C # {} /\ C \subseteq Int
  OBVIOUS
<1>4. Max(C) \in C /\ \A x \in C : x <= Max(C)
  <2> HIDE DEF B, C
  <2>1. IsFiniteSet(C) => (C # {} /\ C \subseteq Int => Max(C) \in C /\ \A x \in C : x <= Max(C))
    BY MaxIsGreatest, Zenon
  <2> QED BY <1>2, <1>3, <2>1
<1> DEFINE M == Max(C)
<1>5. M \in C /\ \A x \in C : x <= M
  BY <1>4
<1> HIDE DEF M
<1>6. M \in Nat /\ M \in C /\ \A t \in Transfers : b[t] <= M
  BY <1>5
<1> QED BY <1>6 DEF M

\* The head of the chain is a block number, and no transfer is above it.
LEMMA HeadIsHighest ==
  TypeInv => Head \in Nat /\ \A t \in Transfers : block[t] <= Head
BY Highest DEF TypeInv, Head

\* The inductive invariant holds before the first transfer.
LEMMA InitIInv == Init => IInv
<1> SUFFICES ASSUME Init PROVE IInv
  OBVIOUS
<1>1. TypeInv
  BY DEF Init, TypeInv, Watching, Resting, WatcherStates, JobStates, SettlerStates, Txs
<1>2. WatchInv
  <2>1. Head \in Nat
    BY <1>1, HeadIsHighest
  <2> QED BY <2>1 DEF Init, WatchInv, Heights, CreditsConfirmed, CreditCount, Confirmed, Watching
<1>3. SettleInv
  BY DEF Init, SettleInv, Allocations, Settling, PaidCount, SettledWasPaid, Allocated,
         ToBeMarked, Resting
<1>4. Conservation
  <2>1. SumFunctionOnSet(balance, Accounts) = 0 /\ SumFunctionOnSet(credits, Transfers) = 0
    BY SumOfZeros DEF Init
  <2>2. Deducted = {}
    BY DEF Init, Deducted
  <2> QED BY <2>1, <2>2, FS_EmptySet DEF Conservation
<1> QED BY <1>1, <1>2, <1>3, <1>4 DEF IInv

\* Every step keeps the shapes of the state.
LEMMA StepTypeInv == TypeInv /\ [Next]_vars => TypeInv'
<1> SUFFICES ASSUME TypeInv, [Next]_vars PROVE TypeInv'
  OBVIOUS
<1> USE DEF TypeInv, watching, accounts, settling
<1>0. Head \in Nat
  BY HeadIsHighest
<1>1. ASSUME NEW a \in Accounts, Register(a) PROVE TypeInv'
  BY <1>1 DEF Register
<1>2. ASSUME NEW x \in Txs, Deposit(x) PROVE TypeInv'
  BY <1>0, <1>2 DEF Deposit
<1>3. CASE ReadAddresses
  BY <1>3 DEF ReadAddresses, WatcherStates
<1>4. CASE NothingNew
  BY <1>4 DEF NothingNew, Stopped, Watching, WatcherStates
<1>5. ASSUME NEW rpcFails \in BOOLEAN, ScanStarts(rpcFails) PROVE TypeInv'
  <2> DEFINE to == Min({Head, watcher.last + MaxRange})
             new == {t \in Transfers : block[t] \in (watcher.last + 1)..to}
             ours == {t \in new : ToAccount[t] \in watcher.for}
  <2>1. to \in Nat /\ new \in SUBSET Transfers /\ ours \in SUBSET Transfers
    <3>1. watcher.last + MaxRange \in Int /\ Head \in Int
      BY <1>0
    <3>2. to \in {Head, watcher.last + MaxRange}
      BY <3>1, LeastOfTwo
    <3> QED BY <1>0, <3>2
  <2>2. /\ rpcFails => ghost.trouble < MaxTrouble
        /\ watcher' = [watcher EXCEPT !.at = "scan", !.to = to,
                                      !.todo = IF rpcFails THEN {} ELSE ours]
        /\ ghost' = [ghost EXCEPT !.trouble = IF rpcFails THEN @ + 1 ELSE @,
                                  !.late = @ \cup (new \ ours)]
        /\ UNCHANGED <<block, cursor, accounts, job, settling>>
    BY <1>5 DEF ScanStarts
  <2> HIDE DEF to, new, ours
  <2>3. watcher' \in [last : Nat, seen : SUBSET Txs, at : WatcherStates, for : SUBSET Accounts,
                      to : Nat, todo : SUBSET Transfers, now : Transfers \cup {Nil}]
    BY <2>1, <2>2 DEF WatcherStates
  <2>4. (IF rpcFails THEN ghost.trouble + 1 ELSE ghost.trouble) \in 0..MaxTrouble
    BY <2>2
  <2>5. ghost' \in [trouble : 0..MaxTrouble, crashes : 0..MaxCrashes, unmarked : Nat,
                    between : SUBSET Jobs, late : SUBSET Transfers]
    BY <2>1, <2>2, <2>4
  <2> QED BY <2>2, <2>3, <2>5
<1>6. ASSUME NEW t \in Transfers, Detect(t) PROVE TypeInv'
  BY <1>6 DEF Detect, Seen, Txs
<1>7. CASE Credit
  BY <1>7 DEF Credit
<1>8. CASE ScanFails
  BY <1>8 DEF ScanFails, Stopped, Watching, WatcherStates
<1>9. ASSUME NEW saves \in BOOLEAN, ScanEnds(saves) PROVE TypeInv'
  BY <1>9 DEF ScanEnds, Stopped, Watching, WatcherStates
<1>10. ASSUME NEW j \in Jobs, Serve(j) PROVE TypeInv'
  BY <1>10 DEF Serve, Check, Deduct, Allocate, Refund, Deducts, Covered, JobStates
<1>11. CASE Settle
  <2>1. CASE Totals
    BY <2>1 DEF Totals, SettlerStates
  <2>2. CASE Pending
    BY <2>2 DEF Pending, SettlerStates
  <2>3. CASE Transfer
    BY <2>3 DEF Transfer, Transferred, SettlerStates
  <2>4. CASE Mark
    <3>1. ledger' \in [open : SUBSET Jobs, settled : SUBSET Jobs]
      BY <2>4 DEF Mark, Marked
    <3> QED BY <2>4, <3>1 DEF Mark, Resting, SettlerStates
  <2>5. CASE MarkFails
    <3>1. ghost' \in [trouble : 0..MaxTrouble, crashes : 0..MaxCrashes, unmarked : Nat,
                      between : SUBSET Jobs, late : SUBSET Transfers]
      <4>1. ghost.trouble + 1 \in 0..MaxTrouble /\ ghost.unmarked + 1 \in Nat
        BY <2>5 DEF MarkFails
      <4> QED BY <2>5, <4>1 DEF MarkFails
    <3> QED BY <2>5, <3>1 DEF MarkFails, Resting, SettlerStates
  <2> QED BY <1>11, <2>1, <2>2, <2>3, <2>4, <2>5 DEF Settle
<1>12. CASE Crash
  <2>1. job' \in [Jobs -> JobStates]
    BY <1>12 DEF Crash, JobStates
  <2>2. ghost.unmarked + (IF settler.at = "mark" THEN 1 ELSE 0) \in Nat
    OBVIOUS
  <2>3. ghost' = [ghost EXCEPT !.crashes = @ + 1,
                    !.unmarked = ghost.unmarked + (IF settler.at = "mark" THEN 1 ELSE 0)]
    BY <1>12 DEF Crash
  <2>4. ghost' \in [trouble : 0..MaxTrouble, crashes : 0..MaxCrashes, unmarked : Nat,
                    between : SUBSET Jobs, late : SUBSET Transfers]
    <3>1. ghost.crashes + 1 \in 0..MaxCrashes
      BY <1>12 DEF Crash
    <3> QED BY <2>2, <2>3, <3>1
  <2> QED BY <1>12, <2>1, <2>4 DEF Crash, Watching, Resting, WatcherStates, SettlerStates
<1>13. CASE UNCHANGED vars
  BY <1>13 DEF vars
<1> HIDE DEF TypeInv, watching, accounts, settling
<1> QED
  BY <1>1, <1>2, <1>3, <1>4, <1>5, <1>6, <1>7, <1>8, <1>9, <1>10, <1>11, <1>12, <1>13
  DEF Next, Scan

\* The actions that leave the watcher and the deposits alone.
LEMMA WatchSame ==
  ASSUME TypeInv, WatchInv, UNCHANGED <<block, watcher, cursor, credits>>,
         users \subseteq users', ghost'.crashes = ghost.crashes
  PROVE  WatchInv'
BY DEF WatchInv, Heights, CreditsConfirmed, CreditCount, Confirmed, Head

\* Every step keeps what the watcher's block and its seen set say of each transfer.
LEMMA StepWatchInv == TypeInv /\ TypeInv' /\ WatchInv /\ [Next]_vars => WatchInv'
<1> SUFFICES ASSUME TypeInv, TypeInv', WatchInv, [Next]_vars PROVE WatchInv'
  OBVIOUS
<1> USE DEF watching, accounts, settling
<1>0. /\ Head \in Nat /\ \A t \in Transfers : block[t] <= Head
      /\ Head' \in Nat /\ \A t \in Transfers : block'[t] <= Head'
  BY HeadIsHighest, Highest DEF TypeInv, Head
<1>1. ASSUME NEW a \in Accounts, Register(a) PROVE WatchInv'
  BY <1>1, WatchSame DEF Register
<1>2. ASSUME NEW x \in Txs, Deposit(x) PROVE WatchInv'
  <2>1. \A t \in Transfers : block[t] <= block'[t]
    BY <1>0, <1>2 DEF Deposit, TypeInv
  <2>2. Head <= Head'
    <3>1. Head \in {block[t] : t \in Transfers} \cup {0}
      BY Highest DEF Head, TypeInv
    <3> QED BY <1>0, <2>1, <3>1 DEF TypeInv
  <2>3. Heights'
    BY <1>0, <1>2, <2>2 DEF Deposit, WatchInv, Heights, TypeInv
  <2>4. Confirmed \subseteq Confirmed'
    BY <2>1 DEF Confirmed, TypeInv
  <2> QED BY <1>2, <2>3, <2>4 DEF Deposit, WatchInv, CreditsConfirmed, CreditCount
<1>3. CASE ReadAddresses
  BY <1>3 DEF ReadAddresses, WatchInv, Heights, CreditsConfirmed, CreditCount, Confirmed, Head,
              TypeInv
<1>4. CASE NothingNew \/ ScanFails
  <2>1. /\ watcher' = Stopped(watcher) /\ UNCHANGED <<block, cursor, users, credits>>
        /\ ghost'.crashes = ghost.crashes
    BY <1>4 DEF NothingNew, ScanFails, TypeInv
  <2> QED BY <1>0, <2>1 DEF Stopped, Watching, WatchInv, Heights, CreditsConfirmed, CreditCount,
                            Confirmed, Head, TypeInv
<1>5. ASSUME NEW rpcFails \in BOOLEAN, ScanStarts(rpcFails) PROVE WatchInv'
  <2> DEFINE to == Min({Head, watcher.last + MaxRange})
  <2>1. to <= Head /\ watcher.last <= to /\ to \in Nat
    <3>1. watcher.last + MaxRange \in Int /\ Head \in Int
      BY <1>0 DEF TypeInv
    <3>2. to \in {Head, watcher.last + MaxRange} /\ to <= Head
      BY <3>1, LeastOfTwo
    <3> QED BY <1>0, <3>2 DEF WatchInv, Heights, TypeInv
  <2>2. /\ watcher'.to = to /\ UNCHANGED <<watcher.last, watcher.seen, watcher.now, watcher.for>>
        /\ watcher'.todo \subseteq {t \in Transfers : block[t] \in (watcher.last + 1)..to}
        /\ UNCHANGED <<block, cursor, users, credits>> /\ ghost'.crashes = ghost.crashes
        /\ watcher.at = "blocks" /\ watcher'.at = "scan"
    BY <1>5 DEF ScanStarts, TypeInv
  <2> HIDE DEF to
  <2>3. Heights'
    BY <2>1, <2>2 DEF WatchInv, Heights, Head
  <2>4. CreditsConfirmed'
    BY <2>1, <2>2 DEF WatchInv, CreditsConfirmed, Confirmed, TypeInv
  <2>5. CreditCount'
    BY <2>2 DEF WatchInv, CreditCount
  <2> QED BY <2>3, <2>4, <2>5 DEF WatchInv
<1>6. ASSUME NEW t \in Transfers, Detect(t) PROVE WatchInv'
  <2>1. /\ watcher.now = Nil /\ t \in watcher.todo /\ watcher.at = "scan" /\ watcher'.at = "scan"
        /\ UNCHANGED <<block, cursor, users, credits, ghost, watcher.last, watcher.to, watcher.for>>
        /\ watcher'.todo = watcher.todo \ {t}
        /\ IF TxOf[t] \in watcher.seen
           THEN watcher'.now = Nil /\ watcher'.seen = watcher.seen
           ELSE watcher'.now = t /\ watcher'.seen = watcher.seen \cup {TxOf[t]}
    BY <1>6 DEF Detect, Seen, TypeInv
  <2>2. Heights'
    BY <2>1 DEF WatchInv, Heights, Head
  <2>3. CreditsConfirmed'
    BY <2>1 DEF WatchInv, CreditsConfirmed, Confirmed
  <2>4. ASSUME NEW u \in Transfers
        PROVE  credits'[u] + (IF watcher'.now = u THEN 1 ELSE 0)
                 <= ghost'.crashes + (IF TxOf[u] \in watcher'.seen THEN 1 ELSE 0)
    <3>1. credits[u] + (IF watcher.now = u THEN 1 ELSE 0)
            <= ghost.crashes + (IF TxOf[u] \in watcher.seen THEN 1 ELSE 0)
      BY DEF WatchInv, CreditCount
    <3>2. credits[u] \in Nat /\ ghost.crashes \in Nat /\ credits'[u] = credits[u]
          /\ ghost'.crashes = ghost.crashes /\ watcher.now # u
      BY <2>1 DEF TypeInv
    <3>3. CASE TxOf[t] \in watcher.seen
      BY <2>1, <3>1, <3>2, <3>3
    <3>4. CASE TxOf[t] \notin watcher.seen /\ u = t
      BY <2>1, <3>1, <3>2, <3>4
    <3>5. CASE TxOf[t] \notin watcher.seen /\ u # t
      BY <2>1, <3>1, <3>2, <3>5
    <3> QED BY <3>3, <3>4, <3>5
  <2>5. CreditCount'
    BY <2>4 DEF CreditCount
  <2> QED BY <2>2, <2>3, <2>5 DEF WatchInv
<1>7. CASE Credit
  <2> DEFINE t == watcher.now
  <2>1. /\ t \in Transfers /\ credits' = [credits EXCEPT ![t] = @ + 1]
        /\ watcher'.now = Nil /\ UNCHANGED <<block, cursor, users, ghost>>
        /\ UNCHANGED <<watcher.at, watcher.last, watcher.to, watcher.for, watcher.todo, watcher.seen>>
    BY <1>7 DEF Credit, TypeInv
  <2>2. Heights'
    BY <2>1 DEF WatchInv, Heights, Head
  <2>3. CreditsConfirmed'
    BY <2>1 DEF WatchInv, CreditsConfirmed, Confirmed, TypeInv
  <2>4. CreditCount'
    BY <2>1 DEF WatchInv, CreditCount, TypeInv
  <2> QED BY <2>2, <2>3, <2>4 DEF WatchInv
<1>8. ASSUME NEW saves \in BOOLEAN, ScanEnds(saves) PROVE WatchInv'
  <2>1. /\ watcher.now = Nil /\ watcher.at = "scan" /\ watcher'.at = "idle"
        /\ watcher'.last = watcher.to /\ watcher'.to = 0 /\ watcher'.for = {}
        /\ watcher'.todo = {} /\ watcher'.now = Nil /\ watcher'.seen = watcher.seen
        /\ UNCHANGED <<block, users, credits>> /\ ghost'.crashes = ghost.crashes
        /\ cursor' = watcher.to \/ cursor' = cursor
    BY <1>8 DEF ScanEnds, Stopped, Watching, TypeInv
  <2>2. Heights'
    BY <1>0, <2>1 DEF WatchInv, Heights, Head, TypeInv
  <2>3. CreditsConfirmed' /\ CreditCount'
    BY <2>1 DEF WatchInv, CreditsConfirmed, CreditCount, Confirmed
  <2> QED BY <2>2, <2>3 DEF WatchInv
<1>9. ASSUME NEW j \in Jobs, Serve(j) PROVE WatchInv'
  BY <1>9, WatchSame DEF Serve, Check, Deduct, Allocate, Refund
<1>10. CASE Settle
  <2>1. ghost'.crashes = ghost.crashes
    BY <1>10 DEF Settle, Totals, Pending, Transfer, Mark, MarkFails, TypeInv
  <2> QED BY <1>10, <2>1, WatchSame DEF Settle, Totals, Pending, Transfer, Mark, MarkFails
<1>11. CASE Crash
  <2>1. /\ watcher' = Watching(cursor) /\ ghost'.crashes = ghost.crashes + 1
        /\ UNCHANGED <<block, cursor, users, credits>>
    BY <1>11 DEF Crash, TypeInv
  <2>2. Heights'
    BY <1>0, <2>1 DEF WatchInv, Heights, Head, Watching, TypeInv
  <2>3. CreditsConfirmed'
    BY <2>1 DEF WatchInv, CreditsConfirmed, Confirmed, Watching
  <2>4. CreditCount'
    BY <2>1 DEF WatchInv, CreditCount, Watching, TypeInv
  <2> QED BY <2>2, <2>3, <2>4 DEF WatchInv
<1>12. CASE UNCHANGED vars
  BY <1>12, WatchSame DEF vars
<1> HIDE DEF watching, accounts, settling
<1> QED
  BY <1>1, <1>2, <1>3, <1>4, <1>5, <1>6, <1>7, <1>8, <1>9, <1>10, <1>11, <1>12
  DEF Next, Scan

\* The actions that leave the ledger, the settlement and who is allocated alone.
LEMMA SettleSame ==
  ASSUME SettleInv, UNCHANGED settling, Allocated' = Allocated,
         UNCHANGED <<ghost.unmarked, ghost.between>>
  PROVE  SettleInv'
BY DEF SettleInv, Allocations, Settling, PaidCount, SettledWasPaid, ToBeMarked, settling

\* Every step keeps what a settlement knows of the payment it makes.
LEMMA StepSettleInv == TypeInv /\ SettleInv /\ [Next]_vars => SettleInv'
<1> SUFFICES ASSUME TypeInv, SettleInv, [Next]_vars PROVE SettleInv'
  OBVIOUS
<1>1. ASSUME NEW a \in Accounts, Register(a) PROVE SettleInv'
  BY <1>1, SettleSame DEF Register, Allocated
<1>2. ASSUME NEW x \in Txs, Deposit(x) PROVE SettleInv'
  BY <1>2, SettleSame DEF Deposit, Allocated
<1>3. CASE Scan
  <2>1. UNCHANGED <<ghost.unmarked, ghost.between>>
    BY <1>3 DEF Scan, ReadAddresses, NothingNew, ScanStarts, Detect, Credit, ScanFails, ScanEnds,
                TypeInv
  <2>2. UNCHANGED <<job, settling>>
    BY <1>3 DEF Scan, ReadAddresses, NothingNew, ScanStarts, Detect, Credit, ScanFails, ScanEnds
  <2> QED BY <2>1, <2>2, SettleSame DEF Allocated
<1>4. ASSUME NEW j \in Jobs, Check(j) \/ Deduct(j) \/ Refund(j) PROVE SettleInv'
  <2>1. Allocated' = Allocated
    BY <1>4 DEF Check, Deduct, Refund, Allocated, TypeInv
  <2> QED BY <1>4, <2>1, SettleSame DEF Check, Deduct, Refund
<1>5. ASSUME NEW j \in Jobs, Allocate(j) PROVE SettleInv'
  <2>1. /\ job[j] = "deducted" /\ job' = [job EXCEPT ![j] = "charged"]
        /\ ledger' = [ledger EXCEPT !.open = @ \cup {j}]
        /\ UNCHANGED <<settler, paid, ghost>>
    BY <1>5 DEF Allocate
  <2>2. Allocated' = Allocated \cup {j} /\ j \notin Allocated
    BY <2>1 DEF Allocated, TypeInv
  <2>3. ledger'.open = ledger.open \cup {j} /\ ledger'.settled = ledger.settled
    BY <2>1 DEF TypeInv
  <2>4. Allocations'
    BY <2>2, <2>3 DEF SettleInv, Allocations
  <2>5. Settling' /\ SettledWasPaid'
    BY <2>1, <2>3 DEF SettleInv, Settling, SettledWasPaid
  <2>6. PaidCount'
    <3>1. paid[j] = 0 /\ j \notin ledger.settled /\ ghost.unmarked \in Nat
      BY <2>2 DEF SettleInv, PaidCount, Allocations, TypeInv
    <3> QED BY <2>1, <2>2, <2>3, <3>1 DEF SettleInv, PaidCount, ToBeMarked
  <2> QED BY <2>4, <2>5, <2>6 DEF SettleInv
<1>6. CASE Totals
  <2>1. /\ settler.at = "idle" /\ settler'.at = "pending" /\ settler'.totals = ledger.open
        /\ UNCHANGED <<job, ledger, paid, ghost>>
    BY <1>6 DEF Totals, TypeInv
  <2> QED BY <2>1 DEF SettleInv, Allocations, Settling, PaidCount, SettledWasPaid, Allocated,
                      ToBeMarked
<1>7. CASE Pending
  <2>1. /\ settler.at = "pending" /\ settler'.at = "transfer" /\ settler'.pending = ledger.open
        /\ settler'.totals = settler.totals /\ ghost'.unmarked = ghost.unmarked
        /\ ghost'.between = ghost.between \cup (ledger.open \ settler.totals)
        /\ UNCHANGED <<job, ledger, paid>>
    BY <1>7 DEF Pending, TypeInv
  <2> QED BY <2>1 DEF SettleInv, Allocations, Settling, PaidCount, SettledWasPaid, Allocated,
                      ToBeMarked
<1>8. CASE Transfer
  <2>1. /\ settler.at = "transfer" /\ settler'.at = "mark"
        /\ settler'.pending = settler.pending /\ settler'.totals = settler.totals
        /\ \A j \in Jobs : paid'[j] = paid[j] + (IF j \in settler.totals THEN 1 ELSE 0)
        /\ UNCHANGED <<job, ledger, ghost>>
    BY <1>8 DEF Transfer, Transferred, TypeInv
  <2>2. Allocations' /\ Settling' /\ SettledWasPaid'
    BY <2>1 DEF SettleInv, Allocations, Settling, SettledWasPaid, Allocated, TypeInv
  <2>3. PaidCount'
    <3>1. settler.totals \subseteq ledger.open /\ ledger.open \subseteq Allocated
          /\ ledger.open \cap ledger.settled = {}
      BY <2>1 DEF SettleInv, Settling, Allocations
    <3>2. paid \in [Jobs -> Nat] /\ ghost.unmarked \in Nat
      BY DEF TypeInv
    <3> QED BY <2>1, <3>1, <3>2 DEF SettleInv, PaidCount, ToBeMarked, Allocated
  <2> QED BY <2>2, <2>3 DEF SettleInv
<1>9. CASE Mark
  <2>1. /\ settler.at = "mark" /\ settler'.at = "idle"
        /\ ledger'.open = ledger.open \ settler.pending
        /\ ledger'.settled = ledger.settled \cup settler.pending
        /\ UNCHANGED <<job, paid, ghost>>
    BY <1>9 DEF Mark, Marked, Resting, TypeInv
  <2>2. settler.totals \subseteq settler.pending /\ settler.pending \subseteq ledger.open
        /\ settler.pending \ settler.totals \subseteq ghost.between
        /\ settler.pending \in SUBSET Jobs
    BY <2>1 DEF SettleInv, Settling, TypeInv
  <2>3. Allocations' /\ Settling'
    BY <2>1, <2>2 DEF SettleInv, Allocations, Settling, Allocated
  <2>4. PaidCount'
    <3>1. paid \in [Jobs -> Nat] /\ ghost.unmarked \in Nat
      BY DEF TypeInv
    <3> QED BY <2>1, <2>2, <3>1 DEF SettleInv, PaidCount, ToBeMarked, Allocated
  <2>5. SettledWasPaid'
    <3>1. settler.totals \subseteq {j \in Jobs : paid[j] > 0}
      BY <2>1 , <2>2 DEF SettleInv, PaidCount, ToBeMarked
    <3> QED BY <2>1, <2>2, <3>1 DEF SettleInv, SettledWasPaid
  <2> QED BY <2>3, <2>4, <2>5 DEF SettleInv
<1>10. CASE MarkFails \/ Crash
  <2>1. /\ settler'.at = "idle" /\ UNCHANGED <<ledger, paid>> /\ ghost'.between = ghost.between
        /\ ghost'.unmarked = ghost.unmarked + (IF settler.at = "mark" THEN 1 ELSE 0)
    <3>1. CASE MarkFails
      BY <3>1 DEF MarkFails, Resting, TypeInv
    <3>2. CASE Crash
      <4> DEFINE u == IF settler.at = "mark" THEN 1 ELSE 0
      <4>1. ghost' = [ghost EXCEPT !.crashes = @ + 1, !.unmarked = @ + u]
        BY <3>2 DEF Crash
      <4> HIDE DEF u
      <4>2. ghost'.between = ghost.between /\ ghost'.unmarked = ghost.unmarked + u
        BY <4>1 DEF TypeInv
      <4> QED BY <3>2, <4>2 DEF Crash, Resting, u
    <3> QED BY <1>10, <3>1, <3>2
  <2>2. Allocated' = Allocated
    BY <1>10 DEF MarkFails, Crash, Allocated, TypeInv
  <2>3. Allocations' /\ Settling' /\ SettledWasPaid'
    BY <2>1, <2>2 DEF SettleInv, Allocations, Settling, SettledWasPaid
  <2>4. PaidCount'
    <3>1. paid \in [Jobs -> Nat] /\ ghost.unmarked \in Nat
      BY DEF TypeInv
    <3> QED BY <2>1, <2>2, <3>1 DEF SettleInv, PaidCount, ToBeMarked
  <2> QED BY <2>3, <2>4 DEF SettleInv
<1>11. CASE UNCHANGED vars
  BY <1>11, SettleSame DEF vars, Allocated, settling
<1> QED
  BY <1>1, <1>2, <1>3, <1>4, <1>5, <1>6, <1>7, <1>8, <1>9, <1>10, <1>11
  DEF Next, Settle, Serve

\* No step loses or makes a dollar: see Conservation.
LEMMA StepConservation == TypeInv /\ Conservation /\ [Next]_vars => Conservation'
<1> SUFFICES ASSUME TypeInv, Conservation, [Next]_vars PROVE Conservation'
  OBVIOUS
<1> DEFINE B == SumFunctionOnSet(balance, Accounts)
           C == SumFunctionOnSet(credits, Transfers)
<1>0. /\ IsFiniteSet(Deducted) /\ Cardinality(Deducted) \in Nat /\ B \in Int /\ C \in Int
      /\ B + Cardinality(Deducted) = C
  <2>1. IsFiniteSet(Deducted)
    BY FS_Subset DEF Deducted
  <2>2. \A a \in Accounts : balance[a] \in Int
    BY DEF TypeInv
  <2>3. \A t \in Transfers : credits[t] \in Int
    BY DEF TypeInv
  <2> QED BY <2>1, <2>2, <2>3, FS_CardinalityType, SumRemove DEF Conservation
<1>1. ASSUME UNCHANGED <<balance, credits>>, Deducted' = Deducted PROVE Conservation'
  BY <1>1 DEF Conservation
<1>2. ASSUME NEW a \in Accounts, Register(a) PROVE Conservation'
  BY <1>1, <1>2 DEF Register, Deducted
<1>3. ASSUME NEW x \in Txs, Deposit(x) PROVE Conservation'
  BY <1>1, <1>3 DEF Deposit, Deducted, accounts
<1>4. CASE Credit
  <2> DEFINE t == watcher.now
             a == ToAccount[t]
  <2>1. /\ t \in Transfers /\ a \in Accounts
        /\ balance' = [balance EXCEPT ![a] = @ + 1] /\ credits' = [credits EXCEPT ![t] = @ + 1]
        /\ Deducted' = Deducted
    BY <1>4 DEF Credit, TypeInv, Deducted
  <2> HIDE DEF a, t
  <2>2. B' = B + 1
    <3>1. \A b \in Accounts :
            balance[b] \in Int /\ balance'[b] \in Int /\ (b # a => balance'[b] = balance[b])
      BY <2>1 DEF TypeInv
    <3>2. a \in Accounts
      BY <2>1
    <3>3. B' = B + balance'[a] - balance[a]
      BY <3>1, <3>2, SumChange
    <3> QED BY <1>0, <2>1, <3>1, <3>3 DEF TypeInv
  <2>3. C' = C + 1
    <3>1. \A u \in Transfers :
            credits[u] \in Int /\ credits'[u] \in Int /\ (u # t => credits'[u] = credits[u])
      BY <2>1 DEF TypeInv
    <3>2. t \in Transfers
      BY <2>1
    <3>3. C' = C + credits'[t] - credits[t]
      BY <3>1, <3>2, SumChange
    <3> QED BY <1>0, <2>1, <3>1, <3>3 DEF TypeInv
  <2> HIDE DEF B, C
  <2>4. B' + Cardinality(Deducted') = C'
    BY <1>0, <2>1, <2>2, <2>3
  <2> QED BY <2>4 DEF Conservation, B, C
<1>5. ASSUME Scan, ~ Credit PROVE Conservation'
  BY <1>1, <1>5 DEF Scan, ReadAddresses, NothingNew, ScanStarts, Detect, ScanFails, ScanEnds,
                    accounts, Deducted
<1>6. ASSUME NEW j \in Jobs, Check(j) \/ Allocate(j) PROVE Conservation'
  <2>1. Deducted' = Deducted
    BY <1>6 DEF Check, Allocate, Deducted, TypeInv
  <2> QED BY <1>1, <1>6, <2>1 DEF Check, Allocate, accounts
<1>7. ASSUME NEW j \in Jobs, Deduct(j) PROVE Conservation'
  <2> DEFINE a == OwnerOf[j]
  <2>1. job[j] = "running" /\ j \notin Deducted /\ a \in Accounts /\ credits' = credits
    BY <1>7 DEF Deduct, Deducted
  <2>2. CASE Deducts(a)
    <3>1. balance' = [balance EXCEPT ![a] = @ - 1]
      BY <1>7, <2>2 DEF Deduct
    <3>2. Deducted' = Deducted \cup {j}
      BY <1>7, <2>2 DEF Deduct, Deducted, TypeInv
    <3>3. Cardinality(Deducted') = Cardinality(Deducted) + 1
      BY <1>0, <2>1, <3>2, FS_AddElement
    <3> HIDE DEF a
    <3>4. B' = B - 1
      <4>1. \A b \in Accounts :
              balance[b] \in Int /\ balance'[b] \in Int /\ (b # a => balance'[b] = balance[b])
        BY <2>1, <3>1 DEF TypeInv
      <4>2. B' = B + balance'[a] - balance[a]
        BY <2>1, <4>1, SumChange
      <4> QED BY <1>0, <2>1, <3>1, <4>1, <4>2 DEF TypeInv
    <3>5. C' = C
      BY <2>1
    <3> HIDE DEF B, C
    <3>6. B' + Cardinality(Deducted') = C'
      BY <1>0, <3>3, <3>4, <3>5
    <3> QED BY <3>6 DEF Conservation, B, C
  <2>3. CASE ~ Deducts(a)
    <3>1. Deducted' = Deducted /\ balance' = balance
      BY <1>7, <2>3 DEF Deduct, Deducted, TypeInv
    <3> QED BY <1>1, <2>1, <3>1
  <2> QED BY <2>2, <2>3
<1>8. ASSUME NEW j \in Jobs, Refund(j) PROVE Conservation'
  <2> DEFINE a == OwnerOf[j]
  <2>1. /\ j \in Deducted /\ a \in Accounts /\ credits' = credits
        /\ balance' = [balance EXCEPT ![a] = @ + 1]
    BY <1>8 DEF Refund, Deducted
  <2>2. Deducted' = Deducted \ {j}
    BY <1>8 DEF Refund, Deducted, TypeInv
  <2>3. Cardinality(Deducted') = Cardinality(Deducted) - 1
    BY <1>0, <2>1, <2>2, FS_RemoveElement
  <2> HIDE DEF a
  <2>4. B' = B + 1
    <3>1. \A b \in Accounts :
            balance[b] \in Int /\ balance'[b] \in Int /\ (b # a => balance'[b] = balance[b])
      BY <2>1 DEF TypeInv
    <3>2. a \in Accounts
      BY <2>1
    <3>3. B' = B + balance'[a] - balance[a]
      BY <3>1, <3>2, SumChange
    <3> QED BY <1>0, <2>1, <3>1, <3>3 DEF TypeInv
  <2>5. C' = C
    BY <2>1
  <2> HIDE DEF B, C
  <2>6. B' + Cardinality(Deducted') = C'
    BY <1>0, <2>3, <2>4, <2>5
  <2> QED BY <2>6 DEF Conservation, B, C
<1>9. CASE Settle
  BY <1>1, <1>9 DEF Settle, Totals, Pending, Transfer, Mark, MarkFails, accounts, Deducted
<1>10. CASE Crash
  <2>1. Deducted' = Deducted
    BY <1>10 DEF Crash, Deducted, TypeInv
  <2> QED BY <1>1, <1>10, <2>1 DEF Crash, accounts
<1>11. CASE UNCHANGED vars
  BY <1>1, <1>11 DEF vars, Deducted
<1> QED
  BY <1>2, <1>3, <1>4, <1>5, <1>6, <1>7, <1>8, <1>9, <1>10, <1>11 DEF Next, Serve

\* IInv holds in every state the payment system can reach.
THEOREM Inductive == Spec => []IInv
<1>1. IInv /\ [Next]_vars => IInv'
  <2> SUFFICES ASSUME IInv, [Next]_vars PROVE IInv'
    OBVIOUS
  <2>1. TypeInv'
    BY StepTypeInv DEF IInv
  <2> QED BY <2>1, StepWatchInv, StepSettleInv, StepConservation DEF IInv
<1> QED BY <1>1, InitIInv, PTL DEF Spec
----------------------------------------------------------------------------
\* No balance is ever negative and the cursor file never runs ahead of the
\* watcher's memory, nor that of the chain.
THEOREM TypeCorrect == Spec => []TypeOK
<1>1. IInv => TypeOK
  <2> SUFFICES ASSUME IInv PROVE TypeOK
    OBVIOUS
  <2>1. Head \in Nat
    BY HeadIsHighest DEF IInv
  <2>2. watcher.last \in cursor..Head /\ watcher.to <= Head /\ watcher.for \subseteq users
    BY <2>1 DEF IInv, WatchInv, Heights, TypeInv
  <2> QED BY <2>2 DEF IInv, TypeInv, TypeOK, WatcherStates, JobStates, SettlerStates
<1> QED BY <1>1, Inductive, PTL

\* A transfer is credited at most once in each life of the process, whatever
\* the transactions it shares with other transfers and however scans fail.
THEOREM Credits == Spec => []CreditedOncePerLife
<1>1. IInv => CreditedOncePerLife
  <2> SUFFICES ASSUME IInv, NEW t \in Transfers PROVE credits[t] <= 1 + ghost.crashes
    BY DEF CreditedOncePerLife
  <2>1. credits[t] + (IF watcher.now = t THEN 1 ELSE 0)
          <= ghost.crashes + (IF TxOf[t] \in watcher.seen THEN 1 ELSE 0)
    BY DEF IInv, WatchInv, CreditCount
  <2>2. credits[t] \in Nat /\ ghost.crashes \in Nat
    BY DEF IInv, TypeInv
  <2> QED BY <2>1, <2>2
<1> QED BY <1>1, Inductive, PTL

\* What counts as settled was transferred, except what was allocated between
\* the two queries of its settlement.
THEOREM Settled == Spec => []SettledWasPaid
<1>1. IInv => SettledWasPaid
  BY DEF IInv, SettleInv
<1> QED BY <1>1, Inductive, PTL

\* Each allocation is paid once, and once more for each settlement that ended
\* between its transfers and its mark; without these, and while nothing is
\* refunded, no more is paid out and kept than was deposited.
THEOREM Solvent == Spec => []Solvency
<1>1. IInv => \A j \in Jobs : paid[j] <= 1 + ghost.unmarked
  <2> SUFFICES ASSUME IInv, NEW j \in Jobs PROVE paid[j] <= 1 + ghost.unmarked
    OBVIOUS
  <2>1. paid[j] \in Nat /\ ghost.unmarked \in Nat
    BY DEF IInv, TypeInv
  <2>2. j \in ledger.open \/ j \in ledger.settled \/ j \notin Allocated
    BY DEF IInv, SettleInv, Allocations
  <2> QED BY <2>1, <2>2 DEF IInv, SettleInv, PaidCount
<1>2. ASSUME IInv, ghost.crashes = 0, ghost.unmarked = 0, \A j \in Jobs : job[j] # "refunded"
      PROVE  SumFunctionOnSet(paid, Jobs) + SumFunctionOnSet(balance, Accounts)
               <= Cardinality({t \in Transfers : block[t] > 0})
  <2>1. \A j \in Jobs : paid[j] \in Int /\ paid[j] <= 1 /\ (j \notin Deducted => paid[j] <= 0)
    <3> SUFFICES ASSUME NEW j \in Jobs
                 PROVE  paid[j] \in Int /\ paid[j] <= 1 /\ (j \notin Deducted => paid[j] <= 0)
      OBVIOUS
    <3>1. paid[j] \in Nat /\ paid[j] <= 1
      BY <1>1, <1>2 DEF IInv, TypeInv
    <3>2. j \notin Deducted => j \notin Allocated
      BY <1>2 DEF Deducted, Allocated
    <3> QED BY <1>2, <3>1, <3>2 DEF IInv, SettleInv, PaidCount
  <2>2. SumFunctionOnSet(paid, Jobs) <= Cardinality(Jobs \cap Deducted)
    BY <2>1, SumAtMostCardinality
  <2>3. Jobs \cap Deducted = Deducted
    BY DEF Deducted
  <2>4. \A t \in Transfers :
          credits[t] \in Int /\ credits[t] <= 1 /\ (t \notin Confirmed => credits[t] <= 0)
    <3> SUFFICES ASSUME NEW t \in Transfers
                 PROVE  credits[t] \in Int /\ credits[t] <= 1 /\ (t \notin Confirmed => credits[t] <= 0)
      OBVIOUS
    <3>1. credits[t] \in Nat
      BY <1>2 DEF IInv, TypeInv
    <3>2. credits[t] + (IF watcher.now = t THEN 1 ELSE 0)
            <= (IF TxOf[t] \in watcher.seen THEN 1 ELSE 0)
      BY <1>2 DEF IInv, WatchInv, CreditCount
    <3>3. credits[t] > 0 => t \in Confirmed
      BY <1>2 DEF IInv, WatchInv, CreditsConfirmed
    <3> QED BY <3>1, <3>2, <3>3
  <2>5. SumFunctionOnSet(credits, Transfers) <= Cardinality(Transfers \cap Confirmed)
    BY <2>4, SumAtMostCardinality
  <2>6. Transfers \cap Confirmed = {t \in Transfers : block[t] > 0}
    BY DEF Confirmed
  <2>7. /\ SumFunctionOnSet(paid, Jobs) \in Int
        /\ SumFunctionOnSet(balance, Accounts) \in Int
        /\ SumFunctionOnSet(credits, Transfers) \in Int
    <3>1. \A a \in Accounts : balance[a] \in Int
      BY <1>2 DEF IInv, TypeInv
    <3> QED BY <2>1, <2>4, <3>1, SumRemove
  <2>8. Cardinality(Deducted) \in Nat /\ Cardinality(Transfers \cap Confirmed) \in Nat
    BY FS_Subset, FS_CardinalityType, FS_Intersection DEF Deducted
  <2>9. SumFunctionOnSet(balance, Accounts) + Cardinality(Deducted)
          = SumFunctionOnSet(credits, Transfers)
    BY <1>2 DEF IInv, Conservation
  <2> QED BY <2>2, <2>3, <2>5, <2>6, <2>7, <2>8, <2>9
<1>3. IInv => Solvency
  BY <1>1, <1>2 DEF Solvency
<1> QED BY <1>3, Inductive, PTL
===========================================================================
