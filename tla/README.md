# Obelyth: TLA+ models of the node

Obelyth is a node for a block-DAG currency whose second half is a market for GPU
work: developers pay a stablecoin for a job, miners with OBY at stake run it, and the
node decides whose result stands, pays, slashes, bans and refunds. This directory
models both halves, and the way of a developer's money from a deposit to a settlement.

    tlc -workers 2 -config RedundantTier.cfg MCRedundantTier.tla
    tlapm RedundantTierProofs.tla

## 1. Inventory

| Component (source) | State | Operations | Talks to | Must hold |
|---|---|---|---|---|
| Job ledger, miner registry (`tokenomics/engine.py`) | `_jobs`, `_miners`, one re-entrant lock | submit, assign, complete, finalize due, resolve, refund sweep, register, save, load, four callbacks | calls both verdict engines, is called back by them; the ledger is saved every 30 s | every job ends paid or refunded; nobody paid or slashed twice |
| Redundant-tier consensus (`compute/consensus.py`) | none, it writes the job it is handed | `submit_result`, `is_ready_to_finalize`, `finalize` | callbacks into the ledger | the verdict follows from the results |
| Verification (`compute/verification.py`) | `_jobs`, `_challenges`, `_results`, a lock, the watchdog thread | register, submit, issue, resolve, expire | callbacks, sometimes under its lock | a challenge is decided once, and in the end |
| Compute API (`compute/api.py`) | none | submit, infer, register, heartbeat, nextjob, result, challenges | one HTTP thread, over the ledger | |
| Miner and challenger daemons (`compute/miner.py`, `challenger.py`) | the job in hand; the challenges seen | poll, run, return, abandon; rerun, report | HTTP | |
| AMM pool, fees, treasury (`tokenomics/engine.py`) | reserves, DAO and creator balances | seed, buy, sell, fee split | refund sweep | reserves and payouts balance |
| Accounts (`accounts/registry.py`) | SQLite `accounts.db` | register, credit, deduct, record deposit | refund sweep, payments | a balance is its credits less its charges |
| Node wiring (`node/fullnode.py`) | threads, snapshot files | start, save, load | everything | a restart loses at most the last 30 s |
| Chain (`core/blockchain.py`, `structures.py`) | DAG, UTXO set, mempool, validators | add tx, mine, validate, apply, save, load | miner thread, RPC, peers | no output spent twice, issuance bounded |
| P2P (`network/p2p.py`) | peers, known inventory | hello, inventory, block and tx relay, culling | chain | blocks spread |
| Faucet (`faucet/faucet.py`) | claims database | claim | wallet, mempool | one claim per account, daily budget |
| Deposits (`payments/deposit_watcher.py`), payment manager | cursor file, seen set in memory | scan, credit, charge, refund | accounts, settlement | a transfer is credited once |
| Settlement, gas (`payments/settlement.py`, `gas_manager.py`) | allocation and batch databases | allocate, settle, transfer, mark | external chain | an allocation is transferred once |
| Governance, bounty, opco (`node/`) | SQLite | propose, vote, finalise, veto; award; sign, spend | | a vote counts once |
| Wallet, keys, SDK, CLI, logging, metrics, testnet launcher, deployment, web pages | files | | clients | |

The payment manager, settlement, gas, governance, bounty and operating-company
classes are never instantiated by the node; they are libraries so far. `Payments`, `Gas`
and `Governance` model them with the threads they start themselves.

What is hard in this code: the single HTTP thread, the consensus sweep, the refund
sweep, the challenge watchdog and the snapshot thread share one ledger; several paths
leave the engine lock between a read and the write that relies on it; callbacks run
under a lock, after it, or without it; three stores (memory, JSON snapshot, SQLite)
fall out of step when the process dies. `PROJECT.json` lists each of these at its
line under "hazards", with the properties that watch it.

## 2. Modules

| Module | Models | Instantiated by |
|---|---|---|
| `JobLedger` | the constants of the tiers and the refund sweep, and what a critical section may make of a job's fate (`Fates`) | all three |
| `JobFates` | what the tiers owe the refund sweep: every job follows `Fates`, and a restart falls back to a snapshot | `RedundantTier`, `StandardTier`, which implement it |
| `RedundantTier` | a redundant job from submission to settlement | `MCRedundantTier` |
| `StandardTier` | a standard job, its challenges and the watchdog | `MCStandardTier` |
| `RefundSweep` | paying out the refunds the other two promise | `MCRefundSweep` |
| `Chain` | one node's DAG, outputs and mempool under its threads; the wallet and the faucet on top | `MCChain` |
| `Gossip` | blocks and transactions between nodes; implements `Replicas` | `MCGossip` |
| `Replicas` | what the network owes the nodes' chains, without messages | `Gossip` |
| `Payments` | deposit watcher, balances, charges, settlement | `MCPayments` |
| `Gas` | gas price, gas reserve, distributions | `MCGas` |
| `Governance` | proposals, votes, finalisation, veto | `MCGovernance` |
| `RedundantTierProofs`, `StandardTierProofs`, `ChainProofs`, `GossipProofs`, `PaymentsProofs`, `GasProofs`, `GovernanceProofs` | theorems about the module they are named after, for every value of the constants; the first also about `RefundSweep`, which pays out what the tier owes | |
| `AggregateTheorems` | sums over finite sets and maxima: the lemmas the proofs share | |

The two tiers and the refund sweep share the job record and repeat the few fields they need.
The sweep sees of a job only its *fate*: whether it is lost, open, done, faulted or disputed, and
whether a refund is recorded. `RefundSweep` does not guess what the other threads do to it.
Between any two of its own steps they may do whatever `Fates` allows (`Others`), and each tier
is shown to do nothing else: its jobs' fates, and those on disk, are a behaviour of `JobFates`
(`FatesSpec`, checked in the two `Live` runs and proved as `FatesFollow`). `Fates` is as
generous as the code is: a fault may overwrite any status, as `api.py:510` and `_on_slash` look at
none; a pass may overwrite a fault, as `_on_pass` only asks that the job is not done; a refund
may be recorded on a job that has passed meanwhile, as `_on_refund` asks nothing. It rules out
that a settled job is opened again, that a disputed one passes, and that a refund is taken back.

`Gossip` sees of `Chain` what `add_block` and
`add_to_mempool` answer: accepted, or not because something it builds on is missing.

**Granularity.** A critical section is one step. Code that runs outside one is cut at
every read and write of shared state; two databases, or two transactions of one, are two
steps. The HTTP server is single-threaded (`HTTPServer`, `fullnode.py:794`), so at most
one handler is under way: `rpc` (`thread["rpc"]` in `Chain`) records where it is.

**RedundantTier.** `RpcCheck`, `RpcJudge`, `RpcSettle`, `RpcCredit`, `RpcCredited`,
`RpcCount`, `RpcSlash`, `RpcBan`, `RpcRefund` are the HTTP thread finalising a job
*without* the engine lock (`complete_job_with_verification`, `engine.py:1259`): check
the status, tally, write verdict and status, then one callback at a time. `Assign` is
separate because submission releases the lock before it.
`SweepSnapshot`, `SweepSkip`, `SweepFinalize` are the sweep, which takes its candidates
under the lock, releases it and finalises each one under it. `Winners`, `Outliers` and
`ConsensusHash` are `_classify`, read off the submissions. A stake is *eligible* or
not; a slash may or may not take it below the minimum. Deadlines are a set of overdue
jobs, the height a ban that ends. `Save` and `Crash` copy the ledger and the registry.
`disk` starts empty and a file cut short loads as empty, as in `fullnode.py:696-703`.

**StandardTier.** A miner draws or resumes a job (`Draw`, `Resume`), returns it
(`Accept`, `IssueChallenge`, `Reject`), reports failure or abandons it. `ReadChallenge`
is `resolve_job_challenge`'s unlocked read of the offence count; the verdict then
passes, fails or comes too late. A failed verdict holds the verification lock from
`VerdictFail` through `RefundFailure` and `BanFailure`. The watchdog expires challenges
under that lock (`WatchdogExpire`) and pays after releasing it (`WatchdogPass`). Which
results are challenged depends on a block hash: the model leaves it free.

**RefundSweep.** `Snapshot`, `Sell`, `Credit`, `Mark`, with `SellFails`, `CreditFails`
(the except clause) and `SweepEnds`. Amounts are abstracted away: `credits` and `sold`
count credits and swaps per job. `Others` is the two tiers (see above). A swap may leave the pool under its minimum.
`credits` outlives a crash, `refund` falls back to `refundDisk`, `seeded` to FALSE.

**Chain.** `add_block` is `Validate`, `Add`, one `Apply` per transaction, `Applies` and
`Clear`, for the auto-miner, the RPC thread and a peer's thread, with no lock around
them. `Mine` takes all tips and the whole mempool; the code reads the two one after the
other and takes at most three tips, which makes no difference as long as there are no
more (the instance has two blocks). `Offer`, `CheckOffer`, `Append` are `add_to_mempool`,
whose validation runs before its lock; `Claim` and `Record` the faucet around it.
`SaveBlocks`, `SaveUtxos`, `SaveWrites` are `save`, which collects the blocks and the outputs
one after the other. `Crash` loses what the file does not have, and the blocks that were still
being drafted; what left the node stays with its peers. A transaction spends one output and leaves one to its owner, so
amounts, fees and rewards are gone and what is spent twice is still seen. Blocks without
transactions besides the coinbase are left out. Every node creates its own genesis block
in the code; the model lets peers build on ours.

**Gossip.** Each node has one thread per peer, which reads a message, handles it and
sends what follows before it reads on (`TakeRequest`, `TakeItem`, `Accept`, `Relay`,
`Send`), and one local thread that makes things. `Send` waits while `Cap` frames are in the
buffers, as `sendall` does; the end that opened the connection may give up after 10 seconds
(`TimesOut`). `Break` and `Crash` take connections away. A node that starts again connects to its seeds;
a peer that comes back is served by the thread it had before, which forgets what it still had to send
on the old connection.
`Replication == INSTANCE Replicas WITH ...` maps `made`, `needs` and `has` to those of `Replicas`,
where a node learns something only after what it builds on: every step of `Gossip` is one of
those or none. The run checks this, and `Replicates` proves it.

**Payments.** One coin, one network, transfers and jobs of one dollar. A round of the
watcher is `ReadAddresses`, `NothingNew` or `ScanStarts`, then `Detect` and `Credit` per
transfer, `ScanEnds`; `ScanFails` is an exception anywhere. A job goes through `Check`,
`Deduct`, `Allocate`, perhaps `Refund`; a settlement through `Totals`, `Pending`, `Transfer`,
`Mark`. `Crash` keeps `balance`, `credits`, `ledger` and `cursor` and loses the rest. The
model starts with a cursor file; without one the code starts 100 blocks back.

**Gas.** `Poll` feeds the oracle. `Settlement` works a top-up out and `AutoTopup` books it;
`ManualTopup`, `Sync` come from outside. The engine goes `Wake`, `Wait` (until price
and reserve are good, or the deadline), `Skip` or `Build`, then per batch `Broadcast` and
`Spend`, or `Refuse`, at last `Record`. `Die` is a failed write of the run's record, which
no try surrounds. Recipients are batches handed in; the list the code would fetch is a
stub that returns nobody.

**Governance.** A call reads in one step (`ReadForVote`, `Finalize`, `Veto`) and writes in
another (`Vote`, `Save`), and `Callers` of them may be under way. A vote adds to the tally in
place; `Save` replaces the row by the one that was read.

`PROJECT.json` "map" gives the lines each definition stands for. Definitions beside
a mapped one with a longer name (`CandidatesAlways`, `StaleOpen`, ...) are plausible bugs;
no specification uses them. Each property is known to fail when one of them replaces
the definition it imitates.

## 3. Runs

| Run | Instance |
|---|---|
| `RedundantTier` | 2 jobs, 3 miners, 2 hashes, roster of 3, one re-registration. About 500 000 states up to symmetry |
| `RedundantTierLive` | 1 job with one snapshot and one crash; liveness, and `FatesSpec` |
| `StandardTier` | 2 jobs, 2 miners, 2 challenges, one re-registration. About 250 000 states up to symmetry |
| `StandardTierLive` | 1 job, 2 challenges, one snapshot and one crash; liveness, and `FatesSpec` |
| `RefundSweep` | 2 jobs with every fate `JobFates` allows, one snapshot, one crash, one failing credit; 890 000 states; safety and liveness |
| `Chain` | 2 blocks, 2 transactions, a coin of the node and one of a user, one account, one snapshot, one crash. 1.8 million states up to symmetry |
| `Gossip` | 3 nodes, two of them connected to the first; these two make one block and one transaction; buffers of one message; one of the two fails once: it crashes, loses its connection or gives up a send. 250 000 states |
| `Payments` | 3 transfers in 2 transactions, 2 accounts of which one registers later, 2 jobs, one failure, one crash; 680 000 states; safety and liveness |
| `Gas` | 2 batches, prices below, between and above the limits, a day of 2 readings, 2 top-ups, one correction or failed write, one crash; safety and liveness |
| `Governance` | 1 proposal of any kind, 3 voters of weight 1, 2, 5 out of 8, 2 callers, three phases |
| `StandardTierDoublePay`, `GossipSync` | violations, see below |

The bounds. Three miners are the roster size of the code, and the fewest that tie,
out-vote and fall silent; two hashes make every split of them but three
different results, which is left to the theorems (they hold for every set of hashes). Two
redundant jobs let the HTTP thread and the sweep slash the same miner for different jobs.
Two challenges let a miner lose a first one and a second one, on one job or on two, either of
them open when the other is decided (three challenges, 2.7 million states, find nothing more
and take too long for a run that is repeated). One snapshot and one crash produce every torn
state a single restore can see; a second crash restores the same file again.

Two blocks and two transactions in `Chain` are a race of any two of the three threads, a
double spend in one block, in two, and a chain of two spends. The third cause of a conflict,
an output made unspent again because its transaction was confirmed twice, takes four blocks and
three transactions, which is beyond an exhaustive run: in this instance the first two causes are
the only ones. (Cut down to blocks of fixed content, the larger instance needs the third cause,
and no other.) Three nodes in a star are the fewest in which a
relay goes on, and a broadcast to one peer outlives the connection to another; a buffer of one message
is the one that fills soonest. In `Payments`
one transaction holds two transfers, because the seen set goes by transaction; ranges of one
block make a scan fall behind. In `Gas` one batch may use up what the second needs. In
`Governance` the weights make the smallest voter miss every quorum and the constitutional one
need all three.

Safety with several jobs is checked with no crash in the first and third run; crashes
are in the others, and in the theorems. Deadlock is off everywhere: when the bounds are
used up, nothing is left to do. `NeverStuck` states the deadlock that matters, of threads that
wait for each other's buffers.

What the properties say is written above each of them. The ones that took the code's
concurrency seriously:

* `EarnedOnce` (two threads finalise one job and each winner is counted once, thanks to the
  credited flag), `VerdictCurrent` (no result lands after the tally), `SlashJustified`,
  `VerdictFinal` (the second finalizer finds what the first one wrote);
* `DecidedOnce`, `PaidPerAcceptance` (manual verdict against watchdog), `OffencesMatchVerdicts`
  (an offence count read before the lock);
* `SettledWasCredited`, `CreditedOncePerLife` (stores that fall out of step in a crash);
* `UtxoFollowsDag` (two locks, and a snapshot taken between them), `ConflictsHaveACause` (it
  names the ways a double spend gets confirmed);
* `Delivers`, `NeverStuck`: blocks spread, and relaying alone never deadlocks where the connections
  form no cycle (`Forest`) while nobody waits to ask or answer a peer (`Relaying`; the questions of
  `SyncsOnConnect` do deadlock). In a ring of three it can: with more under way than their buffers hold,
  each waits for the next one to read;
* `FatesSpec`: what the refund sweep relies on, kept by both tiers;
* `Solvency`, `SettledWasPaid`, `DepositsCredited`: each lists the losses that do
  happen as exceptions, and shows that there are no others;
* `ReserveMatchesWallet`, `DueIsDecided`; `TallyFollowsBallots`, `PassedHasMandate` (stale
  rows lose votes, never add any).

### Disagreements between code and documentation

Two runs end in a violation; "findings" quotes the line each contradicts.

* `PaidOnce`: a standard job returned twice is paid twice.
* `SyncsOnConnect`: a node that is behind never catches up. It asks for each hash of the
  inventory with GETBLOCKS, which is answered with an inventory from height 0; no message asks
  for a block by hash in a way anybody answers, so a BLOCK only comes when it is mined. With two
  blocks or more the requests and inventories multiply until both nodes wait in `sendall`.

Met while reading or modelling, and not made into runs:

* Redundant tier: both finalisers slash the outliers of the same job, so that a first offence
  becomes two, with a ban. A sweep between submission and assignment finds 0 of 0 results
  and faults a job nobody has been asked to do. A snapshot taken while the HTTP thread is between
  status and callbacks restores a settled job whose winners are never paid (hence the crash
  clause of `WinnersPaid`).
* Standard tier: challenges do not survive a restart, although `load` says that they expire
  through the watchdog, and their jobs stay assigned. A self-reported failure turns a settled
  job into a faulted one and records no refund. Registering again clears bans and offences.
* Refunds: the credit is durable before the mark that prevents the next one. Disputed jobs
  are owed a refund no sweep looks for. Nothing in the node seeds the pool, so that its
  sweep fails with "Pool not seeded yet" even where `process_pending_refunds` says that it marks
  jobs settled when no registry is wired.
* A ban of 259 200 blocks is 30 days only at 10 s a block, and `TARGET_BLOCK_TIME` is 600.
* Chain: two transactions of one block may spend the same output, and so may two blocks that
  are validated at the same time; a transaction confirmed twice makes its output unspent again.
  A mempool transaction whose input is gone stays, and every block mined with it is
  rejected. Each node has a genesis block of its own.
* Gossip: a block is known before it is accepted, so one that comes before its parent is never
  taken. The list in PEERS is always empty. The 10 s timeout of `create_connection` stays on the
  socket: a node drops a connection it opened after 10 quiet seconds, although pings come every 30 s
  and PEER_TIMEOUT is 90, and a send that waits as long loses its message, perhaps half way through.
* Payments: a failed `eth_getLogs` is an empty list and the cursor advances behind it; of two
  transfers in one transaction one is credited; a transaction is seen before it is credited; an
  account that registers between the reading of the addresses and of the blocks may miss its
  deposit; several jobs pass the check on the same dollar; a refund leaves its allocation to be
  settled; `_last_settle` is 0 at every start, so each restart settles at once; transfers that
  were not marked go out again.
* Gas: `MINIMUM_ETH_RESERVE` is never enforced. "Execute regardless after deadline
  (distribution must happen)" is followed by a simulation that looks at the price again and
  refuses. A run is recorded as completed with whatever batches failed, and not retried. The last
  price never expires. When the engine last ran is not saved.
* Governance: 50 % is enough to pass; `finalize_proposal` looks neither at the status nor at
  the end of the vote, so it may undo a veto; a draft never becomes active; a vote between the
  read and the write of a finalisation is lost from the totals.

## 4. Fairness

Weak fairness for threads that loop for ever inside a try/except: the consensus sweep,
the refund sweep, the watchdog, the deposit watcher (`WF_vars(Scan)`); for the rest of a handler
that the HTTP thread has started; for the distribution engine's loop, whose one exception
(`Die`) the property names; for each thread of a node and peer in `GossipSync`; and for time
(deadlines and challenge windows pass). Miners, developers, challengers, settlements, snapshots
and crashes are never obliged to act. Weak fairness is enough because no step of these threads
is disabled by another one for ever: the only wait is for a lock whose holder is fair. (In
`Gossip` it may wait for ever for a full buffer; there the safety property `NeverStuck` says when
not.)

## 5. Proofs

| Component | Proved for every value of the constants | Left to TLC |
|---|---|---|
| `RedundantTier` | `TypeOK`, `VerdictCurrent`, `CreditCorroborated`, `SlashJustified`, `EarnedOnce`, `UnservedIsRefunded`, `VerdictFinal` (an action property), `FatesSpec` (a refinement) | `RosterSettles`, `WinnersPaid` |
| `StandardTier` | `TypeOK`, `DecidedOnce` (an action property), `OffencesMatchVerdicts`, `PaidPerAcceptance`, `FailureRefunded`, `FatesSpec` (a refinement) | `ChallengesSettle`, `PassesPaid` |
| `RefundSweep` | `SettledWasCredited`, `CreditedOncePerLife`, `CreditsBacked` | `FaultsRefunded` |
| `Chain` | `TypeOK`, `DagClosed`, `UtxoFollowsDag`, `ConflictsHaveACause`, `ClaimedOncePerLife` | |
| `Gossip` | `TypeOK`, `Delivers`, `NeverStuck`, `ReplicationSpec` (a refinement) | |
| `Payments` | `TypeOK`, `CreditedOncePerLife`, `SettledWasPaid`, `Solvency` | `DepositsCredited` |
| `Governance` | `TypeOK`, `TallyFollowsBallots`, `PassedHasMandate` | |
| `Gas` | `TypeOK`, `ReserveMatchesWallet`, `SentOncePerPeriod` | `DueIsDecided` |

The theorems hold for any number of jobs, miners, blocks, nodes, transfers, batches or voters, any
topology of the network, and any number of saves, crashes and failures.

**Assumed**: the named ASSUMEs of the modules only, which TLC evaluates on every run. The "none"
values are not members of the sets they pad; bounds are naturals; a set is finite where something
is counted or summed over it (miners, transactions, blocks of `Gossip`, transfers, accounts, jobs
of `Payments`, voters); a roster has at least two members; weights and the supply are
positive; so are gas prices; a buffer holds at least one message.

Each proof has the same shape: a type invariant, the parts of an inductive invariant `IInv`
(defined at the top of the proof module, or at the end of `RedundantTier` and, as `RefundsInv`, of
`RefundSweep`), one lemma per part with a case per action, the theorem
`Inductive == Spec => []IInv`, and the properties as its consequences. TLC checked every `IInv` on the
instance of its component's run before it was proved; the runs themselves check what a reader of the
code would ask, and leave out the type invariants of `RedundantTier`, `RefundSweep` and `Gas`, which are
theorems and say nothing else.

**RedundantTier.** `JobInv` says what one record says of itself, in memory and on disk: it is
unjudged, or its winners, outliers and hash are what its submissions yield, and credits and strikes
stay within them. It allows an assigned record that bears a verdict, because the HTTP
thread writes the verdict before the status; this only happens when the whole roster
has answered, which is why no later submission can contradict it. `RpcInv` ties the
program counter of the HTTP thread to the record it works on, so that the lists it
walks are still the verdict's when the sweep has finalised the job under its hands.
`VerdictIsCurrent`, `CreditIsCorroborated` and `SlashIsJustified` follow. `EarnedAtMostOnce` needs its
own argument, by counting: the step that flags a miner on a job enlarges the set of jobs that flag
him by exactly the one for which it raises `jobs_completed`, and the HTTP thread's flag is looked at
under the lock. `RefundsUnserved` rests on a third invariant, `RefundDue`: a finalizer that has not
judged its job yet can only find it settled by the sweep, which refunds in the same critical
section; and a miner who reports failure after the verdict cannot make a job look unserved,
because a job that is done has a winner (`SomebodyWins`).

`VerdictsFinal` and `FatesFollow` rest on a fourth, `Firmness`. The HTTP thread may judge a job that the
sweep settled under its hands, so that "a settled job keeps its verdict" cannot come from a guard. It
comes from the data: a record that is settled with all its results in has the status, winners,
outliers and hash that those results demand (`Firm`), and judging it again writes what is there. Each
kind of step is shown to make of a record only what `Moved` says, and to leave it firm (`Moves`); the
action property and the refinement are two readings of that.

**StandardTier.** Two facts carry everything. What `resolve_job_challenge` read of the miner before
it took the lock is still so when the verdict falls, as nobody else changes offences or stakes
(`RpcInv`; a crash or a second registration does, and the properties except them). And what a
verdict owes, a ban or a refund, is either done or still in the HTTP thread's hands (`OffenceInv`,
`RefundInv`); what a pass owes is in the watchdog's (`PayInv`).

`FatesFollow` needs `FateInv`, which, unlike the others, survives crashes: a challenge names a job
and a miner that are in the ledger (a crash that drops them drops the challenge), what the HTTP
thread is about to assign is still pending and no challenge names it (otherwise the watchdog could
have settled it in between, and `assign_job`, which looks at no status, would open it again), and
what it is about to refund is settled.

**RefundSweep.** `RefundsInv` bounds the credits of each job by how far the sweep has come
with it: at most the number of crashes before the credit, one more after. A job in the
snapshot is never settled, so a credit always starts from the lower bound; a crash may
undo the mark but not the credit, and raises the bound by one. `SettledIsCredited`,
`CreditedAtMostOncePerLife` and `CreditsAreBacked` are its consequences.

**Chain.** A block goes from draft to public, then into the DAG, then transaction by transaction into
the outputs. `ThreadInv` says which of these a thread is at, `BlockInv` that a block which may still
come to nothing is in no DAG and behind no other block (so that `Parents` never changes once
anything depends on it), `TxInv` that nothing goes anywhere unbuilt. `DagInv` keeps every copy
of the DAG closed, because blocks are only ever added to it and a block waiting to be added was validated against
it. `ReplayInv` is `UtxoFollowsDag` in mid-flight: an output exists when a transaction is confirmed
by a block that is not still waiting to apply it; `SaverInv` makes the same true of a snapshot that is
not torn. `ConflictInv` holds for each pair of blocks the cause `ConflictsHaveACause` names, in memory
and in every snapshot, from the moment the second one passes validation. `ClaimInv` counts the payments to an
account that are in the mempool, in a block or about to be offered.

**Gossip.** `NothingLost`: as long as nothing breaks, what a node owes a neighbour is known there, on the
wire, or in the hands of a thread that sends it. `Considered`: what is known to a node is in its
chain, being considered, or had something missing below it. With empty buffers and idle threads the
two give `Delivers`. `Replicates` maps every step to one of `Replicas` or to a stutter; the
only one that needs an argument is `Accept`, which must not accept what has not been made (`OnlyMade`).
`RelayingGoesOn` is by contradiction. If nothing can go on, every thread with something to relay waits for
a full buffer, and the thread that should empty it waits as well, for a node other than the one the
message came from (`Onward`). So every blocked edge is followed by one that does not turn back. A smallest
set of edges with this property (`CycleFound`, by `SmallestSubset`) gives nodes that each have two
neighbours among themselves, which a network without a cycle does not have.

**Payments.** `CreditCount` bounds the credits of a transfer: one for each earlier process, one more once
its transaction is seen. `Settling` and `PaidCount` follow an allocation through the two queries,
the transfers and the mark. `Conservation` is an equation of two sums (what was credited is in a
balance, or a job took it), and with `PaidCount` gives `Solvency`.

**Gas.** `BookingInv`: a batch that was simulated costs no more than the reserve holds, until it is
booked, because the margin of 20 % is more than the 95 % of the estimate that are burned, and top-ups only add;
so the booking is never cut off at zero. `SentInv`: what this process has sent since the distribution
was due is what the engine has behind it (`Behind`), and a run that is over leaves it asleep; each
crash makes one more pass possible.

**Governance.** Votes are never taken back. So every row there is, in the table or read long ago by a
caller who is about to write it, has the tallies of *some* set of the votes on record now
(`CountInv`), and `MandateInv` needs no more: whatever passed had a mandate from some set of
voters. That the row in the table has all of them is only so while no older row was written over it.

**Sums and induction.** No prover here instantiates an induction rule, which takes the statement
as a parameter. For finite sets `AggregateTheorems` goes around it: `SmallestSubset` says that every
non-empty set of subsets of a finite set has a smallest member (the library has that the strict
subset ordering is well founded), and a statement that fails has a smallest counterexample. This is how
`SumRemove`, `SumChange`, `SumSubset` and `MaxIsGreatest` are proved from the definitions of the
community modules, for every finite set. `Payments` and `Governance` write their totals with
`SumFunctionOnSet` so that these apply.

**Only model-checked, and why.** Liveness (`RosterSettles`, `WinnersPaid`, `ChallengesSettle`,
`PassesPaid`, `FaultsRefunded`, `DepositsCredited`, `DueIsDecided`): it rests on fairness, hence on
ENABLED, which TLAPS does not expand. Every other property of a passing run is a theorem.

## 6. Not modelled

* Floating-point amounts: stakes, refunds, swaps, fees and rewards are present or absent, not
  sized. The fee split, the DAO and creator accounts, uptime bonuses, quotes, vesting and the
  proof-of-stake validators go with them.
* `/compute/infer`, which occupies the HTTP thread while it waits.
* The order of the engine lock and the verification lock: `submit` takes them in one order,
  `resolve_challenge` in the other, and both run in the one HTTP thread, so that they never meet.
* ZK results: no request of the API asks for one.
* The faucet's daily budget, reserve floor and bonus; API keys and suspension of accounts; the
  steering committee; the first start of the watcher.
* Two tiers slashing one miner at the same time: each tier is a module of its own.
* Bounty programme and operating company: nothing instantiates them, and each method is a read
  and a write of one table; their races are listed as hazards.
* Notifications (but for the balance check), keys, SDK, CLI, metrics, testnet launcher,
  deployment, web pages: clients, I/O and primitives.

## 7. What could follow

1. A module in which both tiers slash one miner, with `JobFates` extended by what a slash does to him.
2. The refund sweep and the payments joined at `accounts.db`: each counts its own credits so far.
