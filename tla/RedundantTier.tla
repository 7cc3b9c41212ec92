--------------------------- MODULE RedundantTier ---------------------------
(***************************************************************************)
(* The life of a redundant-tier compute job: tokenomics/engine.py,         *)
(* compute/consensus.py and the /compute handlers of compute/api.py, with  *)
(* the four threads of node/fullnode.py that touch it:                     *)
(*                                                                         *)
(*   rpc       the single thread of the HTTPServer: submission,            *)
(*             assignment, miner results, self-reported failures,          *)
(*             registration.  When the last result arrives it finalizes    *)
(*             the job itself, and does so WITHOUT the engine lock.        *)
(*   sweep     the consensus sweep: snapshots the due jobs under the lock, *)
(*             releases it, then finalizes them one by one under the lock. *)
(*   persist   writes the job ledger and the miner registry to disk.       *)
(*   clock     deadlines pass and bans run out.                            *)
(*                                                                         *)
(* A critical section of the engine lock is one step; code that runs       *)
(* outside it is cut at every read and every write of shared state.        *)
(***************************************************************************)
EXTENDS JobLedger

CONSTANTS
  Miners,            \* miner addresses
  Hashes,            \* result hashes a miner can return
  NoHash,            \* no result
  NoMiner,           \* whom an idle rpc thread works on
  RosterSize,        \* REDUNDANT_MINER_COUNT
  MaxRegistrations   \* bound: register calls after start-up

ASSUME RosterAssumption == RosterSize \in Nat \ {0, 1} /\ IsFiniteSet(Miners)
ASSUME NoneAssumption   == NoHash \notin Hashes /\ NoMiner \notin Miners
ASSUME BoundAssumption  == MaxRegistrations \in Nat

VARIABLES
  job,       \* _jobs: the ledger of ComputeJob records
  miner,     \* _miners: the registry of MinerProfile records
  overdue,   \* the jobs whose consensus_deadline has passed
  rpc,       \* what the rpc thread is in the middle of
  due,       \* the sweep's snapshot of candidates, not yet walked
  disk,      \* tokenomics_state.json
  env        \* how often the environment has acted (bounds only)

vars == <<job, miner, overdue, rpc, due, disk, env>>

(***************************************************************************)
(* ComputeJob.  "absent" is a job id not in _jobs.  `refund' is            *)
(* refund_oby > 0; `strikes' counts the on_slash calls a job has caused    *)
(* for each miner (history, it restores with the ledger it describes).     *)
(***************************************************************************)
SettledUnlessFaulted == {"done", "disputed"}
Settled == {"done", "faulted", "disputed"}
Rosters == {R \in SUBSET Miners : Cardinality(R) = RosterSize}

ComputeJob ==
  [status: {"absent", "pending", "assigned"} \cup Settled,
   roster: Rosters \cup {{}},             \* assigned_miners
   subs: [Miners -> Hashes \cup {NoHash}],\* result_submissions
   credited: SUBSET Miners,               \* result_submissions[m]['credited']
   winners: SUBSET Miners, outliers: SUBSET Miners,
   hash: Hashes \cup {NoHash},            \* result_hash
   refund: BOOLEAN,
   strikes: [Miners -> Nat]]

NewJob(status) ==
  [status |-> status, roster |-> {}, subs |-> [m \in Miners |-> NoHash],
   credited |-> {}, winners |-> {}, outliers |-> {}, hash |-> NoHash,
   refund |-> FALSE, strikes |-> [m \in Miners |-> 0]]

(***************************************************************************)
(* MinerProfile.  `staked' is stake_oby >= MIN_STAKE_OBY, `banned' is      *)
(* is_banned at the current height, `completed' is jobs_completed, which   *)
(* moves with oby_earned.                                                  *)
(***************************************************************************)
MinerProfile ==
  [known: BOOLEAN, staked: BOOLEAN, banned: BOOLEAN, offences: Nat, completed: Nat]

Fresh(known, staked) ==
  [known |-> known, staked |-> staked, banned |-> FALSE, offences |-> 0, completed |-> 0]

Eligible == {m \in Miners : miner[m].known /\ miner[m].staked /\ ~miner[m].banned}

(***************************************************************************)
(* ConsensusEngine._classify: a verdict from the submissions alone.        *)
(***************************************************************************)
Returned(j)  == {m \in j.roster : j.subs[m] # NoHash}
Missing(j)   == j.roster \ Returned(j)
Votes(roster, subs, h) == {m \in roster : subs[m] = h}

\* h has at least two returns behind the vote and the largest bucket, untied
WinsUncorroborated(roster, subs, h) ==
  \A g \in Hashes \ {h} :
    Cardinality(Votes(roster, subs, g)) < Cardinality(Votes(roster, subs, h))
Wins(roster, subs, h) ==
  /\ Cardinality({m \in roster : subs[m] # NoHash}) >= 2
  /\ \A g \in Hashes \ {h} :
       Cardinality(Votes(roster, subs, g)) < Cardinality(Votes(roster, subs, h))

Plurality(roster, subs) ==
  IF \E h \in Hashes : Wins(roster, subs, h)
  THEN CHOOSE h \in Hashes : Wins(roster, subs, h) ELSE NoHash
ConsensusHash(j) == Plurality(j.roster, j.subs)

Winners(j) ==
  IF ConsensusHash(j) = NoHash THEN {} ELSE Votes(j.roster, j.subs, ConsensusHash(j))
OutliersIgnoringTies(j) == j.roster \ Winners(j)
Outliers(j) == IF ConsensusHash(j) = NoHash THEN Missing(j) ELSE j.roster \ Winners(j)

Verdict(j) ==
  IF Returned(j) = {} THEN "faulted"
  ELSE IF ConsensusHash(j) = NoHash THEN "disputed" ELSE "done"

\* ConsensusEngine.finalize stores the verdict on the job, the status last
Recorded(j) ==
  [j EXCEPT !.winners = Winners(j), !.outliers = Outliers(j), !.hash = ConsensusHash(j)]
Judged(j) == [Recorded(j) EXCEPT !.status = Verdict(j)]

(***************************************************************************)
(* The settlement callbacks of TokenomicsEngine, on one job and one miner. *)
(***************************************************************************)
\* _on_pass(method='consensus') credits a submission that is not yet credited
CreditDueUnflagged(j, p, m) == p.known /\ j.subs[m] # NoHash
CreditDuePerJob(j, p, m) == p.known /\ j.subs[m] # NoHash /\ j.credited = {}
CreditDue(j, p, m) == p.known /\ j.subs[m] # NoHash /\ m \notin j.credited

Credited(j, p, m) ==
  IF CreditDue(j, p, m) THEN [p EXCEPT !.completed = @ + 1] ELSE p

\* _on_slash: the stake may fall below the floor, the count is the caller's
Slashed(p, keepsStake, offences) ==
  IF p.known THEN [p EXCEPT !.staked = @ /\ keepsStake, !.offences = offences] ELSE p

\* _on_ban, fired from the second offence on
Banned(p, offences) ==
  IF p.known /\ offences >= 2 THEN [p EXCEPT !.banned = TRUE] ELSE p

\* on_refund: 2 x payment x roster, owed when the verdict pays nobody
RefundOnlyFaulted(j) ==
  IF j.status = "faulted" THEN [j EXCEPT !.refund = (j.roster # {})] ELSE j
Refunded(j) ==
  IF j.status \in {"disputed", "faulted"} THEN [j EXCEPT !.refund = (j.roster # {})] ELSE j
----------------------------------------------------------------------------
(***************************************************************************)
(* The rpc thread.  `at' is where it is; every handler starts at "idle".   *)
(***************************************************************************)
RpcRecord ==
  [at: {"idle", "assign", "check", "judge", "settle", "credit", "count", "slash", "ban"},
   job: Jobs \cup {NoJob}, todo: SUBSET Miners, miner: Miners \cup {NoMiner}, seen: Nat]

Idle == [at |-> "idle", job |-> NoJob, todo |-> {}, miner |-> NoMiner, seen |-> 0]
RpcAt(place, j) == rpc.at = place /\ rpc.job = j

\* /compute/submit: the job enters the ledger in one critical section and is
\* assigned in another one; between the two it is pending with no roster
Submit(j) ==
  /\ rpc.at = "idle"
  /\ job[j].status = "absent"
  /\ job' = [job EXCEPT ![j] = NewJob("pending")]
  /\ overdue' = overdue \ {j}
  /\ rpc' = [Idle EXCEPT !.at = "assign", !.job = j]
  /\ UNCHANGED <<miner, due, disk, env>>


\* assign_redundant_job: N distinct eligible miners, or the job stays as it is
Picks == {R \in Rosters : R \subseteq Eligible}

Assign(j) ==
  /\ RpcAt("assign", j)
  /\ \/ /\ job[j].status = "pending"
        /\ \E R \in Picks :
             job' = [job EXCEPT ![j].roster = R, ![j].status = "assigned"]
     \/ /\ job[j].status # "pending" \/ Picks = {}
        /\ UNCHANGED job
  /\ rpc' = Idle
  /\ UNCHANGED <<miner, overdue, due, disk, env>>

\* ConsensusEngine.submit_result's four rejections
AcceptsLate(j, m) == m \in job[j].roster /\ job[j].subs[m] = NoHash
Accepts(j, m) ==
  /\ job[j].status \in {"assigned", "pending"}
  /\ m \in job[j].roster
  /\ job[j].subs[m] = NoHash

\* complete_job_with_verification, redundant branch, up to the end of its
\* critical section; the last of the N results sends the thread to finalize
SubmitResult(j, m, h) ==
  /\ rpc.at = "idle"
  /\ miner[m].known
  /\ Accepts(j, m)
  /\ job' = [job EXCEPT ![j].subs[m] = h]
  /\ rpc' = IF Missing(job[j]) = {m} THEN [Idle EXCEPT !.at = "check", !.job = j] ELSE Idle
  /\ UNCHANGED <<miner, overdue, due, disk, env>>

\* /compute/result with status 'failed': any job in any state becomes faulted.
\* A MinerDaemon sends it for a job it was handed and has not returned.
SelfReportFailed(j, m) ==
  /\ rpc.at = "idle"
  /\ m \in Missing(job[j])
  /\ job' = [job EXCEPT ![j].status = "faulted"]
  /\ UNCHANGED <<miner, overdue, rpc, due, disk, env>>

\* /compute/register replaces the whole profile
RegisterMiner(m, staked) ==
  /\ rpc.at = "idle"
  /\ env.registrations < MaxRegistrations
  /\ miner' = [miner EXCEPT ![m] = Fresh(TRUE, staked)]
  /\ env' = [env EXCEPT !.registrations = @ + 1]
  /\ UNCHANGED <<job, overdue, rpc, due, disk>>

(***************************************************************************)
(* finalize on the rpc thread, without the lock: the idempotency check,    *)
(* the verdict, then one callback at a time (each takes the lock), with    *)
(* the offence count read before on_slash is called.                       *)
(***************************************************************************)
RpcCheck(j) ==
  /\ RpcAt("check", j)
  /\ rpc' = IF job[j].status \in Settled THEN Idle ELSE [rpc EXCEPT !.at = "judge"]
  /\ UNCHANGED <<job, miner, overdue, due, disk, env>>

RpcJudge(j) ==
  /\ RpcAt("judge", j)
  /\ job' = [job EXCEPT ![j] = Recorded(@)]
  /\ rpc' = [rpc EXCEPT !.at = "settle"]
  /\ UNCHANGED <<miner, overdue, due, disk, env>>

RpcSettle(j) ==
  /\ RpcAt("settle", j)
  /\ job' = [job EXCEPT ![j].status = Verdict(job[j])]
  /\ rpc' = [rpc EXCEPT !.at = "credit", !.todo = Winners(job[j])]
  /\ UNCHANGED <<miner, overdue, due, disk, env>>

RpcCredit(j, m) ==
  /\ RpcAt("credit", j)
  /\ m \in rpc.todo
  /\ job' = [job EXCEPT ![j].credited = IF CreditDue(job[j], miner[m], m) THEN @ \cup {m} ELSE @]
  /\ miner' = [miner EXCEPT ![m] = Credited(job[j], @, m)]
  /\ rpc' = [rpc EXCEPT !.todo = @ \ {m}]
  /\ UNCHANGED <<overdue, due, disk, env>>

RpcCredited(j) ==
  /\ RpcAt("credit", j)
  /\ rpc.todo = {}
  /\ rpc' = [rpc EXCEPT !.at = "count", !.todo = job[j].outliers]
  /\ UNCHANGED <<job, miner, overdue, due, disk, env>>

\* offence_count_provider(o) + 1, read without the lock
RpcCount(j, m) ==
  /\ RpcAt("count", j)
  /\ m \in rpc.todo
  /\ rpc' = [rpc EXCEPT !.at = "slash", !.miner = m, !.seen = miner[m].offences + 1,
                        !.todo = @ \ {m}]
  /\ UNCHANGED <<job, miner, overdue, due, disk, env>>

RpcSlash(j, keepsStake) ==
  LET m == rpc.miner IN
  /\ RpcAt("slash", j)
  /\ miner' = [miner EXCEPT ![m] = Slashed(@, keepsStake, rpc.seen)]
  /\ job' = [job EXCEPT ![j].strikes[m] = @ + 1]
  /\ rpc' = [rpc EXCEPT !.at = "ban"]
  /\ UNCHANGED <<overdue, due, disk, env>>

RpcBan(j) ==
  /\ RpcAt("ban", j)
  /\ miner' = [miner EXCEPT ![rpc.miner] = Banned(@, rpc.seen)]
  /\ rpc' = [rpc EXCEPT !.at = "count", !.miner = NoMiner, !.seen = 0]
  /\ UNCHANGED <<job, overdue, due, disk, env>>

RpcRefund(j) ==
  /\ RpcAt("count", j)
  /\ rpc.todo = {}
  /\ job' = [job EXCEPT ![j] = Refunded(@)]
  /\ rpc' = Idle
  /\ UNCHANGED <<miner, overdue, due, disk, env>>
----------------------------------------------------------------------------
(***************************************************************************)
(* The consensus sweep: finalize_due_redundant_jobs.                       *)
(***************************************************************************)
\* is_ready_to_finalize: note that a job with no roster has all its results
ReadyOnlyWhenFull(j) == job[j].status \in {"assigned", "pending"} /\ Missing(job[j]) = {}
Ready(j) ==
  /\ job[j].status \in {"assigned", "pending"}
  /\ Missing(job[j]) = {} \/ (j \in overdue /\ job[j].status = "assigned")

SweepSnapshot ==
  /\ due = {}
  /\ \E j \in Jobs : Ready(j)
  /\ due' = {j \in Jobs : Ready(j)}
  /\ UNCHANGED <<job, miner, overdue, rpc, disk, env>>

\* finalize under the lock.  Readiness is not checked again, only status.
Finalized(j) ==
  LET v == Judged(j) IN
  [Refunded(v) EXCEPT
     !.credited = @ \cup {m \in v.winners : CreditDue(j, miner[m], m)},
     !.strikes  = [m \in Miners |-> IF m \in v.outliers THEN @[m] + 1 ELSE @[m]]]

SettledMiner(j, m, keepers) ==
  IF m \in Winners(j) THEN Credited(j, miner[m], m)
  ELSE IF m \in Outliers(j)
  THEN LET n == miner[m].offences + 1 IN Banned(Slashed(miner[m], m \in keepers, n), n)
  ELSE miner[m]

SweepFinalize(j, keepers) ==
  /\ j \in due
  /\ job[j].status \notin Settled
  /\ job' = [job EXCEPT ![j] = Finalized(@)]
  /\ miner' = [m \in Miners |-> SettledMiner(job[j], m, keepers)]
  /\ due' = due \ {j}
  /\ UNCHANGED <<overdue, rpc, disk, env>>

SweepSkip(j) ==
  /\ j \in due
  /\ job[j].status \in Settled
  /\ due' = due \ {j}
  /\ UNCHANGED <<job, miner, overdue, rpc, disk, env>>
----------------------------------------------------------------------------
DeadlinePasses(j) ==
  /\ job[j].status = "assigned"
  /\ j \notin overdue
  /\ overdue' = overdue \cup {j}
  /\ UNCHANGED <<job, miner, rpc, due, disk, env>>

BanEnds(m) ==
  /\ miner[m].banned
  /\ miner' = [miner EXCEPT ![m].banned = FALSE]
  /\ UNCHANGED <<job, overdue, rpc, due, disk, env>>

\* TokenomicsEngine.save copies jobs and miners under the lock
Save ==
  /\ env.saves < MaxSaves
  /\ disk' = [job |-> job, miner |-> miner]
  /\ env' = [env EXCEPT !.saves = @ + 1]
  /\ UNCHANGED <<job, miner, overdue, rpc, due>>

Empty == [job |-> [j \in Jobs |-> NewJob("absent")], miner |-> [m \in Miners |-> Fresh(FALSE, FALSE)]]

\* A crash loses what was not saved.  write_text is not atomic: a crash in the
\* middle of it leaves a file that load() rejects, and the node starts empty.
Crash ==
  /\ env.crashes < MaxCrashes
  /\ \E snapshot \in {disk, Empty} :
       job' = snapshot.job /\ miner' = snapshot.miner /\ disk' = snapshot
  /\ rpc' = Idle
  /\ due' = {}
  /\ env' = [env EXCEPT !.crashes = @ + 1]
  /\ UNCHANGED overdue
----------------------------------------------------------------------------
Init ==
  /\ job = [j \in Jobs |-> NewJob("absent")]
  /\ \E known \in SUBSET Miners : \E staked \in SUBSET known :
       miner = [m \in Miners |-> Fresh(m \in known, m \in staked)]
  /\ overdue = {}
  /\ rpc = Idle
  /\ due = {}
  /\ disk = Empty
  /\ env = [saves |-> 0, crashes |-> 0, registrations |-> 0]

RpcFinalize(j) ==
  \/ RpcCheck(j) \/ RpcJudge(j) \/ RpcSettle(j) \/ RpcCredited(j) \/ RpcBan(j) \/ RpcRefund(j)
  \/ \E m \in Miners : RpcCredit(j, m) \/ RpcCount(j, m)
  \/ \E keepsStake \in BOOLEAN : RpcSlash(j, keepsStake)

SweepOne(j) ==
  SweepSkip(j) \/ \E keepers \in SUBSET Outliers(job[j]) : SweepFinalize(j, keepers)

RpcThread   == \E j \in Jobs : Assign(j) \/ RpcFinalize(j)
SweepThread == SweepSnapshot \/ \E j \in Jobs : SweepOne(j)

Next ==
  \/ RpcThread \/ SweepThread
  \/ \E j \in Jobs :
       \/ Submit(j) \/ DeadlinePasses(j)
       \/ \E m \in Miners : SelfReportFailed(j, m) \/ \E h \in Hashes : SubmitResult(j, m, h)
  \/ \E m \in Miners : BanEnds(m) \/ \E staked \in BOOLEAN : RegisterMiner(m, staked)
  \/ Save \/ Crash

(***************************************************************************)
(* The rpc thread finishes a handler it has started, the sweep thread      *)
(* loops for ever (its body is wrapped in try/except), and time passes.    *)
(* Miners, developers, saves and crashes owe nothing.                      *)
(***************************************************************************)
Fairness ==
  /\ WF_vars(RpcThread)
  /\ WF_vars(SweepThread)
  /\ \A j \in Jobs : WF_vars(DeadlinePasses(j))

Spec == Init /\ [][Next]_vars
FairSpec == Spec /\ Fairness
----------------------------------------------------------------------------
(* Properties *)

\* TypeOK: every record has its shape, and a roster is empty or has exactly
\* REDUNDANT_MINER_COUNT members
TypeOK ==
  /\ job \in [Jobs -> ComputeJob]
  /\ miner \in [Miners -> MinerProfile]
  /\ overdue \subseteq Jobs
  /\ due \subseteq Jobs
  /\ rpc \in RpcRecord
  /\ disk \in [job: [Jobs -> ComputeJob], miner: [Miners -> MinerProfile]]
  /\ env \in [saves: Nat, crashes: Nat, registrations: Nat]

\* EarnedOnce: a miner's jobs_completed never exceeds the submissions of his
\* flagged as credited, although two finalizers may credit the same job
EarnedOnce ==
  \A m \in Miners : miner[m].completed <= Cardinality({j \in Jobs : m \in job[j].credited})

\* CreditCorroborated: whoever is credited returned the recorded consensus
\* hash, and so did another member of the roster
CreditCorroborated ==
  \A j \in Jobs : \A m \in job[j].credited :
    /\ job[j].subs[m] = job[j].hash /\ job[j].hash # NoHash
    /\ \E other \in job[j].roster \ {m} : job[j].subs[other] = job[j].hash

\* SlashJustified: a slashed member of the roster never returned a result, or
\* returned another one than the consensus hash; a dispute slashes no returner
SlashJustified ==
  \A j \in Jobs : \A m \in Miners : job[j].strikes[m] > 0 =>
    /\ m \in job[j].roster
    /\ \/ job[j].subs[m] = NoHash
       \/ job[j].hash # NoHash /\ job[j].subs[m] # job[j].hash

\* VerdictCurrent: the stored verdict is the verdict of the submissions on
\* record: no result lands after the winners were chosen
VerdictCurrent ==
  \A j \in Jobs : job[j].hash # NoHash \/ job[j].outliers # {} =>
    /\ job[j].hash = ConsensusHash(job[j])
    /\ job[j].winners = Winners(job[j])
    /\ job[j].outliers = Outliers(job[j])

\* UnservedIsRefunded: unless a miner reported failure itself, a job that had
\* a roster and pays nobody owes its developer a refund once its finalizer is
\* through (crashes can lose the refund: env.crashes)
UnservedIsRefunded ==
  \A j \in Jobs :
    (/\ env.crashes = 0 /\ rpc.job # j
     /\ job[j].status = "disputed" \/ (job[j].status = "faulted" /\ job[j].outliers = job[j].roster))
    => (job[j].refund \/ job[j].roster = {})

\* RosterSettles: an assigned job does not stay assigned for ever
RosterSettles == \A j \in Jobs : job[j].status = "assigned" ~> job[j].status # "assigned"

\* WinnersPaid: every winner is credited, or the node crashed on the way
WinnersPaid ==
  \A j \in Jobs : \A m \in Miners :
    m \in job[j].winners ~> (m \in job[j].credited \/ env.crashes > 0)

\* FatesSpec: each critical section does to a job what JobFates allows, which
\* is all that the refund sweep relies on
Ledger ==
  INSTANCE JobFates WITH fate  <- [j \in Jobs |-> FateOf(job[j])],
                         saved <- [j \in Jobs |-> FateOf(disk.job[j])]
FatesSpec == Ledger!Spec

(***************************************************************************)
(* The inductive strengthening of CreditCorroborated, SlashJustified and   *)
(* VerdictCurrent: what a job's record says of itself, in memory and on    *)
(* disk, and what the rpc thread relies on between two critical sections.  *)
(***************************************************************************)
Unjudged(j) == j.hash = NoHash /\ j.winners = {} /\ j.outliers = {}

VerdictOnRecord(j) ==
  /\ j.hash = ConsensusHash(j)
  /\ j.winners = Winners(j)
  /\ j.outliers = Outliers(j)

JobInv(j) ==
  /\ j.status \in {"absent", "pending"} => Unjudged(j) /\ j.roster = {}
  /\ j.status = "assigned" => Unjudged(j) \/ Missing(j) = {}
  /\ Unjudged(j) \/ VerdictOnRecord(j)
  /\ j.credited \subseteq j.winners
  /\ \A m \in Miners : j.strikes[m] > 0 => m \in j.outliers

RpcInv ==
  /\ rpc.at # "idle" => rpc.job \in Jobs
  /\ rpc.at \in {"check", "judge", "settle"} =>
       job[rpc.job].status \in Settled \cup {"assigned"} /\ Missing(job[rpc.job]) = {}
  /\ rpc.at = "settle" => VerdictOnRecord(job[rpc.job])
  /\ rpc.at \in {"credit", "count", "slash", "ban"} => job[rpc.job].status \in Settled
  /\ rpc.at = "credit" => rpc.todo \subseteq job[rpc.job].winners
  /\ rpc.at \in {"count", "slash", "ban"} => rpc.todo \subseteq job[rpc.job].outliers
  /\ rpc.at \in {"slash", "ban"} => rpc.miner \in job[rpc.job].outliers

IInv ==
  /\ TypeOK
  /\ \A j \in Jobs : JobInv(job[j]) /\ JobInv(disk.job[j])
  /\ RpcInv

\* VerdictFinal: until the node crashes, a job that was settled keeps the
\* results it was judged by and the verdict drawn from them, although a second
\* finalizer may judge it again; all that can still happen is that a miner's
\* report faults it.  A job that was faulted unjudged may yet be judged.
VerdictFinal ==
  [][\A j \in Jobs : job[j].status \in Settled /\ env'.crashes = env.crashes =>
       /\ job'[j].status \in {job[j].status, "faulted"}
       /\ job'[j].roster = job[j].roster /\ job'[j].subs = job[j].subs
       /\ \/ Unjudged(job[j])
          \/ /\ job'[j].winners = job[j].winners /\ job'[j].outliers = job[j].outliers
             /\ job'[j].hash = job[j].hash]_vars
============================================================================
