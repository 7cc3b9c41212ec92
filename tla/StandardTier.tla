--------------------------- MODULE StandardTier ---------------------------
(***************************************************************************)
(* The life of a standard-tier compute job: one miner, an optimistic       *)
(* accept or a challenge, and the settlement that follows.                 *)
(* compute/verification.py, the standard branches of tokenomics/engine.py, *)
(* the /compute handlers of compute/api.py and the two daemons that call   *)
(* them (compute/miner.py, compute/challenger.py).                         *)
(*                                                                         *)
(*   rpc       the single thread of the HTTPServer                         *)
(*   watchdog  expires challenges under the verification lock and fires    *)
(*             on_pass after releasing it                                  *)
(*   persist   writes jobs and miners; challenges are not written          *)
(*   miners    each daemon asks for work, runs it, and returns it          *)
(*                                                                         *)
(* A critical section of the engine lock is one step.  The verification    *)
(* lock is held by the rpc thread from a FAILED verdict to its last        *)
(* callback, so the watchdog waits for it (VerificationLockFree).          *)
(***************************************************************************)
EXTENDS JobLedger

CONSTANTS
  Miners,            \* miner addresses
  Challenges,        \* challenge ids
  NoMiner, NoChallenge, \* whom and what an idle rpc thread works on
  MaxRegistrations   \* bound: register calls after start-up

ASSUME NoneAssumption  == NoMiner \notin Miners /\ NoChallenge \notin Challenges
ASSUME BoundAssumption == MaxRegistrations \in Nat

VARIABLES
  job,       \* TokenomicsEngine._jobs
  miner,     \* TokenomicsEngine._miners
  spec,      \* VerificationEngine._jobs: the jobs that can be challenged
  chal,      \* VerificationEngine._challenges
  overdue,   \* the challenges whose expires_at has passed
  hand,      \* what each miner's daemon is working on
  rpc,       \* what the rpc thread is in the middle of
  passes,    \* the watchdog's expired_passes, not yet called back
  disk,      \* tokenomics_state.json
  env        \* how often the environment has acted (bounds only)

vars == <<job, miner, spec, chal, overdue, hand, rpc, passes, disk, env>>

\* `accepts' counts optimistic and zk accepts, `credits' the payments (history)
ComputeJob ==
  [status: {"absent", "pending", "assigned", "done", "faulted"},
   assignee: Miners \cup {NoMiner}, refund: BOOLEAN, accepts: Nat, credits: Nat]

NewJob(status) ==
  [status |-> status, assignee |-> NoMiner, refund |-> FALSE, accepts |-> 0, credits |-> 0]

\* stake_oby: 0 none, 1 below MIN_STAKE_OBY, 2 eligible.  `ban' is
\* banned_until_block: unset, in the future, or behind the chain's height.
MinerProfile ==
  [known: BOOLEAN, stake: 0..2, ban: {"never", "now", "over"}, offences: Nat, completed: Nat]

Fresh(known, stake) ==
  [known |-> known, stake |-> stake, ban |-> "never", offences |-> 0, completed |-> 0]

Eligible == {m \in Miners : miner[m].known /\ miner[m].stake = 2 /\ miner[m].ban # "now"}

Decided == {"passed", "failed", "expired"}
Challenge ==
  [status: {"unissued", "pending"} \cup Decided, job: Jobs \cup {NoJob}, miner: Miners \cup {NoMiner}]
Unissued == [status |-> "unissued", job |-> NoJob, miner |-> NoMiner]

RpcRecord ==
  [at: {"idle", "assign", "accept", "verdict", "refund", "ban"},
   job: Jobs \cup {NoJob}, miner: Miners \cup {NoMiner}, chal: Challenges \cup {NoChallenge},
   offences: Nat, stake: 0..2]
Idle == [at |-> "idle", job |-> NoJob, miner |-> NoMiner, chal |-> NoChallenge,
         offences |-> 0, stake |-> 0]

VerificationLockFree == rpc.at \notin {"refund", "ban"}

(***************************************************************************)
(* _on_pass for the standard tier: gated on the job not being done.        *)
(***************************************************************************)
PassDueIfAssigned(j, m) == job[j].status = "assigned" /\ miner[m].known
PassDue(j, m) == job[j].status \notin {"absent", "done"} /\ miner[m].known

OnPass(j, m) ==
  IF PassDue(j, m)
  THEN /\ job' = [job EXCEPT ![j].status = "done", ![j].credits = @ + 1]
       /\ miner' = [miner EXCEPT ![m].completed = @ + 1]
  ELSE UNCHANGED <<job, miner>>
----------------------------------------------------------------------------
(* The rpc thread: submission, assignment and polling *)

\* submit_job_with_verification: ledger and JobSpec in one critical section;
\* assign_job follows in another one
Submit(j) ==
  /\ rpc.at = "idle"
  /\ job[j].status = "absent"
  /\ job' = [job EXCEPT ![j] = NewJob("pending")]
  /\ spec' = spec \cup {j}
  /\ rpc' = [Idle EXCEPT !.at = "assign", !.job = j]
  /\ UNCHANGED <<miner, chal, overdue, hand, passes, disk, env>>

AssignedUnnamed(j, m) == [job[j] EXCEPT !.status = "assigned"]
Assigned(j, m) == [job[j] EXCEPT !.assignee = m, !.status = "assigned"]

Assign(j) ==
  /\ rpc.at = "assign" /\ rpc.job = j
  /\ \/ \E m \in Eligible : job' = [job EXCEPT ![j] = Assigned(j, m)]
     \/ Eligible = {} /\ UNCHANGED job
  /\ rpc' = Idle
  /\ UNCHANGED <<miner, spec, chal, overdue, hand, passes, disk, env>>

\* next_job, first pass: a job already assigned to this miner, whether or not
\* a result for it is being challenged
Resume(j, m) ==
  /\ rpc.at = "idle"
  /\ hand[m] = NoJob
  /\ job[j].status = "assigned" /\ job[j].assignee = m
  /\ hand' = [hand EXCEPT ![m] = j]
  /\ UNCHANGED <<job, miner, spec, chal, overdue, rpc, passes, disk, env>>

\* next_job, second pass: pending jobs are drawn one after another, for
\* whomever the draw names, until one lands on the caller
PendingOrFaulted == {j \in Jobs : job[j].status \in {"pending", "faulted"}}
Pending == {j \in Jobs : job[j].status = "pending"}
Draw(m) ==
  /\ rpc.at = "idle"
  /\ hand[m] = NoJob
  /\ Pending # {}
  /\ \A j \in Jobs : ~(job[j].status = "assigned" /\ job[j].assignee = m)
  /\ \E drawn \in SUBSET Pending : \E to \in [drawn -> Eligible] :
       LET mine == {j \in drawn : to[j] = m} IN
       /\ drawn # {}
       /\ \/ mine = {} /\ drawn = Pending /\ UNCHANGED hand
          \/ \E j \in drawn : mine = {j} /\ hand' = [hand EXCEPT ![m] = j]
       /\ job' = [j \in Jobs |-> IF j \in drawn THEN Assigned(j, to[j]) ELSE job[j]]
  /\ UNCHANGED <<miner, spec, chal, overdue, rpc, passes, disk, env>>

(***************************************************************************)
(* complete_job_with_verification.  The job's status is not looked at.     *)
(***************************************************************************)
Admits(j, m) ==
  /\ job[j].status # "absent"
  /\ miner[m].known
  /\ job[j].assignee \in {m, NoMiner}

Returns(j, m) ==
  /\ rpc.at = "idle"
  /\ hand[m] = j
  /\ hand' = [hand EXCEPT ![m] = NoJob]

Reject(j, m) ==
  /\ Returns(j, m)
  /\ ~Admits(j, m)
  /\ UNCHANGED <<job, miner, spec, chal, overdue, rpc, passes, disk, env>>

\* accepted by VerificationEngine.submit_result (no challenge drawn, no
\* JobSpec, or a zk proof), not yet credited
Accept(j, m) ==
  /\ Returns(j, m)
  /\ Admits(j, m)
  /\ rpc' = [Idle EXCEPT !.at = "accept", !.job = j, !.miner = m]
  /\ UNCHANGED <<job, miner, spec, chal, overdue, passes, disk, env>>

CreditAccepted(j, m) ==
  /\ rpc.at = "accept" /\ rpc.job = j /\ rpc.miner = m
  /\ job' = [job EXCEPT ![j].status = "done", ![j].accepts = @ + 1, ![j].credits = @ + 1]
  /\ miner' = [miner EXCEPT ![m].completed = @ + 1]
  /\ rpc' = Idle
  /\ UNCHANGED <<spec, chal, overdue, hand, passes, disk, env>>

\* _issue_challenge; the job keeps its status
IssueChallenge(j, m, c) ==
  /\ Returns(j, m)
  /\ Admits(j, m)
  /\ j \in spec
  /\ chal[c].status = "unissued"
  /\ chal' = [chal EXCEPT ![c] = [status |-> "pending", job |-> j, miner |-> m]]
  /\ UNCHANGED <<job, miner, spec, overdue, rpc, passes, disk, env>>

\* the daemon reports that it cannot run the job
SelfReportFailed(j, m) ==
  /\ Returns(j, m)
  /\ IF job[j].status = "absent" THEN UNCHANGED job
     ELSE job' = [job EXCEPT ![j].status = "faulted"]
  /\ UNCHANGED <<miner, spec, chal, overdue, rpc, passes, disk, env>>

\* a daemon that is stopped, or that drops a job type it does not know
Abandon(m) ==
  /\ hand[m] # NoJob
  /\ hand' = [hand EXCEPT ![m] = NoJob]
  /\ UNCHANGED <<job, miner, spec, chal, overdue, rpc, passes, disk, env>>

RegisterMiner(m, stake) ==
  /\ rpc.at = "idle"
  /\ env.registrations < MaxRegistrations
  /\ miner' = [miner EXCEPT ![m] = Fresh(TRUE, stake)]
  /\ env' = [env EXCEPT !.registrations = @ + 1]
  /\ UNCHANGED <<job, spec, chal, overdue, hand, rpc, passes, disk>>
----------------------------------------------------------------------------
(***************************************************************************)
(* resolve_job_challenge: stake and offences are read, the lock is         *)
(* released, then resolve_challenge decides under the verification lock.   *)
(* Anybody may post any rerun hash, so a rerun may match or not.           *)
(***************************************************************************)
ReadChallenge(c) ==
  LET m == chal[c].miner IN
  /\ rpc.at = "idle"
  /\ chal[c].status = "pending"
  /\ rpc' = [at |-> "verdict", job |-> chal[c].job, miner |-> m, chal |-> c,
             offences |-> miner[m].offences, stake |-> miner[m].stake]
  /\ UNCHANGED <<job, miner, spec, chal, overdue, hand, passes, disk, env>>

Undecided(c) == chal[c].status = "pending"

Deciding(c) == rpc.at = "verdict" /\ rpc.chal = c

VerdictTooLate(c) ==
  /\ Deciding(c)
  /\ ~Undecided(c)
  /\ rpc' = Idle
  /\ UNCHANGED <<job, miner, spec, chal, overdue, hand, passes, disk, env>>

\* past its window a challenge passes whatever the rerun said
VerdictPass(c, verdict) ==
  /\ Deciding(c)
  /\ Undecided(c)
  /\ verdict = IF c \in overdue THEN "expired" ELSE "passed"
  /\ chal' = [chal EXCEPT ![c].status = verdict]
  /\ OnPass(rpc.job, rpc.miner)
  /\ rpc' = Idle
  /\ UNCHANGED <<spec, overdue, hand, passes, disk, env>>

\* the count that resolve_challenge makes of what it was handed
StruckBefore == rpc.offences
Struck == rpc.offences + 1

\* on_slash: the job faults, the offence count becomes the caller's
VerdictFail(c, stake) ==
  LET m == rpc.miner IN
  /\ Deciding(c)
  /\ Undecided(c)
  /\ c \notin overdue
  /\ stake \in IF miner[m].stake = 2 THEN {1, 2} ELSE {miner[m].stake}
  /\ chal' = [chal EXCEPT ![c].status = "failed"]
  /\ IF miner[m].known
     THEN /\ miner' = [miner EXCEPT ![m].stake = stake, ![m].offences = Struck]
          /\ job' = IF job[rpc.job].status = "absent" THEN job
                    ELSE [job EXCEPT ![rpc.job].status = "faulted"]
     ELSE UNCHANGED <<job, miner>>
  /\ rpc' = [rpc EXCEPT !.at = "refund"]
  /\ UNCHANGED <<spec, overdue, hand, passes, disk, env>>

\* on_refund: min(slashed, 2 x payment), if positive
RefundFirstOnly == rpc.stake > 0 /\ rpc.offences = 0
RefundDue == rpc.stake > 0
RefundFailure ==
  /\ rpc.at = "refund"
  /\ job' = IF RefundDue /\ job[rpc.job].status # "absent"
            THEN [job EXCEPT ![rpc.job].refund = TRUE] ELSE job
  /\ rpc' = [rpc EXCEPT !.at = "ban"]
  /\ UNCHANGED <<miner, spec, chal, overdue, hand, passes, disk, env>>

\* on_ban from the second offence on
BanDue == rpc.offences + 1 >= 2
BanFailure ==
  /\ rpc.at = "ban"
  /\ miner' = IF BanDue /\ miner[rpc.miner].known
              THEN [miner EXCEPT ![rpc.miner].ban = "now"] ELSE miner
  /\ rpc' = Idle
  /\ UNCHANGED <<job, spec, chal, overdue, hand, passes, disk, env>>
----------------------------------------------------------------------------
(* The watchdog: _expiry_loop *)

StaleRegardless == {c \in Challenges : chal[c].status # "unissued" /\ c \in overdue}
StaleOpen ==
  {c \in Challenges : /\ chal[c].status = "pending" /\ c \in overdue
                      /\ job[chal[c].job].status = "assigned"}
StalePending == {c \in Challenges : chal[c].status = "pending" /\ c \in overdue}
WatchdogExpire ==
  /\ VerificationLockFree
  /\ passes = {}
  /\ StalePending # {}
  /\ chal' = [c \in Challenges |->
               IF c \in StalePending THEN [chal[c] EXCEPT !.status = "expired"] ELSE chal[c]]
  /\ passes' = StalePending
  /\ UNCHANGED <<job, miner, spec, overdue, hand, rpc, disk, env>>

WatchdogPass(c) ==
  /\ c \in passes
  /\ OnPass(chal[c].job, chal[c].miner)
  /\ passes' = passes \ {c}
  /\ UNCHANGED <<spec, chal, overdue, hand, rpc, disk, env>>
----------------------------------------------------------------------------
(* Time, disk and crashes *)

WindowCloses(c) ==
  /\ chal[c].status # "unissued"
  /\ c \notin overdue
  /\ overdue' = overdue \cup {c}
  /\ UNCHANGED <<job, miner, spec, chal, hand, rpc, passes, disk, env>>

BanEnds(m) ==
  /\ miner[m].ban = "now"
  /\ miner' = [miner EXCEPT ![m].ban = "over"]
  /\ UNCHANGED <<job, spec, chal, overdue, hand, rpc, passes, disk, env>>

Save ==
  /\ env.saves < MaxSaves
  /\ disk' = [job |-> job, miner |-> miner]
  /\ env' = [env EXCEPT !.saves = @ + 1]
  /\ UNCHANGED <<job, miner, spec, chal, overdue, hand, rpc, passes>>

Empty == [job |-> [j \in Jobs |-> NewJob("absent")], miner |-> [m \in Miners |-> Fresh(FALSE, 0)]]

\* load() restores jobs and miners and re-registers the specs of open jobs;
\* challenges are gone; a half-written file is rejected and the node starts
\* empty.  The miners' daemons live on.
Crash ==
  /\ env.crashes < MaxCrashes
  /\ \E snapshot \in {disk, Empty} :
       /\ job' = snapshot.job /\ miner' = snapshot.miner /\ disk' = snapshot
       /\ spec' = {j \in Jobs : snapshot.job[j].status \in {"pending", "assigned"}}
  /\ chal' = [c \in Challenges |-> Unissued]
  /\ overdue' = {} /\ passes' = {} /\ rpc' = Idle
  /\ env' = [env EXCEPT !.crashes = @ + 1]
  /\ UNCHANGED hand
----------------------------------------------------------------------------
Init ==
  /\ job = [j \in Jobs |-> NewJob("absent")]
  /\ miner \in {[m \in Miners |-> Fresh(stake[m] # 3, stake[m] % 3)] : stake \in [Miners -> 0..3]}
  /\ spec = {} /\ overdue = {} /\ passes = {}
  /\ chal = [c \in Challenges |-> Unissued]
  /\ hand = [m \in Miners |-> NoJob]
  /\ rpc = Idle
  /\ disk = Empty
  /\ env = [saves |-> 0, crashes |-> 0, registrations |-> 0]

RpcVerdict(c) ==
  \/ VerdictTooLate(c)
  \/ \E verdict \in {"passed", "expired"} : VerdictPass(c, verdict)
  \/ \E stake \in 0..2 : VerdictFail(c, stake)

\* what the rpc thread does once it has started a handler
RpcThread ==
  \/ \E j \in Jobs : Assign(j) \/ \E m \in Miners : CreditAccepted(j, m)
  \/ \E c \in Challenges : RpcVerdict(c)
  \/ RefundFailure \/ BanFailure

WatchdogThread == WatchdogExpire \/ \E c \in Challenges : WatchdogPass(c)

Miner(m) ==
  \/ Draw(m) \/ Abandon(m)
  \/ \E j \in Jobs :
       \/ Resume(j, m) \/ Reject(j, m) \/ Accept(j, m) \/ SelfReportFailed(j, m)
       \/ \E c \in Challenges : IssueChallenge(j, m, c)

Next ==
  \/ RpcThread \/ WatchdogThread
  \/ \E j \in Jobs : Submit(j)
  \/ \E m \in Miners : Miner(m) \/ BanEnds(m) \/ \E stake \in 0..2 : RegisterMiner(m, stake)
  \/ \E c \in Challenges : ReadChallenge(c) \/ WindowCloses(c)
  \/ Save \/ Crash

(***************************************************************************)
(* The rpc thread finishes what it started, the watchdog loops for ever,   *)
(* an hour passes.  Miners, challengers and developers owe nothing.        *)
(***************************************************************************)
Fairness ==
  /\ WF_vars(RpcThread)
  /\ WF_vars(WatchdogThread)
  /\ \A c \in Challenges : WF_vars(WindowCloses(c))

Spec == Init /\ [][Next]_vars
FairSpec == Spec /\ Fairness
----------------------------------------------------------------------------
(* Properties *)

\* TypeOK: every record has its shape, and an assigned job names its assignee
TypeOK ==
  /\ job \in [Jobs -> ComputeJob]
  /\ \A j \in Jobs : job[j].status = "assigned" => job[j].assignee # NoMiner
  /\ miner \in [Miners -> MinerProfile]
  /\ spec \subseteq Jobs
  /\ chal \in [Challenges -> Challenge]
  /\ overdue \subseteq Challenges /\ passes \subseteq Challenges
  /\ hand \in [Miners -> Jobs \cup {NoJob}]
  /\ rpc \in RpcRecord
  /\ disk \in [job: [Jobs -> ComputeJob], miner: [Miners -> MinerProfile]]
  /\ env \in [saves: Nat, crashes: Nat, registrations: Nat]

Failures(m) == {c \in Challenges : chal[c].status = "failed" /\ chal[c].miner = m}
Passed(j) == {c \in Challenges : chal[c].status \in {"passed", "expired"} /\ chal[c].job = j}

\* DecidedOnce: a challenge that was decided keeps its verdict, although the
\* resolver reads it before taking the lock and the watchdog may come between
DecidedOnce ==
  [][\A c \in Challenges : chal[c].status \in Decided =>
       chal'[c] = chal[c] \/ env'.crashes > env.crashes]_vars

\* OffencesMatchVerdicts: a miner's offence_count is the number of challenges
\* he lost, though it is read before and written after the verdict; and once
\* the resolver is through, whoever lost two has been banned
OffencesMatchVerdicts ==
  env.crashes + env.registrations = 0 =>
    \A m \in Miners :
      LET lost == Cardinality(Failures(m))
      IN /\ miner[m].known => miner[m].offences = lost
         /\ lost >= 2 /\ rpc.miner # m => miner[m].ban # "never"

\* PaidPerAcceptance: a job is paid at most once for each optimistic accept and
\* each challenge that ended in the miner's favour
PaidPerAcceptance ==
  env.crashes = 0 =>
    \A j \in Jobs : job[j].credits <= job[j].accepts + Cardinality(Passed(j))

\* FailureRefunded: once the resolver is through, a job with a lost challenge
\* owes its developer a refund, unless the miner had nothing at stake
FailureRefunded ==
  env.crashes + env.registrations = 0 =>
    \A c \in Challenges :
      chal[c].status = "failed" /\ rpc.chal # c /\ miner[chal[c].miner].stake > 0
        => job[chal[c].job].refund

\* ChallengesSettle: no challenge stays pending for ever
ChallengesSettle ==
  \A c \in Challenges : chal[c].status = "pending" ~> chal[c].status # "pending"

\* PassesPaid: a challenge that ended in the miner's favour pays for the job,
\* unless the node crashes before the callback
PassesPaid ==
  \A j \in Jobs : Passed(j) # {} ~> (job[j].credits > 0 \/ env.crashes > 0)

\* FatesSpec: each critical section does to a job what JobFates allows, which
\* is all that the refund sweep relies on
Ledger ==
  INSTANCE JobFates WITH fate  <- [j \in Jobs |-> FateOf(job[j])],
                         saved <- [j \in Jobs |-> FateOf(disk.job[j])]
FatesSpec == Ledger!Spec

(* What the code does not do *)

\* PaidOnce: a job is paid for once ("per-job idempotency, so a slow expiry
\* firing after a manual resolve doesn't double-credit")
PaidOnce == \A j \in Jobs : job[j].credits <= 1
============================================================================
