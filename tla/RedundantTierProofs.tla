------------------------ MODULE RedundantTierProofs ------------------------
(***************************************************************************)
(* RedundantTier for every set of jobs, miners and hashes, every roster    *)
(* size above one and any number of saves, crashes and registrations: the  *)
(* type invariant, and the statements about who is paid, who is slashed and*)
(* who is refunded, by the inductive invariant IInv and two that rest on   *)
(* it.  At the end RefundSweep, which pays the refunds out, by its own     *)
(* inductive invariant RefundsInv.                                         *)
(***************************************************************************)
EXTENDS RedundantTier, RefundSweep, FiniteSetTheorems, TLAPS

(***************************************************************************)
(* The verdict as a function of the roster and the submissions.            *)
(***************************************************************************)

\* The winning hash is a hash that wins, or there is none.
LEMMA ConsensusHashIs ==
  ASSUME NEW j
  PROVE  \/ ConsensusHash(j) = NoHash
         \/ /\ ConsensusHash(j) \in Hashes
            /\ ConsensusHash(j) # NoHash
            /\ Wins(j.roster, j.subs, ConsensusHash(j))
  BY NoJobAssumption, NoneAssumption DEF ConsensusHash, Plurality

\* A roster is a finite set of miners.
LEMMA RosterIs ==
  ASSUME NEW j \in ComputeJob
  PROVE  j.roster \subseteq Miners /\ IsFiniteSet(j.roster)
<1>1. j.roster \subseteq Miners
  BY DEF ComputeJob, Rosters
<1>2. QED
  BY <1>1, RosterAssumption, FS_Subset

\* Winners returned the winning hash; whoever is slashed is on the roster and
\* returned nothing, or lost to a winning hash he did not return.
LEMMA WinnersAre ==
  ASSUME NEW j \in ComputeJob
  PROVE  /\ ConsensusHash(j) \in Hashes \cup {NoHash}
         /\ Winners(j) \in SUBSET Miners
         /\ Outliers(j) \in SUBSET Miners
         /\ \A m \in Winners(j) :
              ConsensusHash(j) # NoHash /\ m \in j.roster /\ j.subs[m] = ConsensusHash(j)
         /\ \A m \in Outliers(j) :
              /\ m \in j.roster
              /\ \/ j.subs[m] = NoHash
                 \/ ConsensusHash(j) # NoHash /\ j.subs[m] # ConsensusHash(j)
<1>1. ConsensusHash(j) \in Hashes \cup {NoHash}
  BY ConsensusHashIs
<1>2. j.roster \subseteq Miners
  BY RosterIs
<1>3. QED
  BY <1>1, <1>2 DEF Winners, Outliers, Votes, Missing, Returned

\* The verdict reads the roster and the submissions and nothing else.
LEMMA SameVerdict ==
  ASSUME NEW j, NEW k, j.roster = k.roster, j.subs = k.subs
  PROVE  /\ ConsensusHash(j) = ConsensusHash(k)
         /\ Winners(j) = Winners(k)
         /\ Outliers(j) = Outliers(k)
         /\ Missing(j) = Missing(k)
         /\ Verdict(j) = Verdict(k)
<1>1. ConsensusHash(j) = ConsensusHash(k)
  BY DEF ConsensusHash
<1>2. Returned(j) = Returned(k)
  BY DEF Returned
<1>3. QED
  BY <1>1, <1>2 DEF Winners, Outliers, Missing, Verdict

\* Storing the verdict on a job keeps its shape, and judging it again would
\* store the same verdict: a second finalizer repeats the first.
LEMMA RecordedIs ==
  ASSUME NEW j \in ComputeJob
  PROVE  /\ Recorded(j) \in ComputeJob
         /\ VerdictOnRecord(Recorded(j))
         /\ Recorded(j).winners = Winners(j)
         /\ Recorded(j).outliers = Outliers(j)
         /\ Recorded(j).hash = ConsensusHash(j)
         /\ Recorded(j).status = j.status
         /\ Recorded(j).roster = j.roster
         /\ Recorded(j).subs = j.subs
         /\ Recorded(j).credited = j.credited
         /\ Recorded(j).strikes = j.strikes
         /\ Missing(Recorded(j)) = Missing(j)
<1>1. /\ Recorded(j) \in ComputeJob
      /\ Recorded(j).winners = Winners(j)
      /\ Recorded(j).outliers = Outliers(j)
      /\ Recorded(j).hash = ConsensusHash(j)
      /\ Recorded(j).status = j.status
      /\ Recorded(j).roster = j.roster
      /\ Recorded(j).subs = j.subs
      /\ Recorded(j).credited = j.credited
      /\ Recorded(j).strikes = j.strikes
  BY WinnersAre DEF Recorded, ComputeJob
<1>2. QED
  BY <1>1, SameVerdict DEF VerdictOnRecord

\* A verdict is a settled status.
LEMMA VerdictSettles == ASSUME NEW j PROVE Verdict(j) \in Settled
  BY DEF Verdict, Settled

\* A winner never stands alone: another member of the roster returned the
\* winning hash.  With two returns and every other bucket smaller than his own,
\* a bucket of one would leave nobody else to have returned anything.
LEMMA Corroborated ==
  ASSUME NEW j \in ComputeJob, NEW m \in Winners(j)
  PROVE  \E other \in j.roster \ {m} : j.subs[other] = ConsensusHash(j)
<1> DEFINE h == ConsensusHash(j)
<1> DEFINE Back(g) == Votes(j.roster, j.subs, g)
<1>1. h \in Hashes /\ h # NoHash /\ Wins(j.roster, j.subs, h)
  BY ConsensusHashIs, WinnersAre
<1>2. IsFiniteSet(j.roster) /\ j.roster \subseteq Miners
  BY RosterIs
<1>3. m \in Back(h)
  BY <1>1 DEF Winners
<1>4. SUFFICES ASSUME \A other \in j.roster \ {m} : j.subs[other] # h
               PROVE  FALSE
  OBVIOUS
<1>5. Back(h) = {m}
  BY <1>3, <1>4 DEF Votes
<1>6. Cardinality(Back(h)) = 1
  BY <1>5, FS_Singleton
<1>7. ASSUME NEW g \in Hashes \ {h} PROVE Back(g) = {}
  <2>1. IsFiniteSet(Back(g))
    BY <1>2, FS_Subset DEF Votes
  <2>2. Cardinality(Back(g)) \in Nat
    BY <2>1, FS_CardinalityType
  <2>3. Cardinality(Back(g)) < 1
    BY <1>1, <1>6 DEF Wins
  <2>4. Cardinality(Back(g)) = 0
    BY <2>2, <2>3
  <2>5. QED
    BY <2>1, <2>4, FS_EmptySet
<1>8. \A x \in j.roster : j.subs[x] # NoHash => j.subs[x] \in Hashes
  BY <1>2 DEF ComputeJob
<1>9. {x \in j.roster : j.subs[x] # NoHash} = {m}
  <2>1. ASSUME NEW x \in j.roster, j.subs[x] # NoHash PROVE x = m
    <3>1. j.subs[x] \in Hashes
      BY <1>8, <2>1
    <3>2. x \in Back(j.subs[x])
      BY DEF Votes
    <3>3. j.subs[x] = h
      BY <1>7, <3>1, <3>2
    <3>4. QED
      BY <1>4, <3>3
  <2>2. m \in j.roster /\ j.subs[m] # NoHash
    BY <1>1, <1>3 DEF Votes
  <2>3. QED
    BY <2>1, <2>2
<1>10. Cardinality({x \in j.roster : j.subs[x] # NoHash}) = 1
  BY <1>9, FS_Singleton
<1>11. QED
  BY <1>1, <1>10 DEF Wins

(***************************************************************************)
(* What each critical section does to one record of the ledger.            *)
(***************************************************************************)

\* Recording the verdict keeps what a record says of itself, as long as the
\* record is settled by it or waits for nobody.
LEMMA RecordedInv ==
  ASSUME NEW j \in ComputeJob, JobInv(j),
         j.status \in Settled \/ (j.status = "assigned" /\ Missing(j) = {})
  PROVE  JobInv(Recorded(j))
<1>1. CASE Unjudged(j)
  <2>1. j.credited = {} /\ \A m \in Miners : ~(j.strikes[m] > 0)
    BY <1>1 DEF JobInv, Unjudged
  <2>2. QED
    BY <2>1, RecordedIs DEF JobInv, Settled
<1>2. CASE VerdictOnRecord(j)
  BY <1>2, RecordedIs DEF JobInv, VerdictOnRecord, Settled
<1>3. QED
  BY <1>1, <1>2 DEF JobInv

\* A record with its verdict may be settled at any time.
LEMMA SettleInv ==
  ASSUME NEW j \in ComputeJob, JobInv(j), VerdictOnRecord(j), NEW s \in Settled
  PROVE  LET k == [j EXCEPT !.status = s]
         IN  k \in ComputeJob /\ JobInv(k) /\ VerdictOnRecord(k)
<1> DEFINE k == [j EXCEPT !.status = s]
<1>1. /\ k \in ComputeJob /\ k.status = s /\ k.roster = j.roster /\ k.subs = j.subs
      /\ k.winners = j.winners /\ k.outliers = j.outliers /\ k.hash = j.hash
      /\ k.credited = j.credited /\ k.strikes = j.strikes
  BY DEF ComputeJob
<1> HIDE DEF k
<1>2. VerdictOnRecord(k)
  BY <1>1, SameVerdict DEF VerdictOnRecord
<1>3. JobInv(k)
  BY <1>1, <1>2 DEF JobInv, Settled
<1>4. QED
  BY <1>1, <1>2, <1>3 DEF k

\* A fresh record is unjudged.
LEMMA NewJobInv ==
  ASSUME NEW s \in {"absent", "pending"}
  PROVE  NewJob(s) \in ComputeJob /\ JobInv(NewJob(s))
<1>1. NewJob(s) \in ComputeJob
  BY DEF NewJob, ComputeJob
<1>2. Unjudged(NewJob(s))
  BY DEF NewJob, Unjudged
<1>3. QED
  BY <1>1, <1>2 DEF JobInv, NewJob

\* A miner's profile keeps its shape through every callback.
LEMMA ProfileIs ==
  ASSUME NEW j, NEW p \in MinerProfile, NEW m, NEW keepsStake \in BOOLEAN, NEW n \in Nat
  PROVE  /\ Credited(j, p, m) \in MinerProfile
         /\ Slashed(p, keepsStake, n) \in MinerProfile
         /\ Banned(p, n) \in MinerProfile
<1>1. Credited(j, p, m) \in MinerProfile
  BY DEF Credited, MinerProfile
<1>2. Slashed(p, keepsStake, n) \in MinerProfile
  BY DEF Slashed, MinerProfile
<1>3. Banned(p, n) \in MinerProfile
  BY DEF Banned, MinerProfile
<1>4. QED
  BY <1>1, <1>2, <1>3

\* The sweep's critical section: verdict, credits, strikes and refund at once.
LEMMA FinalizedInv ==
  ASSUME NEW j \in ComputeJob, JobInv(j), j.status \in {"absent", "pending", "assigned"}
  PROVE  /\ Finalized(j) \in ComputeJob /\ JobInv(Finalized(j))
         /\ Finalized(j).status \in Settled /\ VerdictOnRecord(Finalized(j))
         /\ Missing(Finalized(j)) = Missing(j)
<1> DEFINE v == Judged(j)
           paid == {m \in v.winners : CreditDue(j, miner[m], m)}
           f == Finalized(j)
<1>1. /\ v \in ComputeJob /\ v.status = Verdict(j) /\ v.status \in Settled
      /\ v.roster = j.roster /\ v.subs = j.subs
      /\ v.winners = Winners(j) /\ v.outliers = Outliers(j) /\ v.hash = ConsensusHash(j)
      /\ v.credited = j.credited /\ v.strikes = j.strikes
  BY RecordedIs, VerdictSettles DEF Judged, ComputeJob
<1>2. /\ v.credited \subseteq v.winners
      /\ \A m \in Miners : j.strikes[m] > 0 => m \in v.outliers
  <2>1. CASE Unjudged(j)
    BY <1>1, <2>1 DEF JobInv, Unjudged
  <2>2. CASE VerdictOnRecord(j)
    BY <1>1, <2>2 DEF JobInv, VerdictOnRecord
  <2>3. QED
    BY <2>1, <2>2 DEF JobInv
<1>3. v.winners \subseteq Miners /\ v.outliers \subseteq Miners
  BY <1>1, WinnersAre
<1> HIDE DEF v
<1>4. /\ Refunded(v) \in ComputeJob
      /\ Refunded(v).status = v.status /\ Refunded(v).roster = v.roster
      /\ Refunded(v).subs = v.subs /\ Refunded(v).winners = v.winners
      /\ Refunded(v).outliers = v.outliers /\ Refunded(v).hash = v.hash
      /\ Refunded(v).credited = v.credited /\ Refunded(v).strikes = v.strikes
  BY <1>1 DEF Refunded, ComputeJob
<1> DEFINE r == Refunded(v)
           strikes == [m \in Miners |-> IF m \in v.outliers THEN r.strikes[m] + 1 ELSE r.strikes[m]]
<1>5. f = [r EXCEPT !.credited = r.credited \cup paid, !.strikes = strikes]
  BY DEF Finalized, v
<1>6. strikes \in [Miners -> Nat]
  BY <1>4 DEF ComputeJob
<1>7. paid \subseteq v.winners
  OBVIOUS
<1> HIDE DEF f, r, paid, strikes
<1>8. /\ f \in ComputeJob
      /\ f.status = v.status /\ f.roster = v.roster /\ f.subs = v.subs
      /\ f.winners = v.winners /\ f.outliers = v.outliers /\ f.hash = v.hash
      /\ f.credited = v.credited \cup paid /\ f.strikes = strikes
  BY <1>3, <1>4, <1>5, <1>6, <1>7 DEF ComputeJob, r
<1>9. VerdictOnRecord(f)
  BY <1>1, <1>8, SameVerdict DEF VerdictOnRecord
<1>10. \A m \in Miners : f.strikes[m] > 0 => m \in f.outliers
  BY <1>1, <1>2, <1>4, <1>8 DEF strikes, r
<1>11. JobInv(f)
  BY <1>1, <1>2, <1>7, <1>8, <1>9, <1>10 DEF JobInv, Settled
<1>12. Missing(f) = Missing(j)
  BY <1>1, <1>8, SameVerdict
<1>13. QED
  BY <1>1, <1>8, <1>9, <1>11, <1>12 DEF f

(***************************************************************************)
(* The inductive step, one lemma for each thread.                          *)
(***************************************************************************)

\* The ledger after one of its records was replaced.
LEMMA Replaced ==
  ASSUME TypeOK, \A j \in Jobs : JobInv(job[j]),
         NEW j \in Jobs, NEW k \in ComputeJob, JobInv(k), job' = [job EXCEPT ![j] = k]
  PROVE  /\ job' \in [Jobs -> ComputeJob]
         /\ \A i \in Jobs : JobInv(job'[i])
         /\ job'[j] = k
         /\ \A i \in Jobs \ {j} : job'[i] = job[i]
  BY DEF TypeOK

\* The rpc thread's places.
LEMMA IdleIs ==
  /\ Idle \in RpcRecord
  /\ Idle.at = "idle"
  /\ \A place \in {"assign", "check"}, j \in Jobs :
       LET r == [Idle EXCEPT !.at = place, !.job = j]
       IN  r \in RpcRecord /\ r.at = place /\ r.job = j
  BY DEF Idle, RpcRecord

\* The inductive invariant holds of an empty ledger.
LEMMA InitInv == Init => IInv
<1> SUFFICES ASSUME Init PROVE IInv
  OBVIOUS
<1>1. \A known \in SUBSET Miners, staked \in SUBSET Miners :
        [m \in Miners |-> Fresh(m \in known, m \in staked)] \in [Miners -> MinerProfile]
  BY DEF Fresh, MinerProfile
<1>2. miner \in [Miners -> MinerProfile]
  BY <1>1 DEF Init
<1>3. Empty.job \in [Jobs -> ComputeJob] /\ \A j \in Jobs : JobInv(Empty.job[j])
  BY NewJobInv DEF Empty
<1>4. Empty \in [job: [Jobs -> ComputeJob], miner: [Miners -> MinerProfile]]
  BY <1>3 DEF Empty, Fresh, MinerProfile
<1>5. job = Empty.job
  BY DEF Init, Empty
<1>6. TypeOK
  BY <1>2, <1>3, <1>4, <1>5, IdleIs DEF Init, TypeOK
<1>7. RpcInv
  BY IdleIs DEF Init, RpcInv
<1>8. QED
  BY <1>3, <1>5, <1>6, <1>7 DEF IInv, Init

\* Submission and assignment.
LEMMA SubmitInv == ASSUME IInv, NEW j \in Jobs, Submit(j) PROVE IInv'
<1>1. /\ job' \in [Jobs -> ComputeJob]
      /\ \A i \in Jobs : JobInv(job'[i])
  BY NewJobInv, Replaced DEF IInv, Submit
<1>2. rpc' \in RpcRecord /\ rpc'.at = "assign" /\ rpc'.job = j
  BY IdleIs DEF Submit
<1>3. TypeOK'
  BY <1>1, <1>2 DEF IInv, TypeOK, Submit
<1>4. RpcInv'
  BY <1>2 DEF RpcInv
<1>5. QED
  BY <1>1, <1>3, <1>4 DEF IInv, Submit

\* Assignment gives a pending job its roster.
LEMMA AssignInv == ASSUME IInv, NEW j \in Jobs, Assign(j) PROVE IInv'
<1>1. rpc' = Idle
  BY DEF Assign
<1>2. RpcInv'
  BY <1>1, IdleIs DEF RpcInv
<1>3. CASE job' = job
  <2>1. TypeOK'
    BY <1>1, <1>3, IdleIs DEF IInv, TypeOK, Assign
  <2>2. QED
    BY <1>2, <1>3, <2>1 DEF IInv, Assign
<1>4. ASSUME NEW R \in Picks, job[j].status = "pending",
             job' = [job EXCEPT ![j].roster = R, ![j].status = "assigned"]
      PROVE  IInv'
  <2> DEFINE k == [job[j] EXCEPT !.roster = R, !.status = "assigned"]
  <2>1. job[j] \in ComputeJob /\ JobInv(job[j])
    BY DEF IInv, TypeOK
  <2>2. k \in ComputeJob
    BY <2>1 DEF Picks, ComputeJob
  <2>3. Unjudged(job[j])
    BY <1>4, <2>1 DEF JobInv
  <2>4. /\ Unjudged(k) /\ k.credited = job[j].credited /\ k.strikes = job[j].strikes
        /\ k.winners = job[j].winners /\ k.outliers = job[j].outliers
        /\ k.status = "assigned"
    BY <2>1, <2>3 DEF Unjudged, ComputeJob
  <2> HIDE DEF k
  <2>5. JobInv(k)
    BY <2>1, <2>4 DEF JobInv
  <2>6. job' = [job EXCEPT ![j] = k]
    BY <1>4 DEF k, IInv, TypeOK
  <2>7. job' \in [Jobs -> ComputeJob] /\ \A i \in Jobs : JobInv(job'[i])
    BY <2>2, <2>5, <2>6, Replaced DEF IInv
  <2>8. TypeOK'
    BY <1>1, <2>7, IdleIs DEF IInv, TypeOK, Assign
  <2>9. QED
    BY <1>2, <2>7, <2>8 DEF IInv, Assign
<1>5. QED
  BY <1>3, <1>4 DEF Assign

\* A result is accepted only by a record that is unjudged and waits for its
\* miner; the last one leaves nobody missing.
LEMMA SubmitResultInv ==
  ASSUME IInv, NEW j \in Jobs, NEW m \in Miners, NEW h \in Hashes, SubmitResult(j, m, h)
  PROVE  IInv'
<1> DEFINE k == [job[j] EXCEPT !.subs[m] = h]
<1>1. job[j] \in ComputeJob /\ JobInv(job[j])
  BY DEF IInv, TypeOK
<1>2. /\ k \in ComputeJob /\ k.status = job[j].status /\ k.roster = job[j].roster
      /\ k.winners = job[j].winners /\ k.outliers = job[j].outliers /\ k.hash = job[j].hash
      /\ k.credited = job[j].credited /\ k.strikes = job[j].strikes
      /\ k.subs = [job[j].subs EXCEPT ![m] = h]
  BY <1>1 DEF ComputeJob
<1> HIDE DEF k
<1>3. m \in Missing(job[j]) /\ job[j].status \in {"assigned", "pending"}
  BY DEF SubmitResult, Accepts, Missing, Returned
<1>4. Unjudged(job[j])
  BY <1>1, <1>3 DEF JobInv
<1>5. JobInv(k)
  BY <1>1, <1>2, <1>4 DEF JobInv, Unjudged
<1>6. job' = [job EXCEPT ![j] = k]
  BY DEF SubmitResult, k, IInv, TypeOK
<1>7. /\ job' \in [Jobs -> ComputeJob]
      /\ \A i \in Jobs : JobInv(job'[i])
      /\ job'[j] = k
  BY <1>2, <1>5, <1>6, Replaced DEF IInv
<1>8. CASE Missing(job[j]) = {m}
  <2>1. rpc' \in RpcRecord /\ rpc'.at = "check" /\ rpc'.job = j
    BY <1>8, IdleIs DEF SubmitResult
  <2>2. Missing(k) = {}
    BY <1>1, <1>2, <1>8, NoneAssumption DEF Missing, Returned, ComputeJob
  <2>3. job[j].status = "assigned"
    <3>1. job[j].roster # {}
      BY <1>3 DEF Missing
    <3>2. QED
      BY <1>1, <1>3, <3>1 DEF JobInv
  <2>4. RpcInv'
    BY <1>2, <1>7, <2>1, <2>2, <2>3 DEF RpcInv
  <2>5. TypeOK'
    BY <1>7, <2>1 DEF IInv, TypeOK, SubmitResult
  <2>6. QED
    BY <1>7, <2>4, <2>5 DEF IInv, SubmitResult
<1>9. CASE Missing(job[j]) # {m}
  <2>1. rpc' = Idle
    BY <1>9 DEF SubmitResult
  <2>2. RpcInv' /\ TypeOK'
    BY <1>7, <2>1, IdleIs DEF IInv, TypeOK, RpcInv, SubmitResult
  <2>3. QED
    BY <1>7, <2>2 DEF IInv, SubmitResult
<1>10. QED
  BY <1>8, <1>9

\* A failure report settles the record whatever was on it.
LEMMA SelfReportFailedInv ==
  ASSUME IInv, NEW j \in Jobs, NEW m \in Miners, SelfReportFailed(j, m)
  PROVE  IInv'
<1> DEFINE k == [job[j] EXCEPT !.status = "faulted"]
<1>1. job[j] \in ComputeJob /\ JobInv(job[j])
  BY DEF IInv, TypeOK
<1>2. /\ k \in ComputeJob /\ k.status = "faulted" /\ k.roster = job[j].roster
      /\ k.winners = job[j].winners /\ k.outliers = job[j].outliers /\ k.hash = job[j].hash
      /\ k.credited = job[j].credited /\ k.strikes = job[j].strikes /\ k.subs = job[j].subs
  BY <1>1 DEF ComputeJob, Settled
<1> HIDE DEF k
<1>3. JobInv(k)
  BY <1>1, <1>2, SameVerdict DEF JobInv, Unjudged, VerdictOnRecord
<1>4. job' = [job EXCEPT ![j] = k]
  BY DEF SelfReportFailed, k
<1>5. job' \in [Jobs -> ComputeJob] /\ \A i \in Jobs : JobInv(job'[i])
  BY <1>2, <1>3, <1>4, Replaced DEF IInv
<1>6. RpcInv' /\ TypeOK'
  BY <1>5 DEF IInv, TypeOK, RpcInv, SelfReportFailed
<1>7. QED
  BY <1>5, <1>6 DEF IInv, SelfReportFailed

\* A registration replaces a profile.
LEMMA RegisterMinerInv ==
  ASSUME IInv, NEW m \in Miners, NEW staked \in BOOLEAN, RegisterMiner(m, staked)
  PROVE  IInv'
<1>1. Fresh(TRUE, staked) \in MinerProfile
  BY DEF Fresh, MinerProfile
<1>2. miner' \in [Miners -> MinerProfile]
  BY <1>1 DEF IInv, TypeOK, RegisterMiner
<1>3. env' \in [saves: Nat, crashes: Nat, registrations: Nat]
  BY DEF IInv, TypeOK, RegisterMiner
<1>4. TypeOK'
  BY <1>2, <1>3 DEF IInv, TypeOK, RegisterMiner
<1>5. RpcInv'
  BY DEF IInv, RpcInv, RegisterMiner
<1>6. QED
  BY <1>4, <1>5 DEF IInv, RegisterMiner

(***************************************************************************)
(* The rpc thread's finalizer, between two of whose steps the sweep may    *)
(* finalize the same job.                                                  *)
(***************************************************************************)
LEMMA RpcCheckInv == ASSUME IInv, NEW j \in Jobs, RpcCheck(j) PROVE IInv'
<1>1. rpc \in RpcRecord /\ rpc.at = "check" /\ rpc.job = j
  BY DEF IInv, TypeOK, RpcCheck, RpcAt
<1>2. CASE rpc' = Idle
  <2>1. TypeOK' /\ RpcInv'
    BY <1>2, IdleIs DEF IInv, TypeOK, RpcInv, RpcCheck
  <2>2. QED
    BY <2>1 DEF IInv, RpcCheck
<1>3. CASE rpc' = [rpc EXCEPT !.at = "judge"]
  <2>1. rpc' \in RpcRecord /\ rpc'.at = "judge" /\ rpc'.job = j
    BY <1>1, <1>3 DEF RpcRecord
  <2>2. TypeOK'
    BY <2>1 DEF IInv, TypeOK, RpcCheck
  <2>3. RpcInv'
    BY <1>1, <2>1 DEF IInv, RpcInv, RpcCheck
  <2>4. QED
    BY <2>2, <2>3 DEF IInv, RpcCheck
<1>4. QED
  BY <1>2, <1>3 DEF RpcCheck

\* The finalizer of the rpc thread stores the verdict without the lock.
LEMMA RpcJudgeInv == ASSUME IInv, NEW j \in Jobs, RpcJudge(j) PROVE IInv'
<1>1. /\ rpc \in RpcRecord /\ rpc.at = "judge" /\ rpc.job = j
      /\ job[j] \in ComputeJob /\ JobInv(job[j])
      /\ job[j].status \in Settled \cup {"assigned"} /\ Missing(job[j]) = {}
  BY DEF IInv, TypeOK, RpcJudge, RpcAt, RpcInv
<1>2. Recorded(job[j]) \in ComputeJob /\ JobInv(Recorded(job[j]))
  BY <1>1, RecordedIs, RecordedInv
<1>3. job' = [job EXCEPT ![j] = Recorded(job[j])]
  BY DEF RpcJudge
<1>4. /\ job' \in [Jobs -> ComputeJob]
      /\ \A i \in Jobs : JobInv(job'[i])
      /\ job'[j] = Recorded(job[j])
  BY <1>2, <1>3, Replaced DEF IInv
<1>5. rpc' \in RpcRecord /\ rpc'.at = "settle" /\ rpc'.job = j
  BY <1>1 DEF RpcJudge, RpcRecord
<1>6. TypeOK'
  BY <1>4, <1>5 DEF IInv, TypeOK, RpcJudge
<1>7. /\ VerdictOnRecord(job'[j])
      /\ job'[j].status \in Settled \cup {"assigned"}
      /\ Missing(job'[j]) = {}
  BY <1>1, <1>4, RecordedIs
<1>8. RpcInv'
  BY <1>5, <1>7 DEF RpcInv
<1>9. QED
  BY <1>4, <1>6, <1>8 DEF IInv, RpcJudge

\* It then sets the status.
LEMMA RpcSettleInv == ASSUME IInv, NEW j \in Jobs, RpcSettle(j) PROVE IInv'
<1> DEFINE k == [job[j] EXCEPT !.status = Verdict(job[j])]
<1>1. /\ rpc \in RpcRecord /\ rpc.at = "settle" /\ rpc.job = j
      /\ job[j] \in ComputeJob /\ JobInv(job[j]) /\ VerdictOnRecord(job[j])
  BY DEF IInv, TypeOK, RpcSettle, RpcAt, RpcInv
<1>2. k \in ComputeJob /\ JobInv(k)
  BY <1>1, SettleInv, VerdictSettles
<1>3. k.status \in Settled /\ k.winners = Winners(job[j])
  BY <1>1, VerdictSettles DEF VerdictOnRecord, ComputeJob
<1> HIDE DEF k
<1>4. job' = [job EXCEPT ![j] = k]
  BY DEF RpcSettle, k
<1>5. /\ job' \in [Jobs -> ComputeJob]
      /\ \A i \in Jobs : JobInv(job'[i])
      /\ job'[j] = k
  BY <1>2, <1>4, Replaced DEF IInv
<1>6. rpc' \in RpcRecord /\ rpc'.at = "credit" /\ rpc'.job = j /\ rpc'.todo = Winners(job[j])
  BY <1>1, WinnersAre DEF RpcSettle, RpcRecord
<1>7. TypeOK'
  BY <1>5, <1>6 DEF IInv, TypeOK, RpcSettle
<1>8. RpcInv'
  BY <1>3, <1>5, <1>6 DEF RpcInv
<1>9. QED
  BY <1>5, <1>7, <1>8 DEF IInv, RpcSettle

\* It credits the winners one at a time.
LEMMA RpcCreditInv ==
  ASSUME IInv, NEW j \in Jobs, NEW m \in Miners, RpcCredit(j, m)
  PROVE  IInv'
<1> DEFINE c == IF CreditDue(job[j], miner[m], m) THEN job[j].credited \cup {m} ELSE job[j].credited
           k == [job[j] EXCEPT !.credited = c]
<1>1. /\ rpc \in RpcRecord /\ rpc.at = "credit" /\ rpc.job = j
      /\ job[j] \in ComputeJob /\ JobInv(job[j]) /\ job[j].status \in Settled
      /\ rpc.todo \subseteq job[j].winners /\ m \in rpc.todo
  BY DEF IInv, TypeOK, RpcCredit, RpcAt, RpcInv
<1>2. c \subseteq job[j].winners
  BY <1>1 DEF JobInv
<1> HIDE DEF c
<1>3. /\ k \in ComputeJob /\ k.status = job[j].status /\ k.roster = job[j].roster
      /\ k.winners = job[j].winners /\ k.outliers = job[j].outliers /\ k.hash = job[j].hash
      /\ k.credited = c /\ k.strikes = job[j].strikes /\ k.subs = job[j].subs
  BY <1>1, <1>2 DEF ComputeJob
<1> HIDE DEF k
<1>4. JobInv(k)
  BY <1>1, <1>2, <1>3, SameVerdict DEF JobInv, Unjudged, VerdictOnRecord, Settled
<1>5. job' = [job EXCEPT ![j] = k]
  BY DEF RpcCredit, k, c
<1>6. /\ job' \in [Jobs -> ComputeJob]
      /\ \A i \in Jobs : JobInv(job'[i])
      /\ job'[j] = k
  BY <1>3, <1>4, <1>5, Replaced DEF IInv
<1>7. /\ rpc' \in RpcRecord /\ rpc'.at = "credit" /\ rpc'.job = j
      /\ rpc'.todo = rpc.todo \ {m}
  BY <1>1 DEF RpcCredit, RpcRecord
<1>8. miner' \in [Miners -> MinerProfile]
  <2>1. miner[m] \in MinerProfile
    BY DEF IInv, TypeOK
  <2>2. Credited(job[j], miner[m], m) \in MinerProfile
    BY <2>1 DEF Credited, MinerProfile
  <2>3. QED
    BY <2>2 DEF RpcCredit, IInv, TypeOK
<1>9. TypeOK'
  BY <1>6, <1>7, <1>8 DEF IInv, TypeOK, RpcCredit
<1>10. RpcInv'
  BY <1>1, <1>3, <1>6, <1>7 DEF RpcInv
<1>11. QED
  BY <1>6, <1>9, <1>10 DEF IInv, RpcCredit

\* When every winner is credited it turns to the outliers.
LEMMA RpcCreditedInv == ASSUME IInv, NEW j \in Jobs, RpcCredited(j) PROVE IInv'
<1>1. /\ rpc \in RpcRecord /\ rpc.at = "credit" /\ rpc.job = j
      /\ job[j] \in ComputeJob /\ job[j].status \in Settled
  BY DEF IInv, TypeOK, RpcCredited, RpcAt, RpcInv
<1>2. job[j].outliers \subseteq Miners
  BY <1>1 DEF ComputeJob
<1>3. rpc' \in RpcRecord /\ rpc'.at = "count" /\ rpc'.job = j /\ rpc'.todo = job[j].outliers
  BY <1>1, <1>2 DEF RpcCredited, RpcRecord
<1>4. TypeOK'
  BY <1>3 DEF IInv, TypeOK, RpcCredited
<1>5. RpcInv'
  BY <1>1, <1>3 DEF RpcInv, RpcCredited
<1>6. QED
  BY <1>4, <1>5 DEF IInv, RpcCredited

\* It reads an outlier's offences.
LEMMA RpcCountInv ==
  ASSUME IInv, NEW j \in Jobs, NEW m \in Miners, RpcCount(j, m)
  PROVE  IInv'
<1>1. /\ rpc \in RpcRecord /\ rpc.at = "count" /\ rpc.job = j
      /\ job[j].status \in Settled /\ rpc.todo \subseteq job[j].outliers /\ m \in rpc.todo
  BY DEF IInv, TypeOK, RpcCount, RpcAt, RpcInv
<1>2. miner[m].offences + 1 \in Nat
  BY DEF IInv, TypeOK, MinerProfile
<1>3. /\ rpc' \in RpcRecord /\ rpc'.at = "slash" /\ rpc'.job = j
      /\ rpc'.todo = rpc.todo \ {m} /\ rpc'.miner = m
  BY <1>1, <1>2 DEF RpcCount, RpcRecord
<1>4. TypeOK'
  BY <1>3 DEF IInv, TypeOK, RpcCount
<1>5. RpcInv'
  BY <1>1, <1>3 DEF RpcInv, RpcCount
<1>6. QED
  BY <1>4, <1>5 DEF IInv, RpcCount

\* It slashes him with the count it read.
LEMMA RpcSlashInv ==
  ASSUME IInv, NEW j \in Jobs, NEW keepsStake \in BOOLEAN, RpcSlash(j, keepsStake)
  PROVE  IInv'
<1> DEFINE m == rpc.miner
           k == [job[j] EXCEPT !.strikes[m] = @ + 1]
<1>1. /\ rpc \in RpcRecord /\ rpc.at = "slash" /\ rpc.job = j
      /\ job[j] \in ComputeJob /\ JobInv(job[j]) /\ job[j].status \in Settled
      /\ rpc.todo \subseteq job[j].outliers /\ m \in job[j].outliers
  BY DEF IInv, TypeOK, RpcSlash, RpcAt, RpcInv
<1>2. m \in Miners
  BY <1>1 DEF ComputeJob
<1> HIDE DEF m
<1>3. /\ k \in ComputeJob /\ k.status = job[j].status /\ k.roster = job[j].roster
      /\ k.winners = job[j].winners /\ k.outliers = job[j].outliers /\ k.hash = job[j].hash
      /\ k.credited = job[j].credited /\ k.subs = job[j].subs
      /\ \A o \in Miners \ {m} : k.strikes[o] = job[j].strikes[o]
  BY <1>1, <1>2 DEF ComputeJob
<1> HIDE DEF k
<1>4. JobInv(k)
  BY <1>1, <1>2, <1>3, SameVerdict DEF JobInv, Unjudged, VerdictOnRecord, Settled
<1>5. job' = [job EXCEPT ![j] = k]
  BY DEF RpcSlash, k, m
<1>6. /\ job' \in [Jobs -> ComputeJob]
      /\ \A i \in Jobs : JobInv(job'[i])
      /\ job'[j] = k
  BY <1>3, <1>4, <1>5, Replaced DEF IInv
<1>7. /\ rpc' \in RpcRecord /\ rpc'.at = "ban" /\ rpc'.job = j
      /\ rpc'.todo = rpc.todo /\ rpc'.miner = m
  BY <1>1 DEF RpcSlash, RpcRecord, m
<1>8. miner' \in [Miners -> MinerProfile]
  <2>1. miner[m] \in MinerProfile /\ rpc.seen \in Nat
    BY <1>1, <1>2 DEF IInv, TypeOK, RpcRecord
  <2>2. Slashed(miner[m], keepsStake, rpc.seen) \in MinerProfile
    BY <2>1 DEF Slashed, MinerProfile
  <2>3. QED
    BY <2>2 DEF RpcSlash, IInv, TypeOK, m
<1>9. TypeOK'
  BY <1>6, <1>7, <1>8 DEF IInv, TypeOK, RpcSlash
<1>10. RpcInv'
  BY <1>1, <1>3, <1>6, <1>7 DEF RpcInv
<1>11. QED
  BY <1>6, <1>9, <1>10 DEF IInv, RpcSlash

\* It bans him if the count calls for it.
LEMMA RpcBanInv == ASSUME IInv, NEW j \in Jobs, RpcBan(j) PROVE IInv'
<1>1. /\ rpc \in RpcRecord /\ rpc.at = "ban" /\ rpc.job = j
      /\ job[j] \in ComputeJob /\ job[j].status \in Settled
      /\ rpc.todo \subseteq job[j].outliers /\ rpc.miner \in job[j].outliers
  BY DEF IInv, TypeOK, RpcBan, RpcAt, RpcInv
<1>2. rpc' \in RpcRecord /\ rpc'.at = "count" /\ rpc'.job = j /\ rpc'.todo = rpc.todo
  BY <1>1 DEF RpcBan, RpcRecord
<1>3. miner' \in [Miners -> MinerProfile]
  <2>1. rpc.miner \in Miners /\ rpc.seen \in Nat
    BY <1>1 DEF ComputeJob, RpcRecord
  <2>2. miner[rpc.miner] \in MinerProfile
    BY <2>1 DEF IInv, TypeOK
  <2>3. Banned(miner[rpc.miner], rpc.seen) \in MinerProfile
    BY <2>1, <2>2 DEF Banned, MinerProfile
  <2>4. QED
    BY <2>3 DEF RpcBan, IInv, TypeOK
<1>4. TypeOK'
  BY <1>2, <1>3 DEF IInv, TypeOK, RpcBan
<1>5. RpcInv'
  BY <1>1, <1>2 DEF RpcInv, RpcBan
<1>6. QED
  BY <1>4, <1>5 DEF IInv, RpcBan

\* It refunds the developer if nobody was paid.
LEMMA RpcRefundInv == ASSUME IInv, NEW j \in Jobs, RpcRefund(j) PROVE IInv'
<1> DEFINE k == Refunded(job[j])
<1>1. job[j] \in ComputeJob /\ JobInv(job[j])
  BY DEF IInv, TypeOK
<1>2. /\ k \in ComputeJob /\ k.status = job[j].status /\ k.roster = job[j].roster
      /\ k.winners = job[j].winners /\ k.outliers = job[j].outliers /\ k.hash = job[j].hash
      /\ k.credited = job[j].credited /\ k.subs = job[j].subs /\ k.strikes = job[j].strikes
  BY <1>1 DEF Refunded, ComputeJob
<1> HIDE DEF k
<1>3. JobInv(k)
  BY <1>1, <1>2, SameVerdict DEF JobInv, Unjudged, VerdictOnRecord, Settled
<1>4. job' = [job EXCEPT ![j] = k]
  BY DEF RpcRefund, k
<1>5. job' \in [Jobs -> ComputeJob] /\ \A i \in Jobs : JobInv(job'[i])
  BY <1>2, <1>3, <1>4, Replaced DEF IInv
<1>6. RpcInv' /\ TypeOK'
  BY <1>5, IdleIs DEF IInv, TypeOK, RpcInv, RpcRefund
<1>7. QED
  BY <1>5, <1>6 DEF IInv, RpcRefund

(***************************************************************************)
(* The sweep, the clock and the disk.                                      *)
(***************************************************************************)

\* The sweep touches no record that the rpc thread has settled, and leaves the
\* verdict the rpc thread has recorded or is about to record.
LEMMA SweepFinalizeInv ==
  ASSUME IInv, NEW j \in Jobs, NEW keepers \in SUBSET Outliers(job[j]), SweepFinalize(j, keepers)
  PROVE  IInv'
<1> DEFINE k == Finalized(job[j])
<1>1. job[j] \in ComputeJob /\ JobInv(job[j]) /\ job[j].status \notin Settled
  BY DEF IInv, TypeOK, SweepFinalize
<1>2. /\ k \in ComputeJob /\ JobInv(k) /\ k.status \in Settled /\ VerdictOnRecord(k)
      /\ Missing(k) = Missing(job[j])
  <2>1. job[j].status \in {"absent", "pending", "assigned"}
    BY <1>1 DEF ComputeJob
  <2>2. QED
    BY <1>1, <2>1, FinalizedInv
<1> HIDE DEF k
<1>3. job' = [job EXCEPT ![j] = k]
  BY DEF SweepFinalize, k
<1>4. /\ job' \in [Jobs -> ComputeJob]
      /\ \A i \in Jobs : JobInv(job'[i])
      /\ job'[j] = k
      /\ \A i \in Jobs \ {j} : job'[i] = job[i]
  BY <1>2, <1>3, Replaced DEF IInv
<1>5. ASSUME NEW m \in Miners PROVE SettledMiner(job[j], m, keepers) \in MinerProfile
  <2>1. miner[m] \in MinerProfile /\ (m \in keepers) \in BOOLEAN
    BY DEF IInv, TypeOK
  <2>2. miner[m].offences + 1 \in Nat
    BY <2>1 DEF MinerProfile
  <2>3. Slashed(miner[m], m \in keepers, miner[m].offences + 1) \in MinerProfile
    BY <2>1, <2>2, ProfileIs
  <2>4. Banned(Slashed(miner[m], m \in keepers, miner[m].offences + 1),
               miner[m].offences + 1) \in MinerProfile
    BY <2>1, <2>2, <2>3, ProfileIs
  <2>5. Credited(job[j], miner[m], m) \in MinerProfile
    BY <2>1, <2>2, ProfileIs
  <2>6. QED
    BY <2>1, <2>4, <2>5 DEF SettledMiner
<1>6. miner' \in [Miners -> MinerProfile]
  BY <1>5 DEF SweepFinalize
<1>7. TypeOK'
  BY <1>4, <1>6 DEF IInv, TypeOK, SweepFinalize
<1>8. RpcInv'
  <2>1. CASE rpc.job = j
    BY <1>1, <1>2, <1>4, <2>1 DEF IInv, RpcInv, SweepFinalize
  <2>2. CASE rpc.job # j
    BY <1>4, <2>2 DEF IInv, RpcInv, SweepFinalize
  <2>3. QED
    BY <2>1, <2>2
<1>9. QED
  BY <1>4, <1>7, <1>8 DEF IInv, SweepFinalize

\* A ban runs out.
LEMMA BanEndsInv == ASSUME IInv, NEW m \in Miners, BanEnds(m) PROVE IInv'
<1>1. miner[m] \in MinerProfile
  BY DEF IInv, TypeOK
<1>2. [miner[m] EXCEPT !.banned = FALSE] \in MinerProfile
  BY <1>1 DEF MinerProfile
<1>3. miner' \in [Miners -> MinerProfile]
  BY <1>2 DEF BanEnds, IInv, TypeOK
<1>4. TypeOK'
  BY <1>3 DEF IInv, TypeOK, BanEnds
<1>5. RpcInv'
  BY DEF IInv, RpcInv, BanEnds
<1>6. QED
  BY <1>4, <1>5 DEF IInv, BanEnds

\* Steps that write neither the ledger, the registry nor the rpc thread's place.
LEMMA BystanderInv ==
  ASSUME IInv, \/ SweepSnapshot
               \/ \E j \in Jobs : SweepSkip(j) \/ DeadlinePasses(j)
               \/ Save
               \/ UNCHANGED vars
  PROVE  IInv'
<1>1. CASE SweepSnapshot
  BY <1>1 DEF IInv, TypeOK, RpcInv, SweepSnapshot
<1>2. CASE \E j \in Jobs : SweepSkip(j) \/ DeadlinePasses(j)
  BY <1>2 DEF IInv, TypeOK, RpcInv, SweepSkip, DeadlinePasses
<1>3. CASE Save
  <2>1. env' \in [saves: Nat, crashes: Nat, registrations: Nat]
    BY <1>3 DEF IInv, TypeOK, Save
  <2>2. disk' \in [job: [Jobs -> ComputeJob], miner: [Miners -> MinerProfile]]
    BY <1>3 DEF IInv, TypeOK, Save
  <2>3. TypeOK' /\ RpcInv'
    BY <1>3, <2>1, <2>2 DEF IInv, TypeOK, RpcInv, Save
  <2>4. \A j \in Jobs : JobInv(job'[j]) /\ JobInv(disk'.job[j])
    BY <1>3 DEF IInv, Save
  <2>5. QED
    BY <2>3, <2>4 DEF IInv
<1>4. CASE UNCHANGED vars
  BY <1>4 DEF IInv, TypeOK, RpcInv, vars
<1>5. QED
  BY <1>1, <1>2, <1>3, <1>4

\* A restart loads records that were written in a state satisfying the
\* invariant, or none.
LEMMA CrashInv == ASSUME IInv, Crash PROVE IInv'
<1>1. PICK snapshot \in {disk, Empty} :
        job' = snapshot.job /\ miner' = snapshot.miner /\ disk' = snapshot
  BY DEF Crash
<1>2. Empty.job \in [Jobs -> ComputeJob] /\ \A j \in Jobs : JobInv(Empty.job[j])
  BY NewJobInv DEF Empty
<1>3. Empty \in [job: [Jobs -> ComputeJob], miner: [Miners -> MinerProfile]]
  BY <1>2 DEF Empty, Fresh, MinerProfile
<1>4. /\ snapshot \in [job: [Jobs -> ComputeJob], miner: [Miners -> MinerProfile]]
      /\ \A j \in Jobs : JobInv(snapshot.job[j])
  BY <1>1, <1>2, <1>3 DEF IInv, TypeOK
<1>5. env' \in [saves: Nat, crashes: Nat, registrations: Nat]
  BY DEF IInv, TypeOK, Crash
<1>6. TypeOK'
  BY <1>1, <1>4, <1>5, IdleIs DEF IInv, TypeOK, Crash
<1>7. RpcInv'
  BY IdleIs DEF RpcInv, Crash
<1>8. QED
  BY <1>1, <1>4, <1>6, <1>7 DEF IInv

\* Every step keeps the inductive invariant.
LEMMA StepInv == IInv /\ [Next]_vars => IInv'
<1> SUFFICES ASSUME IInv, [Next]_vars PROVE IInv'
  OBVIOUS
<1>1. ASSUME NEW j \in Jobs, Submit(j) \/ Assign(j) PROVE IInv'
  BY <1>1, SubmitInv, AssignInv
<1>2. ASSUME NEW j \in Jobs, RpcFinalize(j) PROVE IInv'
  BY <1>2, RpcCheckInv, RpcJudgeInv, RpcSettleInv, RpcCreditInv, RpcCreditedInv,
     RpcCountInv, RpcSlashInv, RpcBanInv, RpcRefundInv DEF RpcFinalize
<1>3. ASSUME NEW j \in Jobs, SweepOne(j) PROVE IInv'
  BY <1>3, SweepFinalizeInv, BystanderInv DEF SweepOne
<1>4. ASSUME NEW j \in Jobs, NEW m \in Miners,
             SelfReportFailed(j, m) \/ \E h \in Hashes : SubmitResult(j, m, h)
      PROVE  IInv'
  BY <1>4, SelfReportFailedInv, SubmitResultInv
<1>5. ASSUME NEW m \in Miners, BanEnds(m) \/ \E staked \in BOOLEAN : RegisterMiner(m, staked)
      PROVE  IInv'
  BY <1>5, BanEndsInv, RegisterMinerInv
<1>6. QED
  BY <1>1, <1>2, <1>3, <1>4, <1>5, BystanderInv, CrashInv DEF Next, RpcThread, SweepThread

(***************************************************************************)
(* The theorems.                                                           *)
(***************************************************************************)

\* The strengthening holds throughout: every record's verdict is the verdict of
\* its submissions, in memory, on disk and under the rpc thread's hands.
THEOREM Inductive == Spec => []IInv
<1>1. Init => IInv
  BY InitInv
<1>2. IInv /\ [Next]_vars => IInv'
  BY StepInv
<1>3. QED
  BY <1>1, <1>2, PTL DEF Spec

\* Every record keeps its shape; a roster is empty or full.
THEOREM TypeCorrect == Spec => []TypeOK
<1>1. IInv => TypeOK
  BY DEF IInv
<1>2. QED
  BY <1>1, Inductive, PTL

\* No result lands after the winners were chosen.
THEOREM VerdictIsCurrent == Spec => []VerdictCurrent
<1>1. IInv => VerdictCurrent
  BY DEF IInv, JobInv, Unjudged, VerdictOnRecord, VerdictCurrent
<1>2. QED
  BY <1>1, Inductive, PTL

\* Whoever is credited agreed with another member of the roster.
THEOREM CreditIsCorroborated == Spec => []CreditCorroborated
<1>1. IInv => CreditCorroborated
  <2> SUFFICES ASSUME IInv, NEW j \in Jobs, NEW m \in job[j].credited
               PROVE  /\ job[j].subs[m] = job[j].hash /\ job[j].hash # NoHash
                      /\ \E other \in job[j].roster \ {m} : job[j].subs[other] = job[j].hash
    BY DEF CreditCorroborated
  <2>1. job[j] \in ComputeJob /\ JobInv(job[j]) /\ m \in job[j].winners
    BY DEF IInv, TypeOK, JobInv
  <2>2. VerdictOnRecord(job[j])
    BY <2>1 DEF JobInv, Unjudged
  <2>3. m \in Winners(job[j]) /\ job[j].hash = ConsensusHash(job[j])
    BY <2>1, <2>2 DEF VerdictOnRecord
  <2>4. QED
    BY <2>1, <2>3, WinnersAre, Corroborated
<1>2. QED
  BY <1>1, Inductive, PTL

\* Nobody is slashed for the result that won, nor for a result in a dispute.
THEOREM SlashIsJustified == Spec => []SlashJustified
<1>1. IInv => SlashJustified
  <2> SUFFICES ASSUME IInv, NEW j \in Jobs, NEW m \in Miners, job[j].strikes[m] > 0
               PROVE  /\ m \in job[j].roster
                      /\ \/ job[j].subs[m] = NoHash
                         \/ job[j].hash # NoHash /\ job[j].subs[m] # job[j].hash
    BY DEF SlashJustified
  <2>1. job[j] \in ComputeJob /\ JobInv(job[j]) /\ m \in job[j].outliers
    BY DEF IInv, TypeOK, JobInv
  <2>2. VerdictOnRecord(job[j])
    BY <2>1 DEF JobInv, Unjudged
  <2>3. m \in Outliers(job[j]) /\ job[j].hash = ConsensusHash(job[j])
    BY <2>1, <2>2 DEF VerdictOnRecord
  <2>4. QED
    BY <2>1, <2>3, WinnersAre
<1>2. QED
  BY <1>1, Inductive, PTL

(***************************************************************************)
(* EarnedOnce: the flags are an upper bound of the count, in memory and on *)
(* disk.  The set of a miner's flagged jobs grows by the job being         *)
(* credited in the step that raises his count, and never shrinks but by a  *)
(* restart.                                                                *)
(***************************************************************************)
CreditedJobs(jobs, m) == {j \in Jobs : m \in jobs[j].credited}
Within(jobs, miners, m) ==
  /\ IsFiniteSet(CreditedJobs(jobs, m))
  /\ miners[m].completed <= Cardinality(CreditedJobs(jobs, m))

Earned == \A m \in Miners : Within(job, miner, m) /\ Within(disk.job, disk.miner, m)

\* No flag and no count moved, or the profile was replaced by a fresh one.
LEMMA WithinKept ==
  ASSUME NEW m \in Miners, NEW jobs, NEW miners, NEW jobs2, NEW miners2,
         Within(jobs, miners, m),
         \A j \in Jobs : m \in jobs[j].credited <=> m \in jobs2[j].credited,
         miners2[m].completed \in {miners[m].completed, 0}
  PROVE  Within(jobs2, miners2, m)
<1>1. CreditedJobs(jobs2, m) = CreditedJobs(jobs, m)
  BY DEF CreditedJobs
<1>2. Cardinality(CreditedJobs(jobs, m)) \in Nat
  BY FS_CardinalityType DEF Within
<1>3. QED
  BY <1>1, <1>2 DEF Within

\* One more flag, and one more on the count.
LEMMA WithinCredited ==
  ASSUME NEW m \in Miners, NEW jobs, NEW miners, NEW jobs2, NEW miners2, NEW i \in Jobs,
         Within(jobs, miners, m), miners[m].completed \in Nat,
         m \notin jobs[i].credited, m \in jobs2[i].credited,
         \A j \in Jobs \ {i} : m \in jobs[j].credited <=> m \in jobs2[j].credited,
         miners2[m].completed = miners[m].completed + 1
  PROVE  Within(jobs2, miners2, m)
<1>1. CreditedJobs(jobs2, m) = CreditedJobs(jobs, m) \cup {i} /\ i \notin CreditedJobs(jobs, m)
  BY DEF CreditedJobs
<1>2. Cardinality(CreditedJobs(jobs, m)) \in Nat
  BY FS_CardinalityType DEF Within
<1>3. /\ IsFiniteSet(CreditedJobs(jobs2, m))
      /\ Cardinality(CreditedJobs(jobs2, m)) = Cardinality(CreditedJobs(jobs, m)) + 1
  BY <1>1, FS_AddElement DEF Within
<1>4. QED
  BY <1>2, <1>3 DEF Within

\* At first nobody has earned anything.
LEMMA EarnedInit == Init => Earned
<1> SUFFICES ASSUME Init, NEW m \in Miners
             PROVE  Within(job, miner, m) /\ Within(disk.job, disk.miner, m)
  BY DEF Earned
<1>1. \A j \in Jobs : job[j].credited = {} /\ disk.job[j].credited = {}
  BY DEF Init, Empty, NewJob
<1>2. CreditedJobs(job, m) = {} /\ CreditedJobs(disk.job, m) = {}
  BY <1>1 DEF CreditedJobs
<1>3. miner[m].completed = 0 /\ disk.miner[m].completed = 0
  BY DEF Init, Empty, Fresh
<1>4. QED
  BY <1>2, <1>3, FS_EmptySet DEF Within

\* The rpc thread credits one miner in one critical section: flag and count.
LEMMA EarnedRpcCredit ==
  ASSUME IInv, NEW j \in Jobs, NEW m \in Miners, RpcCredit(j, m), NEW o \in Miners,
         Within(job, miner, o)
  PROVE  Within(job', miner', o)
<1>1. /\ job \in [Jobs -> ComputeJob] /\ miner \in [Miners -> MinerProfile]
      /\ job[j] \in ComputeJob
  BY DEF IInv, TypeOK
<1>2. miner[o].completed \in Nat
  BY <1>1 DEF MinerProfile
<1>3. CASE o = m /\ CreditDue(job[j], miner[m], m)
  <2>1. /\ o \notin job[j].credited
        /\ o \in job'[j].credited
        /\ \A i \in Jobs \ {j} : o \in job[i].credited <=> o \in job'[i].credited
    BY <1>1, <1>3 DEF RpcCredit, CreditDue, ComputeJob
  <2>2. miner'[o].completed = miner[o].completed + 1
    BY <1>1, <1>3 DEF RpcCredit, Credited, MinerProfile
  <2>3. QED
    BY <1>2, <2>1, <2>2, WithinCredited
<1>4. CASE o # m \/ ~CreditDue(job[j], miner[m], m)
  <2>1. \A i \in Jobs : o \in job[i].credited <=> o \in job'[i].credited
    BY <1>1, <1>4 DEF RpcCredit, ComputeJob
  <2>2. miner'[o].completed = miner[o].completed
    BY <1>1, <1>4 DEF RpcCredit, Credited, MinerProfile
  <2>3. QED
    BY <2>1, <2>2, WithinKept
<1>5. QED
  BY <1>3, <1>4

\* The sweep flags and counts exactly the winners that are due.
LEMMA EarnedSweepFinalize ==
  ASSUME IInv, NEW j \in Jobs, NEW keepers \in SUBSET Outliers(job[j]), SweepFinalize(j, keepers),
         NEW o \in Miners, Within(job, miner, o)
  PROVE  Within(job', miner', o)
<1> DEFINE due_o == o \in Winners(job[j]) /\ CreditDue(job[j], miner[o], o)
<1>1. /\ job \in [Jobs -> ComputeJob] /\ job[j] \in ComputeJob
      /\ miner[o] \in MinerProfile /\ miner[o].completed \in Nat
  BY DEF IInv, TypeOK, MinerProfile
<1>2. \A i \in Jobs \ {j} : job'[i] = job[i]
  BY <1>1 DEF SweepFinalize
<1>3. o \in job'[j].credited <=> o \in job[j].credited \/ due_o
  <2>1. job'[j] = Finalized(job[j])
    BY <1>1 DEF SweepFinalize
  <2>2. /\ Judged(job[j]).winners = Winners(job[j])
        /\ Judged(job[j]).credited = job[j].credited
        /\ Judged(job[j]) \in ComputeJob
    BY <1>1, RecordedIs, VerdictSettles DEF Judged, ComputeJob
  <2>3. /\ Refunded(Judged(job[j])).credited = job[j].credited
        /\ Refunded(Judged(job[j])) \in ComputeJob
    BY <2>2 DEF Refunded, ComputeJob
  <2>4. Finalized(job[j]).credited =
          job[j].credited \cup {m \in Winners(job[j]) : CreditDue(job[j], miner[m], m)}
    BY <2>2, <2>3 DEF Finalized, ComputeJob
  <2>5. QED
    BY <2>1, <2>4
<1>4. miner'[o] = SettledMiner(job[j], o, keepers)
  BY DEF SweepFinalize
<1>5. ASSUME NEW n \in Nat
      PROVE  Banned(Slashed(miner[o], o \in keepers, n), n).completed = miner[o].completed
  BY <1>1 DEF Banned, Slashed, MinerProfile
<1>6. CASE due_o
  <2>1. miner'[o].completed = miner[o].completed + 1
    BY <1>1, <1>4, <1>6 DEF SettledMiner, Credited, MinerProfile
  <2>2. o \notin job[j].credited
    BY <1>6 DEF CreditDue
  <2>3. QED
    BY <1>1, <1>2, <1>3, <1>6, <2>1, <2>2, WithinCredited
<1>7. CASE ~due_o
  <2>1. miner'[o].completed = miner[o].completed
    <3>1. CASE o \in Winners(job[j])
      BY <1>4, <1>7, <3>1 DEF SettledMiner, Credited
    <3>2. CASE o \notin Winners(job[j]) /\ o \in Outliers(job[j])
      <4>1. miner[o].offences + 1 \in Nat
        BY <1>1 DEF MinerProfile
      <4>2. miner'[o] = Banned(Slashed(miner[o], o \in keepers, miner[o].offences + 1),
                               miner[o].offences + 1)
        BY <1>4, <3>2 DEF SettledMiner
      <4>3. QED
        BY <1>5, <4>1, <4>2
    <3>3. CASE o \notin Winners(job[j]) /\ o \notin Outliers(job[j])
      BY <1>4, <3>3 DEF SettledMiner
    <3>4. QED
      BY <3>1, <3>2, <3>3
  <2>2. QED
    BY <1>2, <1>3, <1>7, <2>1, WithinKept
<1>8. QED
  BY <1>6, <1>7

\* Steps that move no flag and no count, but for a registration's reset.
LEMMA EarnedElsewhere ==
  ASSUME IInv, NEW o \in Miners, Within(job, miner, o), NEW j \in Jobs,
         \/ Submit(j) \/ Assign(j)
         \/ RpcCheck(j) \/ RpcJudge(j) \/ RpcSettle(j) \/ RpcCredited(j) \/ RpcBan(j) \/ RpcRefund(j)
         \/ \E m \in Miners : RpcCount(j, m) \/ SelfReportFailed(j, m)
         \/ \E m \in Miners, h \in Hashes : SubmitResult(j, m, h)
         \/ \E keepsStake \in BOOLEAN : RpcSlash(j, keepsStake)
         \/ SweepSkip(j) \/ DeadlinePasses(j)
  PROVE  Within(job', miner', o)
<1>1. /\ job \in [Jobs -> ComputeJob] /\ miner \in [Miners -> MinerProfile]
      /\ job[j] \in ComputeJob
  BY DEF IInv, TypeOK
<1>2. \A i \in Jobs : o \in job[i].credited <=> o \in job'[i].credited
  <2>1. CASE Submit(j)
    <3>1. job[j].credited = {}
      BY <2>1 DEF IInv, JobInv, Unjudged, Submit
    <3>2. QED
      BY <1>1, <2>1, <3>1 DEF Submit, NewJob
  <2>2. CASE Assign(j)
    <3>1. CASE job' = job
      BY <3>1
    <3>2. ASSUME NEW R \in Picks, job' = [job EXCEPT ![j].roster = R, ![j].status = "assigned"]
          PROVE  \A i \in Jobs : o \in job[i].credited <=> o \in job'[i].credited
      <4>1. job' = [job EXCEPT ![j] = [job[j] EXCEPT !.roster = R, !.status = "assigned"]]
        BY <1>1, <3>2
      <4>2. [job[j] EXCEPT !.roster = R, !.status = "assigned"].credited = job[j].credited
        BY <1>1 DEF ComputeJob
      <4>3. QED
        BY <1>1, <4>1, <4>2
    <3>3. QED
      BY <2>2, <3>1, <3>2 DEF Assign
  <2>3. CASE RpcJudge(j)
    BY <1>1, <2>3, RecordedIs DEF RpcJudge
  <2>4. CASE RpcRefund(j)
    <3>1. Refunded(job[j]).credited = job[j].credited
      BY <1>1 DEF Refunded, ComputeJob
    <3>2. QED
      BY <1>1, <2>4, <3>1 DEF RpcRefund
  <2>5. CASE RpcSettle(j) \/ \E m \in Miners : SelfReportFailed(j, m)
    <3>1. PICK s : job' = [job EXCEPT ![j].status = s]
      BY <2>5 DEF RpcSettle, SelfReportFailed
    <3>2. [job[j] EXCEPT !.status = s].credited = job[j].credited
      BY <1>1 DEF ComputeJob
    <3>3. QED
      BY <1>1, <3>1, <3>2
  <2>6. ASSUME NEW m \in Miners, NEW h \in Hashes, SubmitResult(j, m, h)
        PROVE  \A i \in Jobs : o \in job[i].credited <=> o \in job'[i].credited
    BY <1>1, <2>6 DEF SubmitResult, ComputeJob
  <2>7. ASSUME NEW keepsStake \in BOOLEAN, RpcSlash(j, keepsStake)
        PROVE  \A i \in Jobs : o \in job[i].credited <=> o \in job'[i].credited
    BY <1>1, <2>7 DEF RpcSlash, ComputeJob
  <2>8. CASE job' = job
    BY <2>8
  <2>9. QED
    BY <2>1, <2>2, <2>3, <2>4, <2>5, <2>6, <2>7, <2>8 DEF RpcCheck, RpcCredited, RpcBan, RpcCount,
       SweepSkip, DeadlinePasses
<1>3. miner'[o].completed = miner[o].completed
  <2>1. CASE RpcBan(j)
    BY <1>1, <2>1 DEF RpcBan, Banned, MinerProfile
  <2>2. ASSUME NEW keepsStake \in BOOLEAN, RpcSlash(j, keepsStake)
        PROVE  miner'[o].completed = miner[o].completed
    <3>1. Slashed(miner[o], keepsStake, rpc.seen).completed = miner[o].completed
      BY <1>1 DEF Slashed, MinerProfile
    <3>2. QED
      BY <1>1, <2>2, <3>1 DEF RpcSlash
  <2>3. CASE miner' = miner
    BY <2>3
  <2>4. QED
    BY <2>1, <2>2, <2>3 DEF Submit, Assign, RpcCheck, RpcJudge, RpcSettle, RpcCredited,
       RpcRefund, RpcCount, SelfReportFailed, SubmitResult, SweepSkip, DeadlinePasses
<1>4. QED
  BY <1>2, <1>3, WithinKept

\* Steps about no job: a ban runs out, a registration resets the count.
LEMMA EarnedNoJob ==
  ASSUME IInv, NEW o \in Miners, Within(job, miner, o),
         \/ \E m \in Miners, staked \in BOOLEAN : RegisterMiner(m, staked)
         \/ \E m \in Miners : BanEnds(m)
         \/ SweepSnapshot \/ Save \/ UNCHANGED vars
  PROVE  Within(job', miner', o)
<1>1. miner \in [Miners -> MinerProfile]
  BY DEF IInv, TypeOK
<1>2. job' = job
  BY DEF RegisterMiner, BanEnds, SweepSnapshot, Save, vars
<1>3. miner'[o].completed \in {miner[o].completed, 0}
  <2>1. CASE \E m \in Miners, staked \in BOOLEAN : RegisterMiner(m, staked)
    BY <1>1, <2>1 DEF RegisterMiner, Fresh
  <2>2. CASE \E m \in Miners : BanEnds(m)
    BY <1>1, <2>2 DEF BanEnds, MinerProfile
  <2>3. CASE miner' = miner
    BY <2>3
  <2>4. QED
    BY <2>1, <2>2, <2>3 DEF SweepSnapshot, Save, vars
<1>4. QED
  BY <1>2, <1>3, WithinKept

\* Every step keeps what a miner has earned within his credited submissions.
LEMMA EarnedStep == IInv /\ Earned /\ [Next]_vars => Earned'
<1> SUFFICES ASSUME IInv, Earned, [Next]_vars, NEW o \in Miners
             PROVE  Within(job', miner', o) /\ Within(disk'.job, disk'.miner, o)
  BY DEF Earned
<1>1. Within(job, miner, o) /\ Within(disk.job, disk.miner, o)
  BY DEF Earned
<1>2. CASE Crash
  <2>1. PICK snapshot \in {disk, Empty} :
          job' = snapshot.job /\ miner' = snapshot.miner /\ disk' = snapshot
    BY <1>2 DEF Crash
  <2>2. Within(Empty.job, Empty.miner, o)
    <3>1. CreditedJobs(Empty.job, o) = {} /\ Empty.miner[o].completed = 0
      BY DEF CreditedJobs, Empty, NewJob, Fresh
    <3>2. QED
      BY <3>1, FS_EmptySet DEF Within
  <2>3. QED
    BY <1>1, <2>1, <2>2
<1>3. CASE ~Crash
  <2>1. Within(job', miner', o)
    <3>1. ASSUME NEW j \in Jobs, RpcFinalize(j) PROVE Within(job', miner', o)
      BY <1>1, <3>1, EarnedRpcCredit, EarnedElsewhere DEF RpcFinalize
    <3>2. ASSUME NEW j \in Jobs, SweepOne(j) PROVE Within(job', miner', o)
      BY <1>1, <3>2, EarnedSweepFinalize, EarnedElsewhere DEF SweepOne
    <3>3. ASSUME NEW j \in Jobs,
                 \/ Submit(j) \/ Assign(j) \/ DeadlinePasses(j)
                 \/ \E m \in Miners : SelfReportFailed(j, m) \/ \E h \in Hashes : SubmitResult(j, m, h)
          PROVE  Within(job', miner', o)
      BY <1>1, <3>3, EarnedElsewhere
    <3>4. ASSUME \/ \E m \in Miners : BanEnds(m) \/ \E staked \in BOOLEAN : RegisterMiner(m, staked)
                 \/ SweepSnapshot \/ Save \/ UNCHANGED vars
          PROVE  Within(job', miner', o)
      BY <1>1, <3>4, EarnedNoJob
    <3>5. QED
      BY <1>3, <3>1, <3>2, <3>3, <3>4 DEF Next, RpcThread, SweepThread
  <2>2. CASE Save
    BY <1>1, <2>1, <2>2 DEF Save
  <2>3. CASE disk' = disk
    BY <1>1, <2>1, <2>3
  <2>4. QED
    BY <1>3, <2>2, <2>3 DEF Next, RpcThread, SweepThread, RpcFinalize, SweepOne,
       Submit, Assign, RpcCheck, RpcJudge, RpcSettle, RpcCredit, RpcCredited, RpcCount, RpcSlash,
       RpcBan, RpcRefund, SelfReportFailed, SubmitResult, RegisterMiner, BanEnds, SweepSnapshot,
       SweepSkip, SweepFinalize, DeadlinePasses, vars
<1>4. QED
  BY <1>2, <1>3

\* A miner's completed jobs never exceed the submissions flagged as credited,
\* however the two finalizers interleave and wherever the node restarts.
THEOREM EarnedAtMostOnce == Spec => []EarnedOnce
<1>1. Init => IInv /\ Earned
  BY InitInv, EarnedInit
<1>2. (IInv /\ Earned) /\ [Next]_vars => (IInv /\ Earned)'
  BY StepInv, EarnedStep
<1>3. Earned => EarnedOnce
  BY DEF Earned, Within, CreditedJobs, EarnedOnce
<1>4. QED
  BY <1>1, <1>2, <1>3, PTL DEF Spec


(***************************************************************************)
(* The refund.  While the node has not crashed, a job that a verdict left  *)
(* with nobody to pay is refunded as soon as no finalizer holds it; a      *)
(* finalizer that has not judged its job yet can only find it swept, and a *)
(* swept job is refunded; and a miner who reports failure after a verdict  *)
(* cannot make the job look unserved, for a job that is done has a winner. *)
(***************************************************************************)
Unserved(k) == k.status = "disputed" \/ (k.status = "faulted" /\ k.outliers = k.roster)
Owed(k) == k.refund \/ k.roster = {}

Clear(k, r, i) ==
  /\ r.job # i /\ Unserved(k) => Owed(k)
  /\ r.job = i /\ r.at \in {"assign", "check", "judge", "settle"}
     /\ k.status \in {"disputed", "faulted"} => Owed(k)
  /\ k.status = "done" => ConsensusHash(k) # NoHash
  /\ r.at = "idle" => r.job # i

RefundDue == env.crashes = 0 => \A i \in Jobs : Clear(job[i], rpc, i)

\* A job the thread leaves alone stays clear.
LEMMA ClearElsewhere ==
  ASSUME NEW k, NEW r, NEW s, NEW i, Clear(k, r, i), r.job # i, s.job # i
  PROVE  Clear(k, s, i)
  BY DEF Clear

\* A winning hash has a winner.
LEMMA SomebodyWins ==
  ASSUME NEW k \in ComputeJob, ConsensusHash(k) # NoHash
  PROVE  Winners(k) # {}
<1> DEFINE h == ConsensusHash(k)
           Back(g) == Votes(k.roster, k.subs, g)
           back == {m \in k.roster : k.subs[m] # NoHash}
<1>1. h \in Hashes /\ h # NoHash /\ Wins(k.roster, k.subs, h)
  BY ConsensusHashIs
<1>2. IsFiniteSet(k.roster) /\ k.roster \subseteq Miners
  BY RosterIs
<1>3. SUFFICES ASSUME Back(h) = {} PROVE FALSE
  BY DEF Winners
<1>4. ASSUME NEW g \in Hashes \ {h} PROVE FALSE
  <2>1. IsFiniteSet(Back(g))
    BY <1>2, FS_Subset DEF Votes
  <2>2. Cardinality(Back(g)) \in Nat /\ Cardinality(Back(h)) = 0
    BY <2>1, <1>3, FS_CardinalityType, FS_EmptySet
  <2>3. QED
    BY <1>1, <2>2 DEF Wins
<1>5. back = {}
  <2>1. ASSUME NEW m \in back PROVE FALSE
    <3>1. k.subs[m] \in Hashes
      BY <1>2 DEF ComputeJob
    <3>2. k.subs[m] = h
      BY <1>4, <3>1
    <3>3. QED
      BY <1>3, <3>2 DEF Votes
  <2>2. QED
    BY <2>1
<1>6. Cardinality(back) = 0
  BY <1>5, FS_EmptySet
<1> HIDE DEF back
<1>7. Cardinality(back) >= 2
  BY <1>1 DEF Wins, back
<1>8. QED
  BY <1>6, <1>7

\* What a failure report, a callback and the refund itself do to a record.
LEMMA RefundedIs ==
  ASSUME NEW k \in ComputeJob
  PROVE  /\ Refunded(k) \in ComputeJob
         /\ Refunded(k).status = k.status /\ Refunded(k).roster = k.roster
         /\ Refunded(k).subs = k.subs /\ Refunded(k).outliers = k.outliers
         /\ k.status \in {"disputed", "faulted"} => Owed(Refunded(k))
  BY DEF Refunded, ComputeJob, Owed

\* The sweep refunds whom it leaves unserved, and what it calls done has a winner.
LEMMA FinalizedIsClear ==
  ASSUME NEW k \in ComputeJob
  PROVE  /\ Finalized(k).status \in {"disputed", "faulted"} => Owed(Finalized(k))
         /\ Finalized(k).status = "done" => ConsensusHash(Finalized(k)) # NoHash
<1> DEFINE v == Judged(k)
           r == Refunded(v)
<1>1. /\ v \in ComputeJob /\ v.status = Verdict(k)
      /\ v.roster = k.roster /\ v.subs = k.subs
  BY RecordedIs, VerdictSettles DEF Judged, ComputeJob
<1> HIDE DEF v
<1>2. /\ r \in ComputeJob /\ r.status = v.status /\ r.roster = v.roster /\ r.subs = v.subs
      /\ v.status \in {"disputed", "faulted"} => r.refund \/ r.roster = {}
  BY <1>1, RefundedIs DEF Owed
<1> HIDE DEF r
<1>3. /\ Finalized(k).status = r.status /\ Finalized(k).roster = r.roster
      /\ Finalized(k).subs = r.subs /\ Finalized(k).refund = r.refund
  BY <1>2 DEF Finalized, ComputeJob, r, v
<1>4. ConsensusHash(Finalized(k)) = ConsensusHash(k)
  BY <1>1, <1>2, <1>3, SameVerdict
<1>5. Verdict(k) = "done" => ConsensusHash(k) # NoHash
  BY DEF Verdict
<1>6. QED
  BY <1>1, <1>2, <1>3, <1>4, <1>5 DEF Owed

\* Nothing is in the ledger at first.
LEMMA RefundInit == Init => RefundDue
<1> SUFFICES ASSUME Init, NEW i \in Jobs PROVE Clear(job[i], rpc, i)
  BY DEF RefundDue
<1>1. job[i].status = "absent" /\ rpc.job # i
  BY NoJobAssumption, NoneAssumption DEF Init, NewJob, Idle
<1>2. QED
  BY <1>1 DEF Clear, Unserved

\* The developer's and the miners' requests.
LEMMA RefundRequests ==
  ASSUME IInv, NEW i \in Jobs, Clear(job[i], rpc, i), NEW j \in Jobs,
         \/ Submit(j) \/ Assign(j)
         \/ \E m \in Miners : SelfReportFailed(j, m) \/ \E h \in Hashes : SubmitResult(j, m, h)
  PROVE  Clear(job'[i], rpc', i)
<1>1. job \in [Jobs -> ComputeJob] /\ job[i] \in ComputeJob /\ job[j] \in ComputeJob
  BY DEF IInv, TypeOK
<1>2. Idle.job = NoJob /\ NoJob # i
  BY NoJobAssumption, NoneAssumption DEF Idle
<1>3. CASE Submit(j)
  <2>1. rpc.job # i /\ rpc'.job = j
    BY <1>3 DEF Submit, Clear, Idle
  <2>2. CASE i = j
    <3>1. job'[i].status = "pending" /\ rpc'.at = "assign"
      BY <1>1, <1>3, <2>2 DEF Submit, NewJob, Idle
    <3>2. QED
      BY <3>1 DEF Clear, Unserved
  <2>3. CASE i # j
    <3>1. job'[i] = job[i]
      BY <1>1, <1>3, <2>3 DEF Submit
    <3>2. QED
      BY <2>1, <2>3, <3>1, ClearElsewhere
  <2>4. QED
    BY <2>2, <2>3
<1>4. CASE Assign(j)
  <2>1. rpc.job = j /\ rpc.at = "assign" /\ rpc'.job # i /\ rpc' = Idle
    BY <1>2, <1>4 DEF Assign, RpcAt
  <2>2. CASE i # j
    <3>1. job'[i] = job[i]
      BY <1>1, <1>4, <2>2 DEF Assign
    <3>2. QED
      BY <2>1, <2>2, <3>1, ClearElsewhere
  <2>3. CASE i = j /\ job' = job
    BY <2>1, <2>3 DEF Clear, Unserved
  <2>4. ASSUME NEW R \in Picks, i = j,
               job' = [job EXCEPT ![j].roster = R, ![j].status = "assigned"]
        PROVE  Clear(job'[i], rpc', i)
    <3>1. job' = [job EXCEPT ![j] = [job[j] EXCEPT !.roster = R, !.status = "assigned"]]
      BY <1>1, <2>4
    <3>2. job'[i].status = "assigned"
      BY <1>1, <2>4, <3>1 DEF ComputeJob
    <3>3. QED
      BY <2>1, <3>2 DEF Clear, Unserved
  <2>5. QED
    BY <1>4, <2>2, <2>3, <2>4 DEF Assign
<1>5. ASSUME NEW m \in Miners, NEW h \in Hashes, SubmitResult(j, m, h)
      PROVE  Clear(job'[i], rpc', i)
  <2>1. rpc.job # i /\ rpc'.job \in {j, NoJob} /\ rpc'.at \in {"idle", "check"}
    BY <1>2, <1>5 DEF SubmitResult, Clear, Idle
  <2>2. CASE i # j
    <3>1. job'[i] = job[i] /\ rpc'.job # i
      BY <1>1, <1>2, <1>5, <2>1, <2>2 DEF SubmitResult
    <3>2. QED
      BY <2>1, <3>1, ClearElsewhere
  <2>3. CASE i = j
    <3>1. job[j].status \in {"assigned", "pending"}
      BY <1>5 DEF SubmitResult, Accepts
    <3>2. job'[j].status = job[j].status
      BY <1>1, <1>5 DEF SubmitResult, ComputeJob
    <3>3. rpc'.at = "idle" => rpc'.job # i
      BY <1>2, <1>5 DEF SubmitResult, Idle
    <3>4. QED
      BY <2>3, <3>1, <3>2, <3>3 DEF Clear, Unserved
  <2>4. QED
    BY <2>2, <2>3
<1>6. ASSUME NEW m \in Miners, SelfReportFailed(j, m)
      PROVE  Clear(job'[i], rpc', i)
  <2>1. rpc' = rpc /\ rpc.job # i /\ rpc.at = "idle"
    BY <1>6 DEF SelfReportFailed, Clear
  <2>2. CASE i # j
    BY <1>1, <1>6, <2>1, <2>2 DEF SelfReportFailed
  <2>3. CASE i = j
    <3> DEFINE k == job[j]
    <3>1. /\ job'[i].status = "faulted" /\ job'[i].roster = k.roster
          /\ job'[i].outliers = k.outliers /\ job'[i].refund = k.refund
      BY <1>1, <1>6, <2>3 DEF SelfReportFailed, ComputeJob
    <3>2. ASSUME k.outliers = k.roster PROVE Owed(k)
      <4>1. m \in k.roster /\ Missing(k) # {}
        BY <1>6 DEF SelfReportFailed, Missing
      <4>2. VerdictOnRecord(k) /\ k.status \in Settled
        BY <1>1, <3>2, <4>1 DEF IInv, JobInv, Unjudged, ComputeJob
      <4>3. k.status # "done"
        <5>1. SUFFICES ASSUME ConsensusHash(k) # NoHash PROVE FALSE
          BY <2>3 DEF Clear
        <5>2. Winners(k) # {} /\ Winners(k) \subseteq k.roster
          BY <1>1, <5>1, SomebodyWins, WinnersAre
        <5>3. k.outliers = k.roster \ Winners(k)
          BY <4>2, <5>1 DEF VerdictOnRecord, Outliers
        <5>4. QED
          BY <3>2, <5>2, <5>3
      <4>4. Unserved(k)
        BY <3>2, <4>2, <4>3 DEF Unserved, Settled
      <4>5. QED
        BY <2>1, <2>3, <4>4 DEF Clear
    <3>3. QED
      BY <2>1, <3>1, <3>2 DEF Clear, Unserved, Owed
  <2>4. QED
    BY <2>2, <2>3
<1>7. QED
  BY <1>3, <1>4, <1>5, <1>6

\* The rpc thread's finalizer.
LEMMA RefundRpc ==
  ASSUME IInv, NEW i \in Jobs, Clear(job[i], rpc, i), NEW j \in Jobs, RpcFinalize(j)
  PROVE  Clear(job'[i], rpc', i)
<1>1. /\ job \in [Jobs -> ComputeJob] /\ job[i] \in ComputeJob /\ job[j] \in ComputeJob
      /\ rpc \in RpcRecord
  BY DEF IInv, TypeOK
<1>2. Idle.job = NoJob /\ NoJob # i
  BY NoJobAssumption, NoneAssumption DEF Idle
<1>3. /\ rpc.job = j
      /\ rpc'.job = j \/ (rpc'.job = NoJob /\ (RpcCheck(j) \/ RpcRefund(j)))
  BY <1>1, <1>2 DEF RpcFinalize, RpcAt, RpcRecord, RpcCheck, RpcJudge, RpcSettle, RpcCredit,
     RpcCredited, RpcCount, RpcSlash, RpcBan, RpcRefund
<1>4. CASE i # j
  <2>1. job'[i] = job[i]
    BY <1>1, <1>4 DEF RpcFinalize, RpcCheck, RpcJudge, RpcSettle, RpcCredit,
       RpcCredited, RpcCount, RpcSlash, RpcBan, RpcRefund
  <2>2. QED
    BY <1>2, <1>3, <1>4, <2>1, ClearElsewhere
<1>5. CASE i = j
  <2>1. CASE RpcCheck(j)
    <3>1. job'[i] = job[i] /\ rpc.at = "check"
      BY <2>1 DEF RpcCheck, RpcAt
    <3>2. rpc' = Idle \/ (rpc'.at = "judge" /\ rpc'.job = j)
      BY <1>1, <2>1 DEF RpcCheck, RpcAt, RpcRecord
    <3>3. QED
      BY <1>2, <1>3, <1>5, <3>1, <3>2 DEF Clear, Unserved
  <2>2. CASE RpcJudge(j)
    <3>1. /\ job'[i] = Recorded(job[j]) /\ rpc.at = "judge"
          /\ rpc'.at = "settle" /\ rpc'.job = j
      BY <1>1, <1>5, <2>2 DEF RpcJudge, RpcAt, RpcRecord
    <3>2. /\ Recorded(job[j]).status = job[j].status
          /\ Recorded(job[j]).roster = job[j].roster
          /\ Recorded(job[j]).refund = job[j].refund
          /\ ConsensusHash(Recorded(job[j])) = ConsensusHash(job[j])
      <4>1. Recorded(job[j]).refund = job[j].refund
        BY <1>1 DEF Recorded, ComputeJob
      <4>2. QED
        BY <1>1, <4>1, RecordedIs, SameVerdict
    <3>3. QED
      BY <1>3, <1>5, <3>1, <3>2 DEF Clear, Owed
  <2>3. CASE RpcSettle(j)
    <3>1. /\ job'[i] = [job[j] EXCEPT !.status = Verdict(job[j])]
          /\ rpc'.at = "credit" /\ rpc'.job = j
      BY <1>1, <1>5, <2>3 DEF RpcSettle, RpcAt, RpcRecord
    <3>2. /\ job'[i].status = Verdict(job[j])
          /\ job'[i].roster = job[j].roster /\ job'[i].subs = job[j].subs
      BY <1>1, <3>1 DEF ComputeJob
    <3>3. ConsensusHash(job'[i]) = ConsensusHash(job[j])
      BY <3>2, SameVerdict
    <3>4. Verdict(job[j]) = "done" => ConsensusHash(job[j]) # NoHash
      BY DEF Verdict
    <3>5. QED
      BY <1>5, <3>1, <3>2, <3>3, <3>4 DEF Clear
  <2>4. CASE RpcRefund(j)
    <3>1. job'[i] = Refunded(job[j]) /\ rpc' = Idle /\ rpc.at = "count"
      BY <1>1, <1>5, <2>4 DEF RpcRefund, RpcAt
    <3>2. /\ Refunded(job[j]).status = job[j].status
          /\ Refunded(job[j]).roster = job[j].roster /\ Refunded(job[j]).subs = job[j].subs
          /\ job[j].status \in {"disputed", "faulted"} => Owed(Refunded(job[j]))
      BY <1>1, RefundedIs
    <3>3. ConsensusHash(Refunded(job[j])) = ConsensusHash(job[j])
      BY <3>2, SameVerdict
    <3>4. QED
      BY <1>2, <1>5, <3>1, <3>2, <3>3 DEF Clear, Unserved
  <2>5. CASE RpcCredited(j) \/ RpcBan(j) \/ \E m \in Miners : RpcCount(j, m)
    <3>1. job'[i] = job[i] /\ rpc'.job = j /\ rpc'.at \in {"count", "slash"}
      BY <1>1, <2>5 DEF RpcCredited, RpcBan, RpcCount, RpcAt, RpcRecord
    <3>2. QED
      BY <1>5, <3>1 DEF Clear
  <2>6. ASSUME NEW m \in Miners, RpcCredit(j, m)
        PROVE  Clear(job'[i], rpc', i)
    <3>1. /\ job'[i].status = job[i].status /\ job'[i].roster = job[i].roster
          /\ job'[i].subs = job[i].subs
          /\ rpc'.job = j /\ rpc'.at = "credit"
      BY <1>1, <1>5, <2>6 DEF RpcCredit, RpcAt, RpcRecord, ComputeJob
    <3>2. QED
      BY <1>5, <3>1, SameVerdict DEF Clear
  <2>7. ASSUME NEW keepsStake \in BOOLEAN, RpcSlash(j, keepsStake)
        PROVE  Clear(job'[i], rpc', i)
    <3>1. /\ job'[i].status = job[i].status /\ job'[i].roster = job[i].roster
          /\ job'[i].subs = job[i].subs
          /\ rpc'.job = j /\ rpc'.at = "ban"
      BY <1>1, <1>5, <2>7 DEF RpcSlash, RpcAt, RpcRecord, ComputeJob
    <3>2. QED
      BY <1>5, <3>1, SameVerdict DEF Clear
  <2>8. QED
    BY <2>1, <2>2, <2>3, <2>4, <2>5, <2>6, <2>7 DEF RpcFinalize
<1>6. QED
  BY <1>4, <1>5

\* The sweep's critical section: the job it settles, it has paid or refunded.
LEMMA RefundSweeps ==
  ASSUME IInv, NEW i \in Jobs, Clear(job[i], rpc, i), NEW j \in Jobs, NEW keepers,
         SweepFinalize(j, keepers)
  PROVE  Clear(job'[i], rpc', i)
<1>1. job \in [Jobs -> ComputeJob] /\ rpc' = rpc
  BY DEF IInv, TypeOK, SweepFinalize
<1>2. CASE i # j
  BY <1>1, <1>2 DEF SweepFinalize
<1>3. CASE i = j
  <2>1. job'[i] = Finalized(job[j])
    BY <1>1, <1>3 DEF SweepFinalize
  <2>2. QED
    BY <1>1, <1>3, <2>1, FinalizedIsClear DEF Clear, Unserved
<1>4. QED
  BY <1>2, <1>3

\* Every step keeps RefundDue: the count of crashes never falls, and while it is
\* zero each thread keeps each job clear.
LEMMA RefundStep == IInv /\ RefundDue /\ [Next]_vars => RefundDue'
<1> SUFFICES ASSUME IInv, RefundDue, [Next]_vars, env'.crashes = 0, NEW i \in Jobs
             PROVE  Clear(job'[i], rpc', i)
  BY DEF RefundDue
<1>1. env \in [saves: Nat, crashes: Nat, registrations: Nat]
  BY DEF IInv, TypeOK
<1>2. ~Crash
  BY <1>1 DEF Crash
<1>3. env.crashes = 0
  BY <1>1, <1>2 DEF Next, RpcThread, SweepThread, RpcFinalize, SweepOne,
     Submit, Assign, RpcCheck, RpcJudge, RpcSettle, RpcCredit, RpcCredited, RpcCount, RpcSlash,
     RpcBan, RpcRefund, SelfReportFailed, SubmitResult, RegisterMiner, BanEnds, SweepSnapshot,
     SweepSkip, SweepFinalize, DeadlinePasses, Save, vars
<1>4. Clear(job[i], rpc, i)
  BY <1>3 DEF RefundDue
<1>5. CASE RpcThread
  <2>1. PICK j \in Jobs : Assign(j) \/ RpcFinalize(j)
    BY <1>5 DEF RpcThread
  <2>2. QED
    BY <1>4, <2>1, RefundRequests, RefundRpc
<1>6. ASSUME NEW j \in Jobs,
             \/ Submit(j)
             \/ \E m \in Miners : SelfReportFailed(j, m) \/ \E h \in Hashes : SubmitResult(j, m, h)
      PROVE  Clear(job'[i], rpc', i)
  BY <1>4, <1>6, RefundRequests
<1>7. ASSUME NEW j \in Jobs, NEW keepers, SweepFinalize(j, keepers)
      PROVE  Clear(job'[i], rpc', i)
  BY <1>4, <1>7, RefundSweeps
<1>8. CASE job' = job /\ rpc' = rpc
  BY <1>4, <1>8
<1>9. QED
  BY <1>2, <1>5, <1>6, <1>7, <1>8 DEF Next, SweepThread, SweepOne, SweepSnapshot, SweepSkip,
     DeadlinePasses, BanEnds, RegisterMiner, Save, vars

\* While the node has not crashed, a job with a roster that pays nobody is
\* refunded as soon as the rpc thread is through with it, whichever of the two
\* finalizers judged it and whoever reports failure afterwards.
THEOREM RefundsUnserved == Spec => []UnservedIsRefunded
<1>1. Init => IInv /\ RefundDue
  BY InitInv, RefundInit
<1>2. (IInv /\ RefundDue) /\ [Next]_vars => (IInv /\ RefundDue)'
  BY StepInv, RefundStep
<1>3. RefundDue => UnservedIsRefunded
  BY DEF RefundDue, Clear, Unserved, Owed, UnservedIsRefunded
<1>4. QED
  BY <1>1, <1>2, <1>3, PTL DEF Spec

(***************************************************************************)
(* The fates.  A record that is settled with all its results in is settled *)
(* as they demand, so that whoever judges it again changes nothing; one    *)
(* that owes a refund has a roster to refund; and the sweep never has a    *)
(* job in hand that is not in the ledger.                                  *)
(***************************************************************************)
Firm(k) ==
  /\ k.status \in Settled /\ Missing(k) = {} => k.status = Verdict(k) /\ VerdictOnRecord(k)
  /\ k.refund => k.roster # {}

Firmness ==
  /\ \A i \in Jobs : Firm(job[i]) /\ Firm(disk.job[i])
  /\ \A i \in due : job[i].status # "absent"

\* what a step may make of a settled record, and of any record
Frozen(k, l) ==
  /\ l.status \in {k.status, "faulted"}
  /\ l.roster = k.roster /\ l.subs = k.subs
  /\ Unjudged(k) \/ (l.winners = k.winners /\ l.outliers = k.outliers /\ l.hash = k.hash)

Moved(k, l) ==
  /\ k.status \in Settled => Frozen(k, l)
  /\ k.status # "absent" => l.status # "absent"
  /\ \/ FateOf(l) = FateOf(k)
     \/ k.status = "absent" /\ l = NewJob("pending")
     \/ /\ k.status # "absent"
        /\ k.refund => l.refund
        /\ l.refund => k.refund \/ l.status \in Settled

\* A job moves as JobFates allows.
LEMMA MovedIsFate ==
  ASSUME NEW k \in ComputeJob, NEW l \in ComputeJob, Moved(k, l)
  PROVE  FateOf(l) = FateOf(k) \/ FateOf(l) \in Ledger!Fates(FateOf(k))
<1>1. CASE FateOf(l) = FateOf(k)
  BY <1>1
<1>2. CASE k.status = "absent" /\ l = NewJob("pending")
  BY <1>2 DEF FateOf, NewJob, Ledger!Fates
<1>3. CASE /\ k.status # "absent"
           /\ k.refund => l.refund
           /\ l.refund => k.refund \/ l.status \in Settled
  <2> DEFINE f == FateOf(k)
             g == FateOf(l)
  <2>1. /\ k.status \in {"pending", "assigned"} \cup Settled /\ k.refund \in BOOLEAN
        /\ l.status \in {"pending", "assigned"} \cup Settled /\ l.refund \in BOOLEAN
        /\ k.status \in Settled => l.status \in {k.status, "faulted"}
    BY <1>3 DEF Moved, Frozen, ComputeJob
  <2>2. /\ f.status = (IF k.status \in Settled THEN k.status ELSE "open") /\ f.owed = k.refund
        /\ g.status = (IF l.status \in Settled THEN l.status ELSE "open") /\ g.owed = l.refund
    BY <2>1 DEF FateOf, Settled
  <2>3. g \in Ledger!Fate
    BY <2>1 DEF FateOf, Settled, Ledger!Fate
  <2> HIDE DEF f, g
  <2>4. f.status # "lost" /\ Ledger!Follows(f.status, g.status)
    BY <2>1, <2>2 DEF Ledger!Follows, Settled
  <2>5. g.owed = f.owed \/ (g.owed /\ g.status # "open")
    BY <1>3, <2>1, <2>2 DEF Settled
  <2>6. g \in Ledger!Fates(f)
    BY <2>3, <2>4, <2>5 DEF Ledger!Fates
  <2>7. QED
    BY <2>6 DEF f, g
<1>4. QED
  BY <1>1, <1>2, <1>3 DEF Moved

\* What holds of one record and of every other holds of the ledger.
LEMMA OneMoves ==
  ASSUME IInv, Firmness, NEW j \in Jobs,
         Moved(job[j], job'[j]), Firm(job'[j]), \A i \in Jobs \ {j} : job'[i] = job[i]
  PROVE  \A i \in Jobs : Moved(job[i], job'[i]) /\ Firm(job'[i])
  BY DEF Firmness, Moved, Frozen

\* The developer's and the miners' requests.
LEMMA MovesRequests ==
  ASSUME IInv, Firmness, NEW j \in Jobs,
         \/ Submit(j) \/ Assign(j)
         \/ \E m \in Miners : SelfReportFailed(j, m) \/ \E h \in Hashes : SubmitResult(j, m, h)
  PROVE  /\ Moved(job[j], job'[j]) /\ Firm(job'[j])
         /\ \A i \in Jobs \ {j} : job'[i] = job[i]
<1>1. /\ job \in [Jobs -> ComputeJob] /\ job[j] \in ComputeJob
      /\ JobInv(job[j]) /\ Firm(job[j])
  BY DEF IInv, TypeOK, Firmness
<1>2. CASE Submit(j)
  <2>1. /\ job[j].status = "absent" /\ job'[j] = NewJob("pending")
        /\ \A i \in Jobs \ {j} : job'[i] = job[i]
    BY <1>1, <1>2 DEF Submit
  <2>2. NewJob("pending").status = "pending" /\ NewJob("pending").refund = FALSE
    BY DEF NewJob
  <2>3. QED
    BY <2>1, <2>2 DEF Moved, Firm, Settled
<1>3. CASE Assign(j) /\ job' = job
  BY <1>1, <1>3 DEF Moved, Frozen
<1>4. ASSUME NEW R \in Picks, job[j].status = "pending",
             job' = [job EXCEPT ![j].roster = R, ![j].status = "assigned"]
      PROVE  /\ Moved(job[j], job'[j]) /\ Firm(job'[j])
             /\ \A i \in Jobs \ {j} : job'[i] = job[i]
  <2>1. /\ job'[j].status = "assigned" /\ job'[j].roster = R /\ job'[j].refund = job[j].refund
        /\ \A i \in Jobs \ {j} : job'[i] = job[i]
    <3>1. job' = [job EXCEPT ![j] = [job[j] EXCEPT !.roster = R, !.status = "assigned"]]
      BY <1>1, <1>4
    <3>2. QED
      BY <1>1, <3>1 DEF ComputeJob
  <2>2. ~job[j].refund
    BY <1>1, <1>4 DEF JobInv, Firm
  <2>3. QED
    BY <1>4, <2>1, <2>2 DEF Moved, Firm, Settled
<1>5. ASSUME NEW m \in Miners, NEW h \in Hashes, SubmitResult(j, m, h)
      PROVE  /\ Moved(job[j], job'[j]) /\ Firm(job'[j])
             /\ \A i \in Jobs \ {j} : job'[i] = job[i]
  <2>1. job[j].status \in {"assigned", "pending"}
    BY <1>5 DEF SubmitResult, Accepts
  <2>2. /\ job'[j].status = job[j].status /\ job'[j].roster = job[j].roster
        /\ job'[j].refund = job[j].refund
        /\ \A i \in Jobs \ {j} : job'[i] = job[i]
    BY <1>1, <1>5 DEF SubmitResult, ComputeJob
  <2>3. QED
    BY <1>1, <2>1, <2>2 DEF Moved, Firm, Settled
<1>6. ASSUME NEW m \in Miners, SelfReportFailed(j, m)
      PROVE  /\ Moved(job[j], job'[j]) /\ Firm(job'[j])
             /\ \A i \in Jobs \ {j} : job'[i] = job[i]
  <2>1. /\ job'[j].status = "faulted" /\ job'[j].roster = job[j].roster
        /\ job'[j].subs = job[j].subs /\ job'[j].refund = job[j].refund
        /\ job'[j].winners = job[j].winners /\ job'[j].outliers = job[j].outliers
        /\ job'[j].hash = job[j].hash
        /\ \A i \in Jobs \ {j} : job'[i] = job[i]
    BY <1>1, <1>6 DEF SelfReportFailed, ComputeJob
  <2>2. m \in Missing(job[j]) /\ Missing(job'[j]) = Missing(job[j])
    BY <1>6, <2>1, SameVerdict DEF SelfReportFailed
  <2>3. job[j].status # "absent"
    BY <1>1, <2>2 DEF JobInv, Missing
  <2>4. Firm(job'[j])
    BY <1>1, <2>1, <2>2 DEF Firm
  <2>5. QED
    BY <2>1, <2>3, <2>4 DEF Moved, Frozen
<1>7. QED
  BY <1>2, <1>3, <1>4, <1>5, <1>6 DEF Assign

\* The rpc thread's finalizer: on a job the sweep has settled it repeats the
\* sweep's verdict.
LEMMA MovesRpc ==
  ASSUME IInv, Firmness, NEW j \in Jobs, RpcFinalize(j)
  PROVE  /\ Moved(job[j], job'[j]) /\ Firm(job'[j])
         /\ \A i \in Jobs \ {j} : job'[i] = job[i]
<1> DEFINE k == job[j]
           l == job'[j]
<1>1. /\ job \in [Jobs -> ComputeJob] /\ k \in ComputeJob /\ JobInv(k) /\ Firm(k) /\ RpcInv
  BY DEF IInv, TypeOK, Firmness
<1>2. \A i \in Jobs \ {j} : job'[i] = job[i]
  BY <1>1 DEF RpcFinalize, RpcCheck, RpcJudge, RpcSettle, RpcCredit, RpcCredited, RpcCount,
     RpcSlash, RpcBan, RpcRefund
<1> HIDE DEF k, l
\* steps that leave the status, the results and the verdict alone
<1>3. ASSUME l.status = k.status, l.roster = k.roster, l.subs = k.subs, l.refund = k.refund,
             l.winners = k.winners, l.outliers = k.outliers, l.hash = k.hash
      PROVE  Moved(k, l) /\ Firm(l)
  <2>1. Firm(l)
    BY <1>1, <1>3, SameVerdict DEF Firm, VerdictOnRecord
  <2>2. FateOf(l) = FateOf(k)
    BY <1>3 DEF FateOf
  <2>3. QED
    BY <1>3, <2>1, <2>2 DEF Moved, Frozen
<1>4. ASSUME RpcJudge(j) PROVE Moved(k, l) /\ Firm(l)
  <2>1. l = Recorded(k) /\ k.status \in Settled \cup {"assigned"} /\ Missing(k) = {}
    BY <1>1, <1>4 DEF RpcJudge, RpcAt, RpcInv, k, l
  <2>2. /\ l.status = k.status /\ l.roster = k.roster /\ l.subs = k.subs
        /\ l.refund = k.refund
        /\ l.winners = Winners(k) /\ l.outliers = Outliers(k) /\ l.hash = ConsensusHash(k)
        /\ VerdictOnRecord(l)
    <3>1. Recorded(k).refund = k.refund
      BY <1>1 DEF Recorded, ComputeJob
    <3>2. QED
      BY <1>1, <2>1, <3>1, RecordedIs
  <2>3. CASE k.status \in Settled
    <3>1. l.winners = k.winners /\ l.outliers = k.outliers /\ l.hash = k.hash
      BY <1>1, <2>1, <2>2, <2>3 DEF Firm, VerdictOnRecord
    <3>2. QED
      BY <1>3, <2>2, <3>1
  <2>4. CASE k.status = "assigned"
    <3>1. FateOf(l) = FateOf(k)
      BY <2>2 DEF FateOf
    <3>2. QED
      BY <1>1, <2>2, <2>4, <3>1 DEF Moved, Firm, Settled
  <2>5. QED
    BY <2>1, <2>3, <2>4
<1>5. ASSUME RpcSettle(j) PROVE Moved(k, l) /\ Firm(l)
  <2>1. /\ l = [k EXCEPT !.status = Verdict(k)]
        /\ k.status \in Settled \cup {"assigned"} /\ Missing(k) = {} /\ VerdictOnRecord(k)
    BY <1>1, <1>5 DEF RpcSettle, RpcAt, RpcInv, k, l
  <2>2. /\ l.status = Verdict(k) /\ l.roster = k.roster /\ l.subs = k.subs
        /\ l.refund = k.refund
        /\ l.winners = k.winners /\ l.outliers = k.outliers /\ l.hash = k.hash
    BY <1>1, <2>1 DEF ComputeJob
  <2>3. CASE k.status \in Settled
    BY <1>1, <1>3, <2>1, <2>2, <2>3 DEF Firm
  <2>4. CASE k.status = "assigned"
    <3>1. l.status = Verdict(l) /\ VerdictOnRecord(l)
      BY <2>1, <2>2, SameVerdict DEF VerdictOnRecord
    <3>2. l.status # "absent"
      BY <2>2 DEF Verdict
    <3>3. Firm(l)
      BY <1>1, <2>2, <3>1 DEF Firm
    <3>4. QED
      BY <2>2, <2>4, <3>2, <3>3 DEF Moved, Settled
  <2>5. QED
    BY <2>1, <2>3, <2>4
<1>6. ASSUME RpcRefund(j) PROVE Moved(k, l) /\ Firm(l)
  <2>1. l = Refunded(k) /\ k.status \in Settled
    BY <1>1, <1>6 DEF RpcRefund, RpcAt, RpcInv, k, l
  <2>2. /\ l.status = k.status /\ l.roster = k.roster /\ l.subs = k.subs
        /\ l.winners = k.winners /\ l.outliers = k.outliers /\ l.hash = k.hash
        /\ l.refund = k.refund \/ l.refund = (k.roster # {})
    BY <1>1, <2>1 DEF Refunded, ComputeJob
  <2>3. (k.refund => l.refund) /\ (l.refund => l.roster # {})
    BY <1>1, <2>2 DEF Firm
  <2>4. Firm(l)
    BY <1>1, <2>2, <2>3, SameVerdict DEF Firm, VerdictOnRecord
  <2>5. QED
    BY <2>1, <2>2, <2>3, <2>4 DEF Moved, Frozen, Settled
<1>7. ASSUME \/ \E m \in Miners : RpcCredit(j, m)
             \/ \E keepsStake \in BOOLEAN : RpcSlash(j, keepsStake)
      PROVE  Moved(k, l) /\ Firm(l)
  <2>1. /\ l.status = k.status /\ l.roster = k.roster /\ l.subs = k.subs /\ l.refund = k.refund
        /\ l.winners = k.winners /\ l.outliers = k.outliers /\ l.hash = k.hash
    BY <1>1, <1>7 DEF RpcCredit, RpcSlash, ComputeJob, k, l
  <2>2. QED
    BY <1>3, <2>1
<1>8. ASSUME job' = job PROVE Moved(k, l) /\ Firm(l)
  BY <1>3, <1>8 DEF k, l
<1>9. QED
  BY <1>2, <1>4, <1>5, <1>6, <1>7, <1>8 DEF RpcFinalize, RpcCheck, RpcCredited, RpcBan, RpcCount, k, l

\* The sweep's critical section.
LEMMA MovesSweep ==
  ASSUME IInv, Firmness, NEW j \in Jobs, NEW keepers, SweepFinalize(j, keepers)
  PROVE  /\ Moved(job[j], job'[j]) /\ Firm(job'[j])
         /\ \A i \in Jobs \ {j} : job'[i] = job[i]
<1> DEFINE k == job[j]
           v == Judged(k)
           l == Finalized(k)
<1>1. /\ job \in [Jobs -> ComputeJob] /\ k \in ComputeJob /\ JobInv(k) /\ Firm(k)
      /\ k.status \notin Settled /\ k.status # "absent"
  BY DEF IInv, TypeOK, Firmness, SweepFinalize
<1>2. job'[j] = l /\ \A i \in Jobs \ {j} : job'[i] = job[i]
  BY <1>1 DEF SweepFinalize
<1>3. l \in ComputeJob /\ l.status \in Settled /\ VerdictOnRecord(l) /\ Missing(l) = Missing(k)
  <2>1. k.status \in {"absent", "pending", "assigned"}
    BY <1>1 DEF ComputeJob
  <2>2. QED
    BY <1>1, <2>1, FinalizedInv
<1>4. /\ v \in ComputeJob /\ v.status = Verdict(k) /\ v.roster = k.roster /\ v.subs = k.subs
      /\ v.refund = k.refund
  <2>1. Recorded(k).refund = k.refund
    BY <1>1 DEF Recorded, ComputeJob
  <2>2. Recorded(k) \in ComputeJob /\ Recorded(k).roster = k.roster /\ Recorded(k).subs = k.subs
    BY <1>1, RecordedIs
  <2>3. QED
    BY <2>1, <2>2, VerdictSettles DEF Judged, ComputeJob
<1> HIDE DEF v
<1>5. /\ l.status = v.status /\ l.roster = v.roster /\ l.subs = v.subs
      /\ l.refund = v.refund \/ l.refund = (v.roster # {})
  <2> DEFINE r == Refunded(v)
  <2>1. /\ r \in ComputeJob /\ r.status = v.status /\ r.roster = v.roster /\ r.subs = v.subs
        /\ r.refund = v.refund \/ r.refund = (v.roster # {})
    BY <1>4 DEF Refunded, ComputeJob
  <2> HIDE DEF r
  <2>2. l.status = r.status /\ l.roster = r.roster /\ l.subs = r.subs /\ l.refund = r.refund
    BY <2>1 DEF Finalized, ComputeJob, r, v
  <2>3. QED
    BY <2>1, <2>2
<1> HIDE DEF l
<1>6. l.status = Verdict(l)
  BY <1>4, <1>5, SameVerdict
<1>7. (k.refund => l.refund) /\ (l.refund => l.roster # {})
  BY <1>1, <1>4, <1>5 DEF Firm
<1>8. Firm(l)
  BY <1>3, <1>6, <1>7 DEF Firm
<1>9. Moved(k, l)
  BY <1>1, <1>3, <1>7 DEF Moved, Settled
<1>10. QED
  BY <1>2, <1>8, <1>9

\* Every step but a crash moves at most one record, and writes the ledger to
\* disk only as it is.
LEMMA Moves ==
  ASSUME IInv, Firmness, [Next]_vars, ~Crash
  PROVE  /\ \A i \in Jobs : Moved(job[i], job'[i]) /\ Firm(job'[i])
         /\ job' = job \/ \E j \in Jobs : \A i \in Jobs \ {j} : job'[i] = job[i]
         /\ disk'.job = disk.job \/ (disk'.job = job /\ job' = job)
         /\ \A i \in due' : i \in due \/ (job' = job /\ i \in Jobs /\ job[i].status # "absent")
<1>1. ASSUME NEW j \in Jobs,
             \/ Submit(j) \/ Assign(j) \/ RpcFinalize(j)
             \/ \E m \in Miners : SelfReportFailed(j, m) \/ \E h \in Hashes : SubmitResult(j, m, h)
             \/ \E keepers : SweepFinalize(j, keepers)
      PROVE  /\ \A i \in Jobs : Moved(job[i], job'[i]) /\ Firm(job'[i])
             /\ \E x \in Jobs : \A i \in Jobs \ {x} : job'[i] = job[i]
  <2>1. /\ Moved(job[j], job'[j]) /\ Firm(job'[j])
        /\ \A i \in Jobs \ {j} : job'[i] = job[i]
    BY <1>1, MovesRequests, MovesRpc, MovesSweep
  <2>2. QED
    BY <2>1, OneMoves
<1>2. ASSUME job' = job
      PROVE  \A i \in Jobs : Moved(job[i], job'[i]) /\ Firm(job'[i])
  BY <1>2 DEF Firmness, Moved, Frozen
<1>3. /\ \A i \in Jobs : Moved(job[i], job'[i]) /\ Firm(job'[i])
      /\ job' = job \/ \E j \in Jobs : \A i \in Jobs \ {j} : job'[i] = job[i]
  <2>1. \/ job' = job
        \/ \E j \in Jobs :
             \/ Submit(j) \/ Assign(j) \/ RpcFinalize(j)
             \/ \E m \in Miners : SelfReportFailed(j, m) \/ \E h \in Hashes : SubmitResult(j, m, h)
             \/ \E keepers : SweepFinalize(j, keepers)
    BY DEF Next, RpcThread, SweepThread, SweepOne, SweepSnapshot, SweepSkip, DeadlinePasses,
       BanEnds, RegisterMiner, Save, vars
  <2>2. QED
    BY <1>1, <1>2, <2>1
<1>4. disk'.job = disk.job \/ (disk'.job = job /\ job' = job)
  <2>1. CASE Save
    BY <2>1 DEF Save
  <2>2. CASE ~Save
    <3>1. disk' = disk
      BY <2>2 DEF Next, RpcThread, SweepThread, RpcFinalize, SweepOne, Submit, Assign,
         RpcCheck, RpcJudge, RpcSettle, RpcCredit, RpcCredited, RpcCount, RpcSlash, RpcBan,
         RpcRefund, SelfReportFailed, SubmitResult, RegisterMiner, BanEnds, SweepSnapshot,
         SweepSkip, SweepFinalize, DeadlinePasses, vars
    <3>2. QED
      BY <3>1
  <2>3. QED
    BY <2>1, <2>2
<1>5. \A i \in due' : i \in due \/ (job' = job /\ i \in Jobs /\ job[i].status # "absent")
  <2>1. CASE SweepSnapshot
    BY <2>1 DEF SweepSnapshot, Ready
  <2>2. CASE ~SweepSnapshot
    <3>1. due' \subseteq due
      BY <2>2 DEF Next, RpcThread, SweepThread, RpcFinalize, SweepOne, Submit, Assign,
         RpcCheck, RpcJudge, RpcSettle, RpcCredit, RpcCredited, RpcCount, RpcSlash, RpcBan,
         RpcRefund, SelfReportFailed, SubmitResult, RegisterMiner, BanEnds,
         SweepSkip, SweepFinalize, DeadlinePasses, Save, vars
    <3>2. QED
      BY <3>1
  <2>3. QED
    BY <2>1, <2>2
<1>6. QED
  BY <1>3, <1>4, <1>5

\* An empty ledger is firm.
LEMMA FirmEmpty ==
  /\ \A i \in Jobs : Firm(Empty.job[i])
  /\ \A i \in Jobs : FateOf(Empty.job[i]) = Ledger!Lost
<1>1. Firm(NewJob("absent"))
  BY DEF NewJob, Firm, Settled
<1>2. FateOf(NewJob("absent")) = Ledger!Lost
  BY DEF NewJob, FateOf, Ledger!Lost
<1>3. QED
  BY <1>1, <1>2 DEF Empty

\* Every step keeps every record firm.
LEMMA StepFirm == IInv /\ Firmness /\ [Next]_vars => Firmness'
<1> SUFFICES ASSUME IInv, Firmness, [Next]_vars PROVE Firmness'
  OBVIOUS
<1>1. CASE Crash
  BY <1>1, FirmEmpty DEF Crash, Firmness
<1>2. CASE ~Crash
  <2>1. /\ \A i \in Jobs : Moved(job[i], job'[i]) /\ Firm(job'[i])
        /\ disk'.job = disk.job \/ (disk'.job = job /\ job' = job)
        /\ \A i \in due' : i \in due \/ (job' = job /\ i \in Jobs /\ job[i].status # "absent")
    BY <1>2, Moves
  <2>2. \A i \in Jobs : Firm(disk'.job[i])
    BY <2>1 DEF Firmness
  <2>3. \A i \in due' : job'[i].status # "absent"
    <3>1. due \subseteq Jobs
      BY DEF IInv, TypeOK
    <3>2. QED
      BY <2>1, <3>1 DEF Firmness, Moved
  <2>4. QED
    BY <2>1, <2>2, <2>3 DEF Firmness
<1>3. QED
  BY <1>1, <1>2

\* Firmness holds of every behaviour.
LEMMA AlwaysFirm == Spec => [](IInv /\ Firmness)
<1>1. Init => Firmness
  <2>1. Init => job = Empty.job /\ disk = Empty /\ due = {}
    BY DEF Init, Empty
  <2>2. QED
    BY <2>1, FirmEmpty DEF Firmness
<1>2. QED
  BY <1>1, InitInv, StepInv, StepFirm, PTL DEF Spec

\* Until the node crashes a settled job keeps its results and its verdict: the
\* second finalizer repeats the first, no result is taken late, and all a miner
\* can still do is fault a job he did not return.
THEOREM VerdictsFinal == Spec => VerdictFinal
<1>1. IInv /\ Firmness /\ [Next]_vars =>
        [\A j \in Jobs : job[j].status \in Settled /\ env'.crashes = env.crashes =>
           /\ job'[j].status \in {job[j].status, "faulted"}
           /\ job'[j].roster = job[j].roster /\ job'[j].subs = job[j].subs
           /\ \/ Unjudged(job[j])
              \/ /\ job'[j].winners = job[j].winners /\ job'[j].outliers = job[j].outliers
                 /\ job'[j].hash = job[j].hash]_vars
  <2> SUFFICES ASSUME IInv, Firmness, [Next]_vars, NEW j \in Jobs,
                      job[j].status \in Settled, env'.crashes = env.crashes
               PROVE  Frozen(job[j], job'[j])
    BY DEF Frozen
  <2>1. ~Crash
    BY DEF Crash, IInv, TypeOK
  <2>2. QED
    BY <2>1, Moves DEF Moved
<1>2. QED
  BY <1>1, AlwaysFirm, PTL DEF Spec, VerdictFinal

\* Each step of the redundant tier is a step that the refund sweep expects.
THEOREM FatesFollow == Spec => FatesSpec
<1> DEFINE fates == [j \in Jobs |-> FateOf(job[j])]
           saved == [j \in Jobs |-> FateOf(disk.job[j])]
<1>1. Init => Ledger!Init
  <2> SUFFICES ASSUME Init PROVE Ledger!Init
    OBVIOUS
  <2>1. job = Empty.job /\ disk.job = Empty.job
    BY DEF Init, Empty
  <2>2. fates = [j \in Jobs |-> Ledger!Lost] /\ saved = fates
    BY <2>1, FirmEmpty
  <2>3. QED
    BY <2>2 DEF Ledger!Init
<1>2. (IInv /\ Firmness) /\ [Next]_vars => [Ledger!Next]_<<fates, saved>>
  <2> SUFFICES ASSUME IInv, Firmness, [Next]_vars PROVE Ledger!Next \/ UNCHANGED <<fates, saved>>
    OBVIOUS
  <2>1. CASE Crash
    <3>1. PICK snapshot \in {disk, Empty} : job' = snapshot.job /\ disk' = snapshot
      BY <2>1 DEF Crash
    <3>2. fates' = saved' /\ fates' \in {saved, [j \in Jobs |-> Ledger!Lost]}
      BY <3>1, FirmEmpty
    <3>3. QED
      BY <3>2 DEF Ledger!Next, Ledger!Crash
  <2>2. CASE ~Crash
    <3>1. /\ \A i \in Jobs : Moved(job[i], job'[i])
          /\ job' = job \/ \E j \in Jobs : \A i \in Jobs \ {j} : job'[i] = job[i]
          /\ disk'.job = disk.job \/ (disk'.job = job /\ job' = job)
      BY <2>2, Moves
    <3>2. CASE job' = job
      BY <3>1, <3>2 DEF Ledger!Next, Ledger!Save
    <3>3. ASSUME NEW j \in Jobs, job' # job, \A i \in Jobs \ {j} : job'[i] = job[i]
          PROVE  Ledger!Next \/ UNCHANGED <<fates, saved>>
      <4>1. disk'.job = disk.job
        BY <3>1, <3>3
      <4>2. job[j] \in ComputeJob /\ job'[j] \in ComputeJob
        BY StepInv DEF IInv, TypeOK
      <4>3. FateOf(job'[j]) = FateOf(job[j]) \/ FateOf(job'[j]) \in Ledger!Fates(FateOf(job[j]))
        BY <3>1, <4>2, MovedIsFate
      <4>4. saved' = saved /\ fates' = [fates EXCEPT ![j] = FateOf(job'[j])] /\ fates[j] = FateOf(job[j])
        BY <3>3, <4>1
      <4>5. CASE FateOf(job'[j]) = FateOf(job[j])
        BY <4>4, <4>5
      <4>6. CASE FateOf(job'[j]) \in Ledger!Fates(FateOf(job[j]))
        BY <4>4, <4>6 DEF Ledger!Next, Ledger!Decide
      <4>7. QED
        BY <4>3, <4>5, <4>6
    <3>4. QED
      BY <3>1, <3>2, <3>3
  <2>3. QED
    BY <2>1, <2>2
<1>3. QED
  BY <1>1, <1>2, AlwaysFirm, PTL DEF Spec, FatesSpec, Ledger!Spec
----------------------------------------------------------------------------
(***************************************************************************)
(* What becomes of a refund that a verdict promised (RefundSweep).         *)
(* RefundsInv says of each job how often its developer can have been       *)
(* credited, given how far the thread has come with it; each step of the   *)
(* sweep moves one job one notch, and a crash, which may undo the mark but *)
(* not the credit, raises the bound by one.                                *)
(***************************************************************************)
USE NoJobAssumption

(***************************************************************************)
(* Records and functions.                                                  *)
(***************************************************************************)

\* What becomes of a status and of what is owed keeps the shape of a record and
\* whether it is settled.
LEMMA RefundsFateIs ==
  ASSUME NEW r \in RefundRecord, NEW f \in Fates([status |-> r.status, owed |-> r.owed])
  PROVE  LET k == [r EXCEPT !.status = f.status, !.owed = f.owed]
         IN  k \in RefundRecord /\ k.settled = r.settled
<1>1. f.status \in {"lost", "open", "done", "faulted", "disputed"} /\ f.owed \in BOOLEAN
  <2>1. [status |-> "open", owed |-> FALSE] \in Fate
    BY DEF Fate
  <2>2. f \in Fate
    BY <2>1 DEF Fates
  <2>3. QED
    BY <2>2 DEF Fate
<1>2. QED
  BY <1>1 DEF RefundRecord

\* Settling a record keeps its shape.
LEMMA RefundsSettledIs ==
  ASSUME NEW r \in RefundRecord, NEW b \in BOOLEAN
  PROVE  [r EXCEPT !.settled = b] \in RefundRecord /\ [r EXCEPT !.settled = b].settled = b
  BY DEF RefundRecord

\* Replacing a record keeps the shape of the ledger.
LEMMA RefundsUpdateIs ==
  ASSUME NEW f \in [Jobs -> RefundRecord], NEW g, NEW j \in Jobs, NEW k \in RefundRecord,
         g = [f EXCEPT ![j] = k]
  PROVE  g \in [Jobs -> RefundRecord] /\ \A i \in Jobs : g[i] = IF i = j THEN k ELSE f[i]
  OBVIOUS

\* The empty ledger has nothing settled on it.
LEMMA RefundsEmptyIs ==
  LostRefunds \in [Jobs -> RefundRecord] /\ \A j \in Jobs : LostRefunds[j].settled = FALSE
  BY DEF LostRefunds, NoRefund, RefundRecord

(***************************************************************************)
(* One lemma per part of the next-state relation.                          *)
(***************************************************************************)

\* The inductive invariant holds of an empty ledger.
LEMMA RefundsInitIInv == RefundsInit => RefundsInv
  BY DEF RefundsInit, RefundsInv, RefundsTypeOK, RefundRecord, NoRefund, Sweep, SweepIdle, LostRefunds,
         SettledWasCredited, CreditsSoFar

\* Steps of the other threads change neither `owed' amounts already paid nor
\* the settled flag.
LEMMA RefundsOthersIInv == RefundsInv /\ (OtherThreads \/ SeedPool) => RefundsInv'
<1> SUFFICES ASSUME RefundsInv, OtherThreads \/ SeedPool PROVE RefundsInv'
  OBVIOUS
<1> USE DEF RefundRecord, Sweep
<1>1. /\ UNCHANGED <<accounts, credits, sold, sweep, refundDisk, refundEnv>>
      /\ refund' \in [Jobs -> RefundRecord]
      /\ seeded' \in BOOLEAN
      /\ \A j \in Jobs : refund'[j].settled = refund[j].settled
  <2>1. CASE SeedPool
    BY <2>1 DEF SeedPool, RefundsInv, RefundsTypeOK
  <2>2. CASE OtherThreads
    <3>1. PICK j \in Jobs : Others(j)
      BY <2>2 DEF OtherThreads
    <3>2. PICK f \in Fates([status |-> refund[j].status, owed |-> refund[j].owed]) :
            refund' = [refund EXCEPT ![j].status = f.status, ![j].owed = f.owed]
      BY <3>1 DEF Others
    <3> DEFINE k == [refund[j] EXCEPT !.status = f.status, !.owed = f.owed]
    <3>3. refund \in [Jobs -> RefundRecord] /\ refund[j] \in RefundRecord
      BY DEF RefundsInv, RefundsTypeOK
    <3>4. k \in RefundRecord /\ k.settled = refund[j].settled
      <4> HIDE DEF RefundRecord
      <4> QED BY <3>3, RefundsFateIs
    <3>5. refund' = [refund EXCEPT ![j] = k]
      BY <3>2, <3>3
    <3> HIDE DEF RefundRecord, k
    <3>6. refund' \in [Jobs -> RefundRecord] /\ \A i \in Jobs : refund'[i].settled = refund[i].settled
      BY <3>3, <3>4, <3>5, RefundsUpdateIs
    <3> QED BY <3>1, <3>6 DEF Others, RefundsInv, RefundsTypeOK
  <2> QED BY <2>1, <2>2
<1> QED BY <1>1 DEF RefundsInv, RefundsTypeOK, SettledWasCredited, CreditsSoFar

\* A step of the sweep that neither credits nor marks.
LEMMA RefundsWalkIInv ==
  RefundsInv /\ (Snapshot \/ CreditFails \/ SweepEnds \/ \E j \in Jobs : SellFails(j))
    => RefundsInv'
<1> SUFFICES ASSUME RefundsInv,
                    Snapshot \/ CreditFails \/ SweepEnds \/ \E j \in Jobs : SellFails(j)
             PROVE  RefundsInv'
  OBVIOUS
<1> USE DEF Sweep, Walk, SweepIdle, AfterError, RefundsInv, RefundsTypeOK
<1>1. /\ UNCHANGED <<refund, seeded, accounts, credits, sold, refundDisk>>
      /\ refundEnv' \in [saves: Nat, crashes: Nat, failures: Nat]
      /\ refundEnv'.crashes = refundEnv.crashes
      /\ sweep' \in Sweep /\ sweep'.at \in {"idle", "sell"} /\ sweep'.job = NoJob
      /\ sweep'.at = "idle" => sweep'.todo = {}
      /\ \A j \in sweep'.todo : ~refund[j].settled
      /\ sweep.at # "mark"
  <2>1. CASE Snapshot
    BY <2>1 DEF Snapshot, Candidates
  <2>2. CASE CreditFails
    BY <2>2 DEF CreditFails
  <2>3. CASE SweepEnds
    BY <2>3 DEF SweepEnds
  <2>4. CASE \E j \in Jobs : SellFails(j)
    BY <2>4 DEF SellFails
  <2> QED BY <2>1, <2>2, <2>3, <2>4
<1>2. RefundsTypeOK'
  BY <1>1
<1>3. \A j \in Jobs : CreditsSoFar(j)'
  BY <1>1 DEF CreditsSoFar
<1>4. refundEnv'.crashes = 0 => \A j \in Jobs : credits'[j] <= sold'[j]
  BY <1>1
<1> QED BY <1>1, <1>2, <1>3, <1>4 DEF SettledWasCredited

\* The sweep sells for a job.
LEMMA RefundsSellIInv == ASSUME NEW j \in Jobs, RefundsInv, Sell(j) PROVE RefundsInv'
<1> USE DEF Sell, On, Sweep, RefundsInv, RefundsTypeOK
<1>1. RefundsTypeOK'
  OBVIOUS
<1>2. \A i \in Jobs : CreditsSoFar(i)'
  BY DEF CreditsSoFar
<1>3. refundEnv'.crashes = 0 =>
        \A i \in Jobs :
          credits'[i] <= sold'[i] - (IF sweep'.at = "credit" /\ sweep'.job = i THEN 1 ELSE 0)
  OBVIOUS
<1> QED BY <1>1, <1>2, <1>3 DEF SettledWasCredited

\* The job in hand is not marked, so the bound leaves room for one credit.
LEMMA RefundsCreditIInv == RefundsInv /\ Credit => RefundsInv'
<1> SUFFICES ASSUME RefundsInv, Credit PROVE RefundsInv'
  OBVIOUS
<1> USE DEF Credit, On, Sweep, RefundsInv, RefundsTypeOK
<1> DEFINE j == sweep.job
<1>1. j \in Jobs /\ sweep.at = "credit" /\ ~refund[j].settled
  OBVIOUS
<1>2. /\ credits' \in [Jobs -> Nat]
      /\ \A i \in Jobs :
           credits'[i] = IF i = j /\ j \in accounts THEN credits[i] + 1 ELSE credits[i]
  BY <1>1
<1>3. RefundsTypeOK'
  BY <1>1, <1>2
<1>4. \A i \in Jobs : CreditsSoFar(i)'
  BY <1>1, <1>2 DEF CreditsSoFar
<1>5. SettledWasCredited'
  BY <1>1, <1>2 DEF SettledWasCredited
<1>6. refundEnv'.crashes = 0 =>
        \A i \in Jobs :
          credits'[i] <= sold'[i] - (IF sweep'.at = "credit" /\ sweep'.job = i THEN 1 ELSE 0)
  BY <1>1, <1>2
<1> QED BY <1>1, <1>2, <1>3, <1>4, <1>5, <1>6

\* The sweep marks the job settled.
LEMMA RefundsMarkIInv == RefundsInv /\ Mark => RefundsInv'
<1> SUFFICES ASSUME RefundsInv, Mark PROVE RefundsInv'
  OBVIOUS
<1>1. sweep.job \in Jobs /\ sweep.at = "mark" /\ sweep.job \in sweep.todo
  BY DEF Mark, Sweep, RefundsInv, RefundsTypeOK
<1>2. /\ refund' \in [Jobs -> RefundRecord]
      /\ \A i \in Jobs :
           refund'[i].settled = IF i = sweep.job THEN TRUE ELSE refund[i].settled
  <2>1. refund' = [refund EXCEPT ![sweep.job] = [refund[sweep.job] EXCEPT !.settled = TRUE]]
    BY DEF Mark
  <2>2. refund \in [Jobs -> RefundRecord]
    BY DEF RefundsInv, RefundsTypeOK
  <2>3. /\ [refund[sweep.job] EXCEPT !.settled = TRUE] \in RefundRecord
        /\ [refund[sweep.job] EXCEPT !.settled = TRUE].settled = TRUE
    BY <1>1, <2>2, RefundsSettledIs
  <2> QED BY <1>1, <2>1, <2>2, <2>3, RefundsUpdateIs
<1> USE DEF Mark, Walk, Sweep, RefundsInv, RefundsTypeOK
<1>3. RefundsTypeOK'
  BY <1>1, <1>2
<1>4. \A i \in Jobs : CreditsSoFar(i)'
  BY <1>1, <1>2 DEF CreditsSoFar
<1>5. SettledWasCredited'
  BY <1>1, <1>2 DEF SettledWasCredited
<1>6. \A i \in sweep'.todo : ~refund'[i].settled
  BY <1>1, <1>2
<1> QED BY <1>1, <1>2, <1>3, <1>4, <1>5, <1>6

\* A save writes what is in memory.
LEMMA RefundsSaveIInv == RefundsInv /\ SaveRefunds => RefundsInv'
<1> SUFFICES ASSUME RefundsInv, SaveRefunds PROVE RefundsInv'
  OBVIOUS
<1>1. RefundsTypeOK'
  BY DEF SaveRefunds, RefundsInv, RefundsTypeOK
<1>2. SettledWasCredited'
  BY DEF SaveRefunds, RefundsInv, RefundsTypeOK, SettledWasCredited
<1>3. \A j \in Jobs : CreditsSoFar(j)'
  BY DEF SaveRefunds, RefundsInv, RefundsTypeOK, CreditsSoFar
<1> QED BY <1>1, <1>2, <1>3 DEF SaveRefunds, RefundsInv, RefundsTypeOK

\* The mark may be lost, the credit is not: the bound grows with the crash.
LEMMA RefundsCrashIInv == RefundsInv /\ RefundsCrash => RefundsInv'
<1> SUFFICES ASSUME RefundsInv, RefundsCrash PROVE RefundsInv'
  OBVIOUS
<1>1. RefundsTypeOK'
  <2>1. refund' \in [Jobs -> RefundRecord] /\ refundDisk' \in [Jobs -> RefundRecord]
    BY RefundsEmptyIs DEF RefundsCrash, RefundsInv, RefundsTypeOK
  <2>2. sold' \in [Jobs -> Nat] /\ refundEnv' \in [saves: Nat, crashes: Nat, failures: Nat]
    BY DEF RefundsCrash, RefundsInv, RefundsTypeOK
  <2> QED BY <2>1, <2>2 DEF RefundsCrash, SweepIdle, Sweep, RefundsInv, RefundsTypeOK
<1>2. SettledWasCredited'
  BY RefundsEmptyIs DEF RefundsCrash, RefundsInv, RefundsTypeOK, SettledWasCredited
<1>3. \A j \in Jobs : CreditsSoFar(j)'
  <2> SUFFICES ASSUME NEW j \in Jobs PROVE credits[j] <= refundEnv.crashes + 1
    BY DEF RefundsCrash, SweepIdle, RefundsInv, RefundsTypeOK, CreditsSoFar
  <2> QED BY DEF RefundsInv, RefundsTypeOK, CreditsSoFar
<1>4. refundEnv'.crashes # 0
  BY DEF RefundsCrash, RefundsInv, RefundsTypeOK
<1> QED BY <1>1, <1>2, <1>3, <1>4 DEF RefundsCrash, SweepIdle, RefundsInv

\* A step that changes nothing.
LEMMA RefundsStutterIInv == RefundsInv /\ UNCHANGED refundVars => RefundsInv'
  BY DEF refundVars, RefundsInv, RefundsTypeOK, SettledWasCredited, CreditsSoFar

\* The strengthened invariant of the refund sweep: see RefundsInv.
THEOREM RefundsInductive == RefundsSpec => []RefundsInv
<1>1. RefundsInv /\ [RefundsNext]_refundVars => RefundsInv'
  <2> SUFFICES ASSUME RefundsInv, [RefundsNext]_refundVars PROVE RefundsInv'
    OBVIOUS
  <2>1. CASE OtherThreads \/ SeedPool
    BY <2>1, RefundsOthersIInv
  <2>2. CASE Snapshot \/ CreditFails \/ SweepEnds \/ \E j \in Jobs : SellFails(j)
    BY <2>2, RefundsWalkIInv
  <2>3. CASE \E j \in Jobs : Sell(j)
    BY <2>3, RefundsSellIInv
  <2>4. CASE Credit
    BY <2>4, RefundsCreditIInv
  <2>5. CASE Mark
    BY <2>5, RefundsMarkIInv
  <2>6. CASE SaveRefunds
    BY <2>6, RefundsSaveIInv
  <2>7. CASE RefundsCrash
    BY <2>7, RefundsCrashIInv
  <2>8. CASE UNCHANGED refundVars
    BY <2>8, RefundsStutterIInv
  <2> QED
    BY <2>1, <2>2, <2>3, <2>4, <2>5, <2>6, <2>7, <2>8 DEF RefundsNext, RefundThread
<1> QED BY RefundsInitIInv, <1>1, PTL DEF RefundsSpec

\* No refund is marked settled, in memory or on disk, without a committed
\* credit for a developer who has an account.
THEOREM SettledIsCredited == RefundsSpec => []SettledWasCredited
<1>1. RefundsInv => SettledWasCredited
  BY DEF RefundsInv
<1> QED BY RefundsInductive, <1>1, PTL

\* A refund is credited at most once for each life of the process.
THEOREM CreditedAtMostOncePerLife == RefundsSpec => []CreditedOncePerLife
<1>1. RefundsInv => CreditedOncePerLife
  BY DEF RefundsInv, RefundsTypeOK, CreditsSoFar, CreditedOncePerLife
<1> QED BY RefundsInductive, <1>1, PTL

\* Until a crash every credit was paid for by a swap.
THEOREM CreditsAreBacked == RefundsSpec => []CreditsBacked
<1>1. RefundsInv => CreditsBacked
  BY DEF RefundsInv, RefundsTypeOK, CreditsBacked
<1> QED BY RefundsInductive, <1>1, PTL
============================================================================
