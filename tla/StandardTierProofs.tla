------------------------- MODULE StandardTierProofs -------------------------
(***************************************************************************)
(* Proofs about module StandardTier: type correctness, that a verdict is   *)
(* final, that offences and bans follow the verdicts, that a job is paid   *)
(* once for each acceptance, that a lost challenge is refunded, and that   *)
(* the tier implements JobFates, on which the refund sweep relies.         *)
(*                                                                         *)
(* The inductive invariant says what the rpc thread holds while it is      *)
(* between its critical sections: what it read of the miner is still so    *)
(* when the verdict falls, and what a verdict owes is owed until paid.     *)
(***************************************************************************)
EXTENDS StandardTier, FiniteSetTheorems, TLAPS

\* A snapshot's assigned jobs name their assignees as well.
TypeInv ==
  /\ TypeOK
  /\ \A j \in Jobs : disk.job[j].status = "assigned" => disk.job[j].assignee # NoMiner

\* A challenge that was issued names a job and a miner, which stay until a crash.
Issued == {c \in Challenges : chal[c].status # "unissued"}
ChalInv ==
  /\ IsFiniteSet(Issued)
  /\ \A c \in Issued : chal[c].job \in Jobs /\ chal[c].miner \in Miners
  /\ \A c \in passes : chal[c].status = "expired"
  /\ env.crashes = 0 =>
       \A c \in Issued : job[chal[c].job].status # "absent" /\ miner[chal[c].miner].known

\* What the rpc thread read of a challenge and of its miner still holds.
Resolving == rpc.at \in {"verdict", "refund", "ban"}
Lasting == rpc.at \in {"refund", "ban"}
RpcInv ==
  /\ Resolving => /\ rpc.chal \in Issued
                  /\ rpc.job = chal[rpc.chal].job /\ rpc.miner = chal[rpc.chal].miner
  /\ Lasting => chal[rpc.chal].status = "failed"
  /\ env.crashes + env.registrations = 0 =>
       /\ rpc.at = "verdict" => /\ rpc.offences = miner[rpc.miner].offences
                                /\ rpc.stake = miner[rpc.miner].stake
       /\ Lasting => rpc.offences + 1 = miner[rpc.miner].offences
       /\ rpc.at = "refund" /\ miner[rpc.miner].stake > 0 => rpc.stake > 0

\* A ban that is due is still to come only while the rpc thread has it in hand.
OffenceInv ==
  env.crashes + env.registrations = 0 =>
    \A m \in Miners :
      /\ miner[m].known => miner[m].offences = Cardinality(Failures(m))
      /\ Cardinality(Failures(m)) >= 2 => miner[m].ban # "never" \/ (Lasting /\ rpc.miner = m)

\* A pass that the watchdog has not called back yet is not paid yet.
PayInv ==
  env.crashes = 0 =>
    \A j \in Jobs : job[j].credits <= job[j].accepts + Cardinality(Passed(j) \ passes)

\* A refund that is due is still to come only while the rpc thread has it in hand.
RefundInv ==
  env.crashes + env.registrations = 0 =>
    \A c \in Challenges :
      chal[c].status = "failed" /\ miner[chal[c].miner].stake > 0 =>
        job[chal[c].job].refund \/ (rpc.at = "refund" /\ rpc.chal = c)

IInv == TypeInv /\ ChalInv /\ RpcInv /\ OffenceInv /\ PayInv /\ RefundInv

----------------------------------------------------------------------------

\* The steps of the node, one disjunct for each kind.
LEMMA Cases ==
  ASSUME [Next]_vars
  PROVE  \/ \E j \in Jobs : Submit(j) \/ Assign(j)
         \/ \E m \in Miners : Draw(m) \/ Abandon(m) \/ BanEnds(m)
         \/ \E j \in Jobs, m \in Miners :
              Resume(j, m) \/ Reject(j, m) \/ Accept(j, m) \/ CreditAccepted(j, m) \/ SelfReportFailed(j, m)
         \/ \E j \in Jobs, m \in Miners, c \in Challenges : IssueChallenge(j, m, c)
         \/ \E m \in Miners, stake \in 0..2 : RegisterMiner(m, stake)
         \/ \E c \in Challenges : ReadChallenge(c) \/ VerdictTooLate(c) \/ WatchdogPass(c) \/ WindowCloses(c)
         \/ \E c \in Challenges : VerdictPass(c, "passed") \/ VerdictPass(c, "expired")
         \/ \E c \in Challenges, stake \in 0..2 : VerdictFail(c, stake)
         \/ RefundFailure \/ BanFailure \/ WatchdogExpire \/ Save \/ Crash
         \/ UNCHANGED vars
BY DEF Next, RpcThread, RpcVerdict, WatchdogThread, Miner

\* The inductive invariant holds of an empty ledger.
LEMMA InitIInv == Init => IInv
<1> SUFFICES ASSUME Init PROVE IInv
  OBVIOUS
<1>1. TypeInv
  <2>1. NewJob("absent") \in ComputeJob /\ NewJob("absent").status = "absent"
    BY DEF NewJob, ComputeJob
  <2>2. \A stake \in 0..3 : Fresh(stake # 3, stake % 3) \in MinerProfile
    <3>1. \A stake \in 0..3 : stake % 3 \in 0..2
      OBVIOUS
    <3> QED BY <3>1 DEF Fresh, MinerProfile
  <2>3. miner \in [Miners -> MinerProfile]
    <3>1. PICK stake \in [Miners -> 0..3] : miner = [m \in Miners |-> Fresh(stake[m] # 3, stake[m] % 3)]
      BY DEF Init
    <3>2. \A m \in Miners : stake[m] \in 0..3
      BY <3>1
    <3> QED BY <2>2, <3>1, <3>2
  <2>4. Idle \in RpcRecord /\ Unissued \in Challenge /\ Fresh(FALSE, 0) \in MinerProfile
    BY DEF Idle, RpcRecord, Unissued, Challenge, Fresh, MinerProfile
  <2>5. /\ disk \in [job: [Jobs -> ComputeJob], miner: [Miners -> MinerProfile]]
        /\ \A j \in Jobs : disk.job[j].status = "absent"
    BY <2>1, <2>4 DEF Init, Empty
  <2>6. env \in [saves: Nat, crashes: Nat, registrations: Nat]
    BY DEF Init
  <2> HIDE DEF NewJob
  <2>7. job \in [Jobs -> ComputeJob] /\ \A j \in Jobs : job[j].status = "absent"
    BY <2>1 DEF Init
  <2> QED BY <2>3, <2>4, <2>5, <2>6, <2>7 DEF Init, TypeInv, TypeOK
<1>2. \A c \in Challenges : chal[c].status = "unissued"
  BY DEF Init, Unissued
<1>3. Issued = {} /\ ChalInv
  BY <1>2, FS_EmptySet DEF Init, Issued, ChalInv
<1>4. rpc.at = "idle"
  BY DEF Init, Idle
<1>5. RpcInv
  BY <1>4 DEF RpcInv, Resolving, Lasting
<1>6. \A m \in Miners : miner[m].offences = 0 /\ Failures(m) = {}
  BY <1>2 DEF Init, Fresh, Failures
<1>7. OffenceInv
  BY <1>6, FS_EmptySet DEF OffenceInv
<1>8. \A j \in Jobs : job[j].credits = 0 /\ job[j].accepts = 0 /\ Passed(j) = {}
  BY <1>2 DEF Init, NewJob, Passed
<1>9. PayInv
  <2>1. \A j \in Jobs : Passed(j) \ passes = {}
    BY <1>8
  <2> QED BY <1>8, <2>1, FS_EmptySet DEF PayInv
<1>10. RefundInv
  BY <1>2 DEF RefundInv
<1> QED BY <1>1, <1>3, <1>5, <1>7, <1>9, <1>10 DEF IInv

\* The record updates of the steps keep a job's and a miner's shape.
LEMMA JobPaid ==
  ASSUME NEW s \in ComputeJob, NEW a \in Nat, NEW b \in Nat
  PROVE  /\ [s EXCEPT !.status = "done", !.accepts = a, !.credits = b] \in ComputeJob
         /\ [s EXCEPT !.status = "done", !.credits = b] \in ComputeJob
<1>1. [s EXCEPT !.status = "done", !.accepts = a, !.credits = b] \in ComputeJob
  BY DEF ComputeJob
<1>2. [s EXCEPT !.status = "done", !.credits = b] \in ComputeJob
  BY DEF ComputeJob
<1> QED BY <1>1, <1>2

\* A miner who is struck keeps his profile's shape.
LEMMA MinerStruck ==
  ASSUME NEW p \in MinerProfile, NEW k \in 0..2, NEW b \in Nat
  PROVE  [p EXCEPT !.stake = k, !.offences = b] \in MinerProfile
BY DEF MinerProfile

\* Calling back a pass.
LEMMA OnPassTypes ==
  ASSUME TypeOK, NEW j \in Jobs, NEW m \in Miners, OnPass(j, m)
  PROVE  /\ job' \in [Jobs -> ComputeJob] /\ miner' \in [Miners -> MinerProfile]
         /\ \A k \in Jobs : job'[k].status = "assigned" => job'[k].assignee # NoMiner
<1>1. job[j] \in ComputeJob /\ miner[m] \in MinerProfile
  BY DEF TypeOK
<1>2. CASE PassDue(j, m)
  <2>1. /\ job' = [job EXCEPT ![j].status = "done", ![j].credits = @ + 1]
        /\ miner' = [miner EXCEPT ![m].completed = @ + 1]
    BY <1>2 DEF OnPass
  <2>2. [job[j] EXCEPT !.status = "done", !.credits = @ + 1] \in ComputeJob
    <3>1. job[j].credits + 1 \in Nat
      BY <1>1 DEF ComputeJob
    <3> HIDE DEF ComputeJob
    <3> QED BY <1>1, <3>1, JobPaid
  <2>3. [miner[m] EXCEPT !.completed = @ + 1] \in MinerProfile
    BY <1>1 DEF MinerProfile
  <2>4. /\ job'[j].status = "done" /\ \A k \in Jobs : k # j => job'[k] = job[k]
    BY <1>1, <2>1 DEF TypeOK, ComputeJob
  <2> QED BY <2>1, <2>2, <2>3, <2>4 DEF TypeOK
<1>3. CASE ~PassDue(j, m)
  BY <1>3 DEF OnPass, TypeOK
<1> QED BY <1>2, <1>3

\* Every step keeps the shapes of the state.
LEMMA StepTypeInv ==
  ASSUME TypeInv, ChalInv, RpcInv, [Next]_vars
  PROVE  TypeInv'
<1>1. /\ \A j \in Jobs : job[j] \in ComputeJob /\ disk.job[j] \in ComputeJob
      /\ \A m \in Miners : miner[m] \in MinerProfile
      /\ \A c \in Challenges : chal[c] \in Challenge
      /\ Idle \in RpcRecord /\ Unissued \in Challenge /\ rpc \in RpcRecord
      /\ job \in [Jobs -> ComputeJob] /\ miner \in [Miners -> MinerProfile]
      /\ chal \in [Challenges -> Challenge] /\ hand \in [Miners -> Jobs \cup {NoJob}]
      /\ overdue \subseteq Challenges /\ passes \subseteq Challenges
      /\ \A j \in Jobs : job[j].status = "assigned" => job[j].assignee # NoMiner
  BY DEF TypeInv, TypeOK, Idle, RpcRecord, Unissued, Challenge
\* everything but the records a step changes
<1>2. ASSUME job' \in [Jobs -> ComputeJob], \A j \in Jobs : job'[j].status = "assigned" => job'[j].assignee # NoMiner,
             miner' \in [Miners -> MinerProfile], chal' \in [Challenges -> Challenge],
             hand' \in [Miners -> Jobs \cup {NoJob}], rpc' \in RpcRecord,
             spec' \subseteq Jobs, overdue' \subseteq Challenges, passes' \subseteq Challenges,
             disk' = disk \/ disk' = [job |-> job, miner |-> miner] \/ disk' = Empty,
             env' \in [saves: Nat, crashes: Nat, registrations: Nat]
      PROVE  TypeInv'
  <2>1. \A j \in Jobs : NewJob("absent").status = "absent" /\ NewJob("absent") \in ComputeJob
    BY DEF NewJob, ComputeJob
  <2>2. Fresh(FALSE, 0) \in MinerProfile
    BY DEF Fresh, MinerProfile
  <2>3. /\ Empty \in [job: [Jobs -> ComputeJob], miner: [Miners -> MinerProfile]]
        /\ \A j \in Jobs : Empty.job[j].status = "absent"
    <3> HIDE DEF NewJob, Fresh
    <3> QED BY <2>1, <2>2 DEF Empty
  <2> HIDE DEF Empty
  <2>4. /\ disk' \in [job: [Jobs -> ComputeJob], miner: [Miners -> MinerProfile]]
        /\ \A j \in Jobs : disk'.job[j].status = "assigned" => disk'.job[j].assignee # NoMiner
    <3>1. CASE disk' = disk
      BY <3>1 DEF TypeInv, TypeOK
    <3>2. CASE disk' = [job |-> job, miner |-> miner]
      BY <1>1, <3>2
    <3>3. CASE disk' = Empty
      BY <2>3, <3>3
    <3> QED BY <1>2, <3>1, <3>2, <3>3
  <2> QED BY <1>2, <2>4 DEF TypeInv, TypeOK
<1>3. \A m \in Miners : \A j \in Jobs :
        /\ Assigned(j, m) \in ComputeJob /\ Assigned(j, m).assignee = m /\ m # NoMiner
        /\ Assigned(j, m).status = "assigned"
  BY <1>1, NoneAssumption DEF Assigned, ComputeJob
<1>4. \A s \in RpcRecord : [s EXCEPT !.at = "refund"] \in RpcRecord /\ [s EXCEPT !.at = "ban"] \in RpcRecord
  BY DEF RpcRecord
<1>5. spec \subseteq Jobs /\ env \in [saves: Nat, crashes: Nat, registrations: Nat]
  BY DEF TypeInv, TypeOK
<1>6. ASSUME NEW j \in Jobs, Submit(j) PROVE TypeInv'
  <2>1. NewJob("pending") \in ComputeJob /\ NewJob("pending").status = "pending"
    BY DEF NewJob, ComputeJob
  <2>2. job' = [job EXCEPT ![j] = NewJob("pending")]
    BY <1>6 DEF Submit
  <2>3. /\ job' \in [Jobs -> ComputeJob]
        /\ \A k \in Jobs : job'[k].status = "assigned" => job'[k].assignee # NoMiner
    <3> HIDE DEF NewJob
    <3> QED BY <1>1, <2>1, <2>2
  <2>4. rpc' \in RpcRecord
    <3>1. rpc' = [at |-> "assign", job |-> j, miner |-> NoMiner, chal |-> NoChallenge, offences |-> 0, stake |-> 0]
      BY <1>6 DEF Submit, Idle
    <3> QED BY <3>1 DEF RpcRecord
  <2> QED BY <1>1, <1>2, <1>5, <1>6, <2>3, <2>4 DEF Submit
<1>7. ASSUME NEW j \in Jobs, Assign(j) PROVE TypeInv'
  <2>1. (\E m \in Eligible : job' = [job EXCEPT ![j] = Assigned(j, m)]) \/ job' = job
    BY <1>7 DEF Assign
  <2>2. Eligible \subseteq Miners
    BY DEF Eligible
  <2>3. /\ job' \in [Jobs -> ComputeJob]
        /\ \A k \in Jobs : job'[k].status = "assigned" => job'[k].assignee # NoMiner
    <3> HIDE DEF Assigned
    <3> QED BY <1>1, <1>3, <2>1, <2>2
  <2> QED BY <1>1, <1>2, <1>5, <1>7, <2>3 DEF Assign
<1>8. ASSUME NEW m \in Miners, Draw(m) PROVE TypeInv'
  <2>1. PICK drawn \in SUBSET Pending : \E to \in [drawn -> Eligible] :
          /\ job' = [j \in Jobs |-> IF j \in drawn THEN Assigned(j, to[j]) ELSE job[j]]
          /\ hand' = hand \/ \E j \in drawn : hand' = [hand EXCEPT ![m] = j]
    BY <1>8 DEF Draw
  <2>2. PICK to \in [drawn -> Eligible] :
          /\ job' = [j \in Jobs |-> IF j \in drawn THEN Assigned(j, to[j]) ELSE job[j]]
          /\ hand' = hand \/ \E j \in drawn : hand' = [hand EXCEPT ![m] = j]
    BY <2>1
  <2>3. \A j \in drawn : to[j] \in Miners /\ j \in Jobs
    BY <2>1, <2>2 DEF Eligible, Pending
  <2>4. /\ job' \in [Jobs -> ComputeJob]
        /\ \A k \in Jobs : job'[k].status = "assigned" => job'[k].assignee # NoMiner
    <3> HIDE DEF Assigned
    <3> QED BY <1>1, <1>3, <2>2, <2>3
  <2>5. hand' \in [Miners -> Jobs \cup {NoJob}]
    BY <1>1, <2>2, <2>3
  <2> QED BY <1>1, <1>2, <1>5, <1>8, <2>4, <2>5 DEF Draw
<1>9. ASSUME NEW m \in Miners, Abandon(m) \/ BanEnds(m) PROVE TypeInv'
  <2>1. [miner[m] EXCEPT !.ban = "over"] \in MinerProfile
    BY <1>1 DEF MinerProfile
  <2>2. miner' \in [Miners -> MinerProfile] /\ hand' \in [Miners -> Jobs \cup {NoJob}]
    BY <1>1, <1>9, <2>1 DEF Abandon, BanEnds
  <2> QED BY <1>1, <1>2, <1>5, <1>9, <2>2 DEF Abandon, BanEnds
<1>10. ASSUME NEW j \in Jobs, NEW m \in Miners, Resume(j, m) \/ Reject(j, m) PROVE TypeInv'
  <2>1. hand' \in [Miners -> Jobs \cup {NoJob}]
    BY <1>1, <1>10 DEF Resume, Reject, Returns
  <2> QED BY <1>1, <1>2, <1>5, <1>10, <2>1 DEF Resume, Reject
<1>11. ASSUME NEW j \in Jobs, NEW m \in Miners, Accept(j, m) PROVE TypeInv'
  <2>1. hand' \in [Miners -> Jobs \cup {NoJob}]
    BY <1>1, <1>11 DEF Accept, Returns
  <2>2. rpc' \in RpcRecord
    <3>1. rpc' = [at |-> "accept", job |-> j, miner |-> m, chal |-> NoChallenge, offences |-> 0, stake |-> 0]
      BY <1>11 DEF Accept, Idle
    <3> QED BY <3>1 DEF RpcRecord
  <2> QED BY <1>1, <1>2, <1>5, <1>11, <2>1, <2>2 DEF Accept
<1>12. ASSUME NEW j \in Jobs, NEW m \in Miners, CreditAccepted(j, m) PROVE TypeInv'
  <2>1. /\ job' = [job EXCEPT ![j].status = "done", ![j].accepts = @ + 1, ![j].credits = @ + 1]
        /\ miner' = [miner EXCEPT ![m].completed = @ + 1]
    BY <1>12 DEF CreditAccepted
  <2>2. /\ [job[j] EXCEPT !.status = "done", !.accepts = @ + 1, !.credits = @ + 1] \in ComputeJob
        /\ [job[j] EXCEPT !.status = "done", !.accepts = @ + 1, !.credits = @ + 1].status = "done"
    <3>1. job[j].credits + 1 \in Nat /\ job[j].accepts + 1 \in Nat
      BY <1>1 DEF ComputeJob
    <3>2. [job[j] EXCEPT !.status = "done", !.accepts = @ + 1, !.credits = @ + 1] \in ComputeJob
      BY <1>1, <3>1, JobPaid
    <3>3. [job[j] EXCEPT !.status = "done", !.accepts = @ + 1, !.credits = @ + 1].status = "done"
      BY <1>1 DEF ComputeJob
    <3> QED BY <3>2, <3>3
  <2>3. [miner[m] EXCEPT !.completed = @ + 1] \in MinerProfile
    BY <1>1 DEF MinerProfile
  <2>4. /\ job' \in [Jobs -> ComputeJob] /\ miner' \in [Miners -> MinerProfile]
        /\ \A k \in Jobs : job'[k].status = "assigned" => job'[k].assignee # NoMiner
    BY <1>1, <2>1, <2>2, <2>3
  <2> QED BY <1>1, <1>2, <1>5, <1>12, <2>4 DEF CreditAccepted
<1>13. ASSUME NEW j \in Jobs, NEW m \in Miners, SelfReportFailed(j, m) PROVE TypeInv'
  <2>1. job' = job \/ job' = [job EXCEPT ![j].status = "faulted"]
    BY <1>13 DEF SelfReportFailed
  <2>2. /\ [job[j] EXCEPT !.status = "faulted"] \in ComputeJob
        /\ [job[j] EXCEPT !.status = "faulted"].status = "faulted"
    BY <1>1 DEF ComputeJob
  <2>3. /\ job' \in [Jobs -> ComputeJob]
        /\ \A k \in Jobs : job'[k].status = "assigned" => job'[k].assignee # NoMiner
    BY <1>1, <2>1, <2>2
  <2>4. hand' \in [Miners -> Jobs \cup {NoJob}]
    BY <1>1, <1>13 DEF SelfReportFailed, Returns
  <2> QED BY <1>1, <1>2, <1>5, <1>13, <2>3, <2>4 DEF SelfReportFailed
<1>14. ASSUME NEW j \in Jobs, NEW m \in Miners, NEW c \in Challenges, IssueChallenge(j, m, c)
       PROVE  TypeInv'
  <2>1. chal' = [chal EXCEPT ![c] = [status |-> "pending", job |-> j, miner |-> m]]
    BY <1>14 DEF IssueChallenge
  <2>2. [status |-> "pending", job |-> j, miner |-> m] \in Challenge
    BY DEF Challenge
  <2>3. chal' \in [Challenges -> Challenge]
    BY <1>1, <2>1, <2>2
  <2>4. hand' \in [Miners -> Jobs \cup {NoJob}]
    BY <1>1, <1>14 DEF IssueChallenge, Returns
  <2> QED BY <1>1, <1>2, <1>5, <1>14, <2>3, <2>4 DEF IssueChallenge
<1>15. ASSUME NEW m \in Miners, NEW stake \in 0..2, RegisterMiner(m, stake) PROVE TypeInv'
  <2>1. Fresh(TRUE, stake) \in MinerProfile
    BY DEF Fresh, MinerProfile
  <2>2. miner' \in [Miners -> MinerProfile]
    BY <1>1, <1>15, <2>1 DEF RegisterMiner
  <2>3. env' \in [saves: Nat, crashes: Nat, registrations: Nat]
    BY <1>5, <1>15 DEF RegisterMiner
  <2> QED BY <1>1, <1>2, <1>5, <1>15, <2>2, <2>3 DEF RegisterMiner
<1>16. ASSUME NEW c \in Challenges, ReadChallenge(c) PROVE TypeInv'
  <2>1. chal[c].job \in Jobs /\ chal[c].miner \in Miners
    BY <1>16 DEF ReadChallenge, ChalInv, Issued
  <2>2. miner[chal[c].miner].offences \in Nat /\ miner[chal[c].miner].stake \in 0..2
    BY <1>1, <2>1 DEF MinerProfile
  <2>3. rpc' \in RpcRecord
    BY <1>16, <2>1, <2>2 DEF ReadChallenge, RpcRecord
  <2> QED BY <1>1, <1>2, <1>5, <1>16, <2>3 DEF ReadChallenge
<1>17. ASSUME NEW c \in Challenges, VerdictTooLate(c) \/ WindowCloses(c) PROVE TypeInv'
  BY <1>1, <1>2, <1>5, <1>17 DEF VerdictTooLate, WindowCloses
<1>18. ASSUME NEW c \in Challenges, WatchdogPass(c) PROVE TypeInv'
  <2>1. chal[c].job \in Jobs /\ chal[c].miner \in Miners
    BY <1>18 DEF WatchdogPass, ChalInv, Issued
  <2>2. /\ job' \in [Jobs -> ComputeJob] /\ miner' \in [Miners -> MinerProfile]
        /\ \A k \in Jobs : job'[k].status = "assigned" => job'[k].assignee # NoMiner
    BY <1>18, <2>1, OnPassTypes DEF WatchdogPass, TypeInv
  <2> QED BY <1>1, <1>2, <1>5, <1>18, <2>2 DEF WatchdogPass
<1>19. ASSUME NEW c \in Challenges, NEW verdict \in {"passed", "expired"}, VerdictPass(c, verdict)
       PROVE  TypeInv'
  <2>1. rpc.job \in Jobs /\ rpc.miner \in Miners
    BY <1>19 DEF VerdictPass, Deciding, RpcInv, Resolving, ChalInv
  <2>2. /\ job' \in [Jobs -> ComputeJob] /\ miner' \in [Miners -> MinerProfile]
        /\ \A k \in Jobs : job'[k].status = "assigned" => job'[k].assignee # NoMiner
    BY <1>19, <2>1, OnPassTypes DEF VerdictPass, TypeInv
  <2>3. [chal[c] EXCEPT !.status = verdict] \in Challenge
    BY <1>1 DEF Challenge, Decided
  <2>4. chal' \in [Challenges -> Challenge]
    BY <1>1, <1>19, <2>3 DEF VerdictPass
  <2> QED BY <1>1, <1>2, <1>5, <1>19, <2>2, <2>4 DEF VerdictPass
<1>20. ASSUME NEW c \in Challenges, NEW stake \in 0..2, VerdictFail(c, stake) PROVE TypeInv'
  <2>1. rpc.job \in Jobs /\ rpc.miner \in Miners /\ rpc.offences + 1 \in Nat
    BY <1>1, <1>20 DEF VerdictFail, Deciding, RpcInv, Resolving, ChalInv, RpcRecord
  <2>2. [chal[c] EXCEPT !.status = "failed"] \in Challenge
    BY <1>1 DEF Challenge, Decided
  <2>3. chal' \in [Challenges -> Challenge]
    BY <1>1, <1>20, <2>2 DEF VerdictFail
  <2>4. /\ job' = job \/ job' = [job EXCEPT ![rpc.job].status = "faulted"]
        /\ \/ miner' = miner
           \/ miner' = [miner EXCEPT ![rpc.miner].stake = stake, ![rpc.miner].offences = rpc.offences + 1]
    BY <1>20 DEF VerdictFail, Struck
  <2>5. /\ [job[rpc.job] EXCEPT !.status = "faulted"] \in ComputeJob
        /\ [job[rpc.job] EXCEPT !.status = "faulted"].status = "faulted"
        /\ [miner[rpc.miner] EXCEPT !.stake = stake, !.offences = rpc.offences + 1] \in MinerProfile
    <3>1. [job[rpc.job] EXCEPT !.status = "faulted"] \in ComputeJob
      BY <1>1, <2>1 DEF ComputeJob
    <3>2. [job[rpc.job] EXCEPT !.status = "faulted"].status = "faulted"
      BY <1>1, <2>1 DEF ComputeJob
    <3>3. [miner[rpc.miner] EXCEPT !.stake = stake, !.offences = rpc.offences + 1] \in MinerProfile
      BY <1>1, <2>1, MinerStruck
    <3> QED BY <3>1, <3>2, <3>3
  <2>6. /\ job' \in [Jobs -> ComputeJob]
        /\ \A k \in Jobs : job'[k].status = "assigned" => job'[k].assignee # NoMiner
    <3>1. CASE job' = job
      BY <1>1, <3>1
    <3>2. CASE job' = [job EXCEPT ![rpc.job].status = "faulted"]
      <4>1. PICK j \in Jobs : j = rpc.job
        BY <2>1
      <4>2. \A k \in Jobs : k # j => job'[k] = job[k]
        BY <1>1, <3>2, <4>1
      <4>3. job'[j] = [job[j] EXCEPT !.status = "faulted"]
        BY <1>1, <3>2, <4>1
      <4>4. job'[j] \in ComputeJob /\ job'[j].status = "faulted"
        BY <2>5, <4>1, <4>3
      <4>5. \A k \in Jobs : job'[k] \in ComputeJob /\ (job'[k].status = "assigned" => job'[k].assignee # NoMiner)
        BY <1>1, <4>2, <4>4
      <4>6. job' = [k \in Jobs |-> job'[k]]
        BY <1>1, <3>2
      <4> QED BY <4>5, <4>6
    <3> QED BY <2>4, <3>1, <3>2
  <2>7. miner' \in [Miners -> MinerProfile]
    <3>1. CASE miner' = miner
      BY <1>1, <3>1
    <3>2. CASE miner' = [miner EXCEPT ![rpc.miner].stake = stake, ![rpc.miner].offences = rpc.offences + 1]
      <4>1. PICK m \in Miners : m = rpc.miner
        BY <2>1
      <4>2. \A k \in Miners : k # m => miner'[k] = miner[k]
        BY <1>1, <3>2, <4>1
      <4>3. miner'[m] = [miner[m] EXCEPT !.stake = stake, !.offences = rpc.offences + 1]
        BY <1>1, <3>2, <4>1
      <4>4. miner'[m] \in MinerProfile
        BY <2>5, <4>1, <4>3
      <4>5. \A k \in Miners : miner'[k] \in MinerProfile
        BY <1>1, <4>2, <4>4
      <4>6. miner' = [k \in Miners |-> miner'[k]]
        BY <1>1, <3>2
      <4> QED BY <4>5, <4>6
    <3> QED BY <2>4, <3>1, <3>2
  <2>8. rpc' \in RpcRecord
    BY <1>1, <1>4, <1>20 DEF VerdictFail
  <2> QED BY <1>1, <1>2, <1>5, <1>20, <2>3, <2>6, <2>7, <2>8 DEF VerdictFail
<1>21. ASSUME RefundFailure PROVE TypeInv'
  <2>1. rpc.job \in Jobs /\ rpc' \in RpcRecord
    BY <1>1, <1>4, <1>21 DEF RefundFailure, RpcInv, Resolving, ChalInv
  <2>2. job' = job \/ job' = [job EXCEPT ![rpc.job].refund = TRUE]
    BY <1>21 DEF RefundFailure
  <2>3. /\ [job[rpc.job] EXCEPT !.refund = TRUE] \in ComputeJob
        /\ [job[rpc.job] EXCEPT !.refund = TRUE].status = job[rpc.job].status
        /\ [job[rpc.job] EXCEPT !.refund = TRUE].assignee = job[rpc.job].assignee
    BY <1>1, <2>1 DEF ComputeJob
  <2>4. /\ job' \in [Jobs -> ComputeJob]
        /\ \A k \in Jobs : job'[k].status = "assigned" => job'[k].assignee # NoMiner
    BY <1>1, <2>1, <2>2, <2>3
  <2> QED BY <1>1, <1>2, <1>5, <1>21, <2>1, <2>4 DEF RefundFailure
<1>22. ASSUME BanFailure PROVE TypeInv'
  <2>1. rpc.miner \in Miners
    BY <1>22 DEF BanFailure, RpcInv, Resolving, ChalInv
  <2>2. [miner[rpc.miner] EXCEPT !.ban = "now"] \in MinerProfile
    BY <1>1, <2>1 DEF MinerProfile
  <2>3. miner' \in [Miners -> MinerProfile]
    BY <1>1, <1>22, <2>1, <2>2 DEF BanFailure
  <2> QED BY <1>1, <1>2, <1>5, <1>22, <2>3 DEF BanFailure
<1>23. ASSUME WatchdogExpire PROVE TypeInv'
  <2>1. \A c \in Challenges : [chal[c] EXCEPT !.status = "expired"] \in Challenge
    BY <1>1 DEF Challenge, Decided
  <2>2. chal' \in [Challenges -> Challenge]
    BY <1>1, <1>23, <2>1 DEF WatchdogExpire
  <2>3. passes' \subseteq Challenges
    BY <1>23 DEF WatchdogExpire, StalePending
  <2> QED BY <1>1, <1>2, <1>5, <1>23, <2>2, <2>3 DEF WatchdogExpire
<1>24. ASSUME Save PROVE TypeInv'
  <2>1. env' \in [saves: Nat, crashes: Nat, registrations: Nat]
    BY <1>5, <1>24 DEF Save
  <2> QED BY <1>1, <1>2, <1>5, <1>24, <2>1 DEF Save
<1>25. ASSUME Crash PROVE TypeInv'
  <2>1. env' \in [saves: Nat, crashes: Nat, registrations: Nat]
    BY <1>5, <1>25 DEF Crash
  <2>2. PICK snapshot \in {disk, Empty} :
          /\ job' = snapshot.job /\ miner' = snapshot.miner /\ disk' = snapshot
          /\ spec' \subseteq Jobs
    BY <1>25 DEF Crash
  <2>3. NewJob("absent").status = "absent" /\ NewJob("absent") \in ComputeJob /\ Fresh(FALSE, 0) \in MinerProfile
    BY DEF NewJob, ComputeJob, Fresh, MinerProfile
  <2>4. /\ Empty \in [job: [Jobs -> ComputeJob], miner: [Miners -> MinerProfile]]
        /\ \A j \in Jobs : Empty.job[j].status = "absent"
    <3> HIDE DEF NewJob, Fresh
    <3> QED BY <2>3 DEF Empty
  <2> HIDE DEF Empty
  <2>5. /\ job' \in [Jobs -> ComputeJob] /\ miner' \in [Miners -> MinerProfile]
        /\ \A k \in Jobs : job'[k].status = "assigned" => job'[k].assignee # NoMiner
    <3>1. CASE snapshot = disk
      BY <2>2, <3>1 DEF TypeInv, TypeOK
    <3>2. CASE snapshot = Empty
      BY <2>2, <2>4, <3>2
    <3> QED BY <2>2, <3>1, <3>2
  <2>6. chal' \in [Challenges -> Challenge]
    BY <1>1, <1>25 DEF Crash
  <2> QED BY <1>1, <1>2, <1>25, <2>1, <2>2, <2>5, <2>6 DEF Crash
<1>26. CASE UNCHANGED vars
  BY <1>26 DEF vars, TypeInv, TypeOK
<1> QED
  BY <1>6, <1>7, <1>8, <1>9, <1>10, <1>11, <1>12, <1>13, <1>14, <1>15, <1>16, <1>17, <1>18, <1>19,
     <1>20, <1>21, <1>22, <1>23, <1>24, <1>25, <1>26, Cases

----------------------------------------------------------------------------
(* What a step changes *)

\* Only the jobs and the miner that are called back change, and a pass pays once.
LEMMA OnPassEffect ==
  ASSUME TypeOK, NEW j \in Jobs, NEW m \in Miners, OnPass(j, m)
  PROVE  /\ \A k \in Jobs :
              /\ job'[k].status = "absent" <=> job[k].status = "absent"
              /\ job'[k].refund = job[k].refund /\ job'[k].accepts = job[k].accepts
              /\ \/ job'[k].credits = job[k].credits
                 \/ k = j /\ job'[k].credits = job[k].credits + 1
         /\ \A n \in Miners :
              /\ miner'[n].known = miner[n].known /\ miner'[n].stake = miner[n].stake
              /\ miner'[n].ban = miner[n].ban /\ miner'[n].offences = miner[n].offences
<1>1. job[j] \in ComputeJob /\ miner[m] \in MinerProfile
  BY DEF TypeOK
<1>2. CASE PassDue(j, m)
  <2>1. /\ job' = [job EXCEPT ![j].status = "done", ![j].credits = @ + 1]
        /\ miner' = [miner EXCEPT ![m].completed = @ + 1]
        /\ job[j].status # "absent"
    BY <1>2 DEF OnPass, PassDue
  <2>2. \A k \in Jobs : k # j => job'[k] = job[k]
    BY <2>1 DEF TypeOK
  <2>3. \A n \in Miners : n # m => miner'[n] = miner[n]
    BY <2>1 DEF TypeOK
  <2>4. job'[j] = [job[j] EXCEPT !.status = "done", !.credits = @ + 1]
    BY <2>1 DEF TypeOK
  <2>5. miner'[m] = [miner[m] EXCEPT !.completed = @ + 1]
    BY <2>1 DEF TypeOK
  <2>6. /\ job'[j].status = "done" /\ job'[j].credits = job[j].credits + 1
        /\ job'[j].refund = job[j].refund /\ job'[j].accepts = job[j].accepts
    BY <1>1, <2>4 DEF ComputeJob
  <2>7. /\ miner'[m].known = miner[m].known /\ miner'[m].stake = miner[m].stake
        /\ miner'[m].ban = miner[m].ban /\ miner'[m].offences = miner[m].offences
    BY <1>1, <2>5 DEF MinerProfile
  <2> QED BY <2>1, <2>2, <2>3, <2>6, <2>7
<1>3. CASE ~PassDue(j, m)
  BY <1>3 DEF OnPass
<1> QED BY <1>2, <1>3

\* The challenge that the rpc thread resolves, and its miner.
LEMMA InHand ==
  ASSUME ChalInv, RpcInv, Resolving
  PROVE  rpc.chal \in Issued /\ rpc.job \in Jobs /\ rpc.miner \in Miners
BY DEF ChalInv, RpcInv, Resolving

\* A failed verdict strikes the miner that the challenge names, and nobody else.
LEMMA StruckEffect ==
  ASSUME TypeInv, ChalInv, RpcInv, NEW c \in Challenges, NEW stake \in 0..2, VerdictFail(c, stake)
  PROVE  /\ rpc.at = "verdict" /\ rpc.chal = c /\ chal[c].status = "pending"
         /\ chal'[c].status = "failed" /\ chal'[c].job = chal[c].job /\ chal'[c].miner = chal[c].miner
         /\ \A d \in Challenges : d # c => chal'[d] = chal[d]
         /\ rpc'.at = "refund" /\ rpc'.chal = c /\ rpc'.job = rpc.job /\ rpc'.miner = rpc.miner
         /\ rpc'.offences = rpc.offences /\ rpc'.stake = rpc.stake
         /\ \A n \in Miners :
              /\ n # rpc.miner => miner'[n] = miner[n]
              /\ miner'[n].known = miner[n].known /\ miner'[n].ban = miner[n].ban
              /\ miner'[n].stake > 0 => miner[n].stake > 0
         /\ miner[rpc.miner].known => miner'[rpc.miner].offences = rpc.offences + 1
         /\ \A k \in Jobs :
              /\ job'[k].status = "absent" <=> job[k].status = "absent"
              /\ job'[k].refund = job[k].refund /\ job'[k].accepts = job[k].accepts
              /\ job'[k].credits = job[k].credits
         /\ passes' = passes /\ env' = env
<1>1. /\ rpc.at = "verdict" /\ rpc.chal = c /\ chal[c].status = "pending"
      /\ chal' = [chal EXCEPT ![c].status = "failed"] /\ rpc' = [rpc EXCEPT !.at = "refund"]
      /\ passes' = passes /\ env' = env
      /\ stake \in IF miner[rpc.miner].stake = 2 THEN {1, 2} ELSE {miner[rpc.miner].stake}
  BY DEF VerdictFail, Deciding, Undecided
<1>2. PICK m \in Miners : m = rpc.miner
  BY <1>1, InHand DEF Resolving
<1>3. PICK j \in Jobs : j = rpc.job
  BY <1>1, InHand DEF Resolving
<1>4. /\ chal \in [Challenges -> Challenge] /\ rpc \in RpcRecord /\ chal[c] \in Challenge
      /\ miner \in [Miners -> MinerProfile] /\ job \in [Jobs -> ComputeJob]
      /\ miner[m] \in MinerProfile /\ job[j] \in ComputeJob
  BY DEF TypeInv, TypeOK
<1>5. /\ chal'[c].status = "failed" /\ chal'[c].job = chal[c].job /\ chal'[c].miner = chal[c].miner
      /\ \A d \in Challenges : d # c => chal'[d] = chal[d]
  BY <1>1, <1>4 DEF Challenge
<1>6. /\ rpc'.at = "refund" /\ rpc'.chal = c /\ rpc'.job = rpc.job /\ rpc'.miner = rpc.miner
      /\ rpc'.offences = rpc.offences /\ rpc'.stake = rpc.stake
  BY <1>1, <1>4 DEF RpcRecord
<1>7. miner[m].stake \in 0..2 /\ (stake > 0 => miner[m].stake > 0)
  BY <1>1, <1>2, <1>4 DEF MinerProfile
<1>8. CASE miner[m].known
  <2>1. /\ miner' = [miner EXCEPT ![m].stake = stake, ![m].offences = rpc.offences + 1]
        /\ job' = IF job[j].status = "absent" THEN job ELSE [job EXCEPT ![j].status = "faulted"]
    BY <1>2, <1>3, <1>8 DEF VerdictFail, Struck
  <2>2. \A n \in Miners : n # m => miner'[n] = miner[n]
    BY <1>4, <2>1
  <2>3. miner'[m] = [miner[m] EXCEPT !.stake = stake, !.offences = rpc.offences + 1]
    BY <1>4, <2>1
  <2>4. /\ miner'[m].known = miner[m].known /\ miner'[m].ban = miner[m].ban
        /\ miner'[m].stake = stake /\ miner'[m].offences = rpc.offences + 1
    BY <1>4, <2>3 DEF MinerProfile
  <2>5. \A k \in Jobs : k # j => job'[k] = job[k]
    BY <1>4, <2>1
  <2>6. job'[j] = job[j] \/ (job[j].status # "absent" /\ job'[j] = [job[j] EXCEPT !.status = "faulted"])
    BY <1>4, <2>1
  <2>7. /\ job'[j].status = "absent" <=> job[j].status = "absent"
        /\ job'[j].refund = job[j].refund /\ job'[j].accepts = job[j].accepts
        /\ job'[j].credits = job[j].credits
    BY <1>4, <2>6 DEF ComputeJob
  <2>8. \A n \in Miners :
              /\ n # rpc.miner => miner'[n] = miner[n]
              /\ miner'[n].known = miner[n].known /\ miner'[n].ban = miner[n].ban
              /\ miner'[n].stake > 0 => miner[n].stake > 0
    BY <1>2, <1>7, <2>2, <2>4
  <2>9. \A k \in Jobs :
              /\ job'[k].status = "absent" <=> job[k].status = "absent"
              /\ job'[k].refund = job[k].refund /\ job'[k].accepts = job[k].accepts
              /\ job'[k].credits = job[k].credits
    BY <2>5, <2>7
  <2>10. miner'[rpc.miner].offences = rpc.offences + 1
    BY <1>2, <2>4
  <2> QED BY <1>1, <1>5, <1>6, <2>8, <2>9, <2>10
<1>9. CASE ~miner[m].known
  <2>1. job' = job /\ miner' = miner
    BY <1>2, <1>9 DEF VerdictFail
  <2> QED BY <1>1, <1>2, <1>5, <1>6, <1>9, <2>1
<1> QED BY <1>8, <1>9

\* The rpc thread leaves a resolution only by its last callback.
LEMMA RpcMoves ==
  ASSUME TypeInv, [Next]_vars, ~Crash
  PROVE  \/ rpc' = rpc
         \/ ~Resolving' /\ (Lasting => BanFailure)
         \/ \E c \in Challenges : ReadChallenge(c)
         \/ \E c \in Challenges, stake \in 0..2 : VerdictFail(c, stake)
         \/ RefundFailure
<1>1. ASSUME NEW j \in Jobs, Submit(j) PROVE rpc'.at = "assign" /\ ~Lasting
  BY <1>1 DEF Submit, Idle, Lasting
<1>2. ASSUME NEW j \in Jobs, Assign(j) PROVE rpc'.at = "idle" /\ ~Lasting
  BY <1>2 DEF Assign, Idle, Lasting
<1>3. ASSUME NEW j \in Jobs, NEW m \in Miners, Accept(j, m) PROVE rpc'.at = "accept" /\ ~Lasting
  BY <1>3 DEF Accept, Returns, Idle, Lasting
<1>4. ASSUME NEW j \in Jobs, NEW m \in Miners, CreditAccepted(j, m) PROVE rpc'.at = "idle" /\ ~Lasting
  BY <1>4 DEF CreditAccepted, Idle, Lasting
<1>5. ASSUME NEW c \in Challenges, VerdictTooLate(c) PROVE rpc'.at = "idle" /\ ~Lasting
  BY <1>5 DEF VerdictTooLate, Deciding, Idle, Lasting
<1>6. ASSUME NEW c \in Challenges, VerdictPass(c, "passed") \/ VerdictPass(c, "expired")
      PROVE  rpc'.at = "idle" /\ ~Lasting
  BY <1>6 DEF VerdictPass, Deciding, Idle, Lasting
<1>7. BanFailure => rpc'.at = "idle"
  BY DEF BanFailure, Idle
<1>8. rpc'.at \in {"assign", "idle", "accept"} => ~Resolving'
  BY DEF Resolving
<1>9. ASSUME NEW m \in Miners, Draw(m) \/ Abandon(m) \/ BanEnds(m) PROVE rpc' = rpc
  BY <1>9 DEF Draw, Abandon, BanEnds
<1>10. ASSUME NEW j \in Jobs, NEW m \in Miners, Resume(j, m) \/ Reject(j, m) \/ SelfReportFailed(j, m)
       PROVE rpc' = rpc
  BY <1>10 DEF Resume, Reject, SelfReportFailed
<1>11. ASSUME NEW j \in Jobs, NEW m \in Miners, NEW c \in Challenges, IssueChallenge(j, m, c)
       PROVE rpc' = rpc
  BY <1>11 DEF IssueChallenge
<1>12. ASSUME NEW m \in Miners, NEW stake \in 0..2, RegisterMiner(m, stake) PROVE rpc' = rpc
  BY <1>12 DEF RegisterMiner
<1>13. ASSUME NEW c \in Challenges, WatchdogPass(c) \/ WindowCloses(c) PROVE rpc' = rpc
  BY <1>13 DEF WatchdogPass, WindowCloses
<1>14. WatchdogExpire \/ Save \/ UNCHANGED vars => rpc' = rpc
  BY DEF WatchdogExpire, Save, vars
<1> QED BY <1>1, <1>2, <1>3, <1>4, <1>5, <1>6, <1>7, <1>8, <1>9, <1>10, <1>11, <1>12, <1>13, <1>14, Cases

\* While nothing has crashed, no step was a crash; likewise for registrations.
LEMMA EnvMoves ==
  ASSUME TypeInv, [Next]_vars
  PROVE  /\ env'.crashes = 0 => env.crashes = 0 /\ ~Crash
         /\ env'.crashes + env'.registrations = 0 =>
              /\ env.crashes + env.registrations = 0 /\ env'.crashes = 0
              /\ \A m \in Miners, stake \in 0..2 : ~RegisterMiner(m, stake)
<1>1. env \in [saves: Nat, crashes: Nat, registrations: Nat]
  BY DEF TypeInv, TypeOK
<1>2. Crash => env'.crashes = env.crashes + 1 /\ env'.registrations = env.registrations
  BY <1>1 DEF Crash
<1>3. ASSUME NEW m \in Miners, NEW stake \in 0..2, RegisterMiner(m, stake)
      PROVE  env'.crashes = env.crashes /\ env'.registrations = env.registrations + 1
  BY <1>1, <1>3 DEF RegisterMiner
<1>4. Save => env'.crashes = env.crashes /\ env'.registrations = env.registrations
  BY <1>1 DEF Save
<1>5. ASSUME NEW j \in Jobs, Submit(j) \/ Assign(j) PROVE env' = env
  BY <1>5 DEF Submit, Assign
<1>6. ASSUME NEW m \in Miners, Draw(m) \/ Abandon(m) \/ BanEnds(m) PROVE env' = env
  BY <1>6 DEF Draw, Abandon, BanEnds
<1>7. ASSUME NEW j \in Jobs, NEW m \in Miners,
             Resume(j, m) \/ Reject(j, m) \/ Accept(j, m) \/ CreditAccepted(j, m) \/ SelfReportFailed(j, m)
      PROVE  env' = env
  BY <1>7 DEF Resume, Reject, Accept, CreditAccepted, SelfReportFailed
<1>8. ASSUME NEW j \in Jobs, NEW m \in Miners, NEW c \in Challenges, IssueChallenge(j, m, c)
      PROVE env' = env
  BY <1>8 DEF IssueChallenge
<1>9. ASSUME NEW c \in Challenges,
             ReadChallenge(c) \/ VerdictTooLate(c) \/ WatchdogPass(c) \/ WindowCloses(c)
      PROVE  env' = env
  BY <1>9 DEF ReadChallenge, VerdictTooLate, WatchdogPass, WindowCloses
<1>10. ASSUME NEW c \in Challenges, VerdictPass(c, "passed") \/ VerdictPass(c, "expired")
       PROVE  env' = env
  BY <1>10 DEF VerdictPass
<1>11. ASSUME NEW c \in Challenges, NEW stake \in 0..2, VerdictFail(c, stake) PROVE env' = env
  BY <1>11 DEF VerdictFail
<1>12. RefundFailure \/ BanFailure \/ WatchdogExpire \/ UNCHANGED vars => env' = env
  BY DEF RefundFailure, BanFailure, WatchdogExpire, vars
<1>13. \/ env' = env
       \/ env'.crashes = env.crashes /\ env'.registrations = env.registrations
       \/ Crash
       \/ \E m \in Miners, stake \in 0..2 : RegisterMiner(m, stake)
  BY <1>4, <1>5, <1>6, <1>7, <1>8, <1>9, <1>10, <1>11, <1>12, Cases
<1>14. env.crashes \in Nat /\ env.registrations \in Nat
  BY <1>1
<1>15. CASE Crash
  <2>1. env'.crashes # 0 /\ env'.crashes + env'.registrations # 0
    BY <1>2, <1>14, <1>15
  <2> QED BY <2>1
<1>16. CASE \E m \in Miners, stake \in 0..2 : RegisterMiner(m, stake)
  <2>1. env'.crashes = env.crashes /\ env'.registrations = env.registrations + 1
    BY <1>3, <1>16
  <2>2. env'.crashes + env'.registrations # 0
    BY <1>14, <2>1
  <2>3. env'.crashes = 0 => env.crashes = 0 /\ ~Crash
    <3>1. Crash => env.crashes + 1 = env.crashes
      BY <1>2, <2>1
    <3> QED BY <1>14, <2>1, <3>1
  <2> QED BY <2>2, <2>3
<1>17. CASE ~Crash /\ ~\E m \in Miners, stake \in 0..2 : RegisterMiner(m, stake)
  <2>1. env'.crashes = env.crashes /\ env'.registrations = env.registrations
    BY <1>13, <1>17
  <2>2. env'.crashes + env'.registrations = 0 => env'.crashes = 0
    BY <1>14, <2>1
  <2> QED BY <1>17, <2>1, <2>2
<1> QED BY <1>15, <1>16, <1>17

\* A job that is on the ledger stays there with its refund, and every payment
\* goes with an accept or with the callback of a pass.
LEMMA JobsKept ==
  ASSUME TypeInv, ChalInv, RpcInv, [Next]_vars, ~Crash, NEW j \in Jobs
  PROVE  /\ job[j].status # "absent" =>
              job'[j].status # "absent" /\ (job[j].refund => job'[j].refund)
         /\ \/ job'[j].credits = job[j].credits /\ job'[j].accepts = job[j].accepts
            \/ job'[j].credits = 0 /\ job'[j].accepts = 0
            \/ job'[j].credits = job[j].credits + 1 /\ job'[j].accepts = job[j].accepts + 1
            \/ /\ job'[j].credits = job[j].credits + 1 /\ job'[j].accepts = job[j].accepts
               /\ \E c \in Challenges :
                    /\ chal[c].job = j
                    /\ WatchdogPass(c) \/ VerdictPass(c, "passed") \/ VerdictPass(c, "expired")
<1>1. job \in [Jobs -> ComputeJob] /\ job[j] \in ComputeJob /\ TypeOK
  BY DEF TypeInv, TypeOK
<1>2. ASSUME NEW k \in Jobs, Submit(k)
      PROVE  /\ job[j].status # "absent" => job'[j] = job[j]
             /\ job'[j] = job[j] \/ (job'[j].credits = 0 /\ job'[j].accepts = 0)
  <2>1. job' = [job EXCEPT ![k] = NewJob("pending")] /\ job[k].status = "absent"
    BY <1>2 DEF Submit
  <2>2. NewJob("pending").credits = 0 /\ NewJob("pending").accepts = 0
    BY DEF NewJob
  <2> HIDE DEF NewJob
  <2> QED BY <1>1, <2>1, <2>2
<1>3. \A m \in Miners : \A k \in Jobs : job[k] \in ComputeJob =>
        /\ Assigned(k, m).status # "absent" /\ Assigned(k, m).refund = job[k].refund
        /\ Assigned(k, m).credits = job[k].credits /\ Assigned(k, m).accepts = job[k].accepts
  BY DEF Assigned, ComputeJob
<1>4. ASSUME NEW k \in Jobs, Assign(k)
      PROVE  job'[j] = job[j] \/ \E m \in Miners : job'[j] = Assigned(j, m)
  <2>1. (\E m \in Eligible : job' = [job EXCEPT ![k] = Assigned(k, m)]) \/ job' = job
    BY <1>4 DEF Assign
  <2>2. Eligible \subseteq Miners
    BY DEF Eligible
  <2> HIDE DEF Assigned
  <2> QED BY <1>1, <2>1, <2>2
<1>5. ASSUME NEW n \in Miners, Draw(n)
      PROVE  job'[j] = job[j] \/ \E m \in Miners : job'[j] = Assigned(j, m)
  <2>1. PICK drawn \in SUBSET Pending : \E to \in [drawn -> Eligible] :
          job' = [k \in Jobs |-> IF k \in drawn THEN Assigned(k, to[k]) ELSE job[k]]
    BY <1>5 DEF Draw
  <2>2. PICK to \in [drawn -> Eligible] :
          job' = [k \in Jobs |-> IF k \in drawn THEN Assigned(k, to[k]) ELSE job[k]]
    BY <2>1
  <2>3. \A k \in drawn : to[k] \in Miners
    BY <2>2 DEF Eligible
  <2> HIDE DEF Assigned
  <2> QED BY <1>1, <2>2, <2>3
<1>6. ASSUME NEW k \in Jobs, NEW m \in Miners, CreditAccepted(k, m)
      PROVE  \/ job'[j] = job[j]
             \/ /\ job'[j].status = "done" /\ job'[j].refund = job[j].refund
                /\ job'[j].credits = job[j].credits + 1 /\ job'[j].accepts = job[j].accepts + 1
  <2>1. job' = [job EXCEPT ![k].status = "done", ![k].accepts = @ + 1, ![k].credits = @ + 1]
    BY <1>6 DEF CreditAccepted
  <2>2. j # k => job'[j] = job[j]
    BY <1>1, <2>1
  <2>3. j = k => job'[j] = [job[j] EXCEPT !.status = "done", !.accepts = @ + 1, !.credits = @ + 1]
    BY <1>1, <2>1
  <2> QED BY <1>1, <2>2, <2>3 DEF ComputeJob
<1>7. ASSUME NEW k \in Jobs, NEW m \in Miners, SelfReportFailed(k, m)
      PROVE  \/ job'[j] = job[j]
             \/ /\ job'[j].status = "faulted" /\ job'[j].refund = job[j].refund
                /\ job'[j].credits = job[j].credits /\ job'[j].accepts = job[j].accepts
  <2>1. job' = job \/ job' = [job EXCEPT ![k].status = "faulted"]
    BY <1>7 DEF SelfReportFailed
  <2>2. job'[j] = job[j] \/ job'[j] = [job[j] EXCEPT !.status = "faulted"]
    BY <1>1, <2>1
  <2> QED BY <1>1, <2>2 DEF ComputeJob
<1>8. ASSUME RefundFailure
      PROVE  \/ job'[j] = job[j]
             \/ /\ job'[j].status = job[j].status /\ job'[j].refund
                /\ job'[j].credits = job[j].credits /\ job'[j].accepts = job[j].accepts
  <2>1. PICK k \in Jobs : k = rpc.job
    BY <1>8, InHand DEF RefundFailure, Resolving
  <2>2. job' = job \/ job' = [job EXCEPT ![k].refund = TRUE]
    BY <1>8, <2>1 DEF RefundFailure
  <2>3. job'[j] = job[j] \/ job'[j] = [job[j] EXCEPT !.refund = TRUE]
    BY <1>1, <2>2
  <2> QED BY <1>1, <2>3 DEF ComputeJob
<1>9. ASSUME NEW c \in Challenges, WatchdogPass(c)
      PROVE  /\ job'[j].status = "absent" <=> job[j].status = "absent"
             /\ job'[j].refund = job[j].refund /\ job'[j].accepts = job[j].accepts
             /\ \/ job'[j].credits = job[j].credits
                \/ chal[c].job = j /\ job'[j].credits = job[j].credits + 1
  <2>1. PICK k \in Jobs : k = chal[c].job
    BY <1>9 DEF WatchdogPass, ChalInv, Issued
  <2>2. PICK m \in Miners : m = chal[c].miner
    BY <1>9 DEF WatchdogPass, ChalInv, Issued
  <2>3. OnPass(k, m)
    BY <1>9, <2>1, <2>2 DEF WatchdogPass
  <2> QED BY <1>1, <2>1, <2>3, OnPassEffect
<1>10. ASSUME NEW c \in Challenges, VerdictPass(c, "passed") \/ VerdictPass(c, "expired")
      PROVE  /\ job'[j].status = "absent" <=> job[j].status = "absent"
             /\ job'[j].refund = job[j].refund /\ job'[j].accepts = job[j].accepts
             /\ \/ job'[j].credits = job[j].credits
                \/ chal[c].job = j /\ job'[j].credits = job[j].credits + 1
  <2>1. rpc.at = "verdict" /\ rpc.chal = c /\ OnPass(rpc.job, rpc.miner)
    BY <1>10 DEF VerdictPass, Deciding
  <2>2. PICK k \in Jobs : k = rpc.job
    BY <2>1, InHand DEF Resolving
  <2>3. PICK m \in Miners : m = rpc.miner
    BY <2>1, InHand DEF Resolving
  <2>4. OnPass(k, m) /\ chal[c].job = k
    BY <2>1, <2>2, <2>3 DEF RpcInv, Resolving
  <2> QED BY <1>1, <2>4, OnPassEffect
<1>11. ASSUME NEW m \in Miners, Abandon(m) \/ BanEnds(m) PROVE job' = job
  BY <1>11 DEF Abandon, BanEnds
<1>12. ASSUME NEW k \in Jobs, NEW m \in Miners, Resume(k, m) \/ Reject(k, m) \/ Accept(k, m)
       PROVE  job' = job
  BY <1>12 DEF Resume, Reject, Accept
<1>13. ASSUME NEW k \in Jobs, NEW m \in Miners, NEW c \in Challenges, IssueChallenge(k, m, c)
       PROVE  job' = job
  BY <1>13 DEF IssueChallenge
<1>14. ASSUME NEW m \in Miners, NEW stake \in 0..2, RegisterMiner(m, stake) PROVE job' = job
  BY <1>14 DEF RegisterMiner
<1>15. ASSUME NEW c \in Challenges, ReadChallenge(c) \/ VerdictTooLate(c) \/ WindowCloses(c)
       PROVE  job' = job
  BY <1>15 DEF ReadChallenge, VerdictTooLate, WindowCloses
<1>16. BanFailure \/ WatchdogExpire \/ Save \/ UNCHANGED vars => job' = job
  BY DEF BanFailure, WatchdogExpire, Save, vars
<1>17. job' = job =>
         /\ job[j].status # "absent" => job'[j].status # "absent" /\ (job[j].refund => job'[j].refund)
         /\ job'[j].credits = job[j].credits /\ job'[j].accepts = job[j].accepts
  OBVIOUS
<1>18. ASSUME NEW c \in Challenges, NEW stake \in 0..2, VerdictFail(c, stake)
       PROVE  /\ job'[j].status = "absent" <=> job[j].status = "absent"
              /\ job'[j].refund = job[j].refund /\ job'[j].accepts = job[j].accepts
              /\ job'[j].credits = job[j].credits
  BY <1>18, StruckEffect
<1> QED
  BY <1>1, <1>2, <1>3, <1>4, <1>5, <1>6, <1>7, <1>8, <1>9, <1>10, <1>11, <1>12, <1>13, <1>14, <1>15,
     <1>16, <1>17, <1>18, Cases

\* A challenge keeps its job and miner, a verdict stands, only the verdict of the
\* rpc thread is a failure, and what waits to be called back has expired.
Kept ==
  /\ \A c \in Issued :
       chal'[c].status # "unissued" /\ chal'[c].job = chal[c].job /\ chal'[c].miner = chal[c].miner
  /\ \A c \in Challenges : chal[c].status \in Decided => chal'[c] = chal[c]
Fails ==
  \A c \in Challenges :
    \/ chal'[c].status # "failed"
    \/ chal'[c] = chal[c]
    \/ \E stake \in 0..2 : VerdictFail(c, stake)
Passing ==
  \A c \in passes' :
    /\ c \in Challenges /\ chal'[c].status = "expired"
    /\ c \in passes \/ chal[c].status = "pending"
Fewer == \A c \in Challenges : chal'[c].status # "unissued" => chal[c].status # "unissued"

\* Every step but a crash keeps the challenges so.
LEMMA ChallengesKept ==
  ASSUME TypeInv, ChalInv, RpcInv, [Next]_vars, ~Crash
  PROVE  /\ Kept /\ Fails /\ Passing
         /\ Fewer \/ \E j \in Jobs, m \in Miners, c \in Challenges : IssueChallenge(j, m, c)
<1>1. /\ chal \in [Challenges -> Challenge] /\ passes \subseteq Challenges
      /\ \A c \in Challenges : chal[c] \in Challenge
      /\ \A c \in passes : chal[c].status = "expired"
      /\ \A c \in Issued : c \in Challenges
      /\ "pending" \notin Decided /\ "unissued" \notin Decided
  BY DEF TypeInv, TypeOK, ChalInv, Decided, Issued
<1>2. ASSUME chal' = chal, passes' \subseteq passes PROVE Kept /\ Fails /\ Passing /\ Fewer
  BY <1>1, <1>2 DEF Issued, Kept, Fails, Passing, Fewer
<1>3. ASSUME NEW j \in Jobs, NEW m \in Miners, NEW c \in Challenges, IssueChallenge(j, m, c)
      PROVE  Kept /\ Fails /\ Passing
  <2>1. /\ chal' = [chal EXCEPT ![c] = [status |-> "pending", job |-> j, miner |-> m]]
        /\ chal[c].status = "unissued" /\ passes' = passes
    BY <1>3 DEF IssueChallenge
  <2>2. chal'[c].status = "pending" /\ \A d \in Challenges : d # c => chal'[d] = chal[d]
    BY <1>1, <2>1
  <2> QED BY <1>1, <2>1, <2>2 DEF Issued, Kept, Fails, Passing, Fewer
<1>4. ASSUME NEW c \in Challenges, VerdictPass(c, "passed") \/ VerdictPass(c, "expired")
      PROVE  Kept /\ Fails /\ Passing /\ Fewer
  <2>1. PICK verdict \in {"passed", "expired"} :
           /\ chal' = [chal EXCEPT ![c].status = verdict] /\ chal[c].status = "pending" /\ passes' = passes
    BY <1>4 DEF VerdictPass, Undecided
  <2>2. \A d \in Challenges : d # c => chal'[d] = chal[d]
    BY <1>1, <2>1
  <2>3. chal'[c].status = verdict /\ chal'[c].job = chal[c].job /\ chal'[c].miner = chal[c].miner
    BY <1>1, <2>1 DEF Challenge
  <2> QED BY <1>1, <2>1, <2>2, <2>3 DEF Issued, Kept, Fails, Passing, Fewer
<1>5. ASSUME NEW c \in Challenges, NEW stake \in 0..2, VerdictFail(c, stake)
      PROVE  Kept /\ Fails /\ Passing /\ Fewer
  <2>1. /\ chal[c].status = "pending" /\ chal'[c].status = "failed"
        /\ chal'[c].job = chal[c].job /\ chal'[c].miner = chal[c].miner
        /\ \A d \in Challenges : d # c => chal'[d] = chal[d]
        /\ passes' = passes
    BY <1>5, StruckEffect
  <2> QED BY <1>1, <1>5, <2>1 DEF Issued, Kept, Fails, Passing, Fewer
<1>6. ASSUME WatchdogExpire PROVE Kept /\ Fails /\ Passing /\ Fewer
  <2>1. /\ \A c \in Challenges : c \notin StalePending => chal'[c] = chal[c]
        /\ \A c \in StalePending : chal'[c] = [chal[c] EXCEPT !.status = "expired"]
        /\ passes' = StalePending
        /\ \A c \in StalePending : c \in Challenges /\ chal[c].status = "pending"
    BY <1>6 DEF WatchdogExpire, StalePending
  <2>2. \A c \in StalePending :
          chal'[c].status = "expired" /\ chal'[c].job = chal[c].job /\ chal'[c].miner = chal[c].miner
    BY <1>1, <2>1 DEF Challenge
  <2> QED BY <1>1, <2>1, <2>2 DEF Issued, Kept, Fails, Passing, Fewer
<1>7. ASSUME NEW j \in Jobs, Submit(j) \/ Assign(j) PROVE chal' = chal /\ passes' = passes
  BY <1>7 DEF Submit, Assign
<1>8. ASSUME NEW m \in Miners, Draw(m) \/ Abandon(m) \/ BanEnds(m) PROVE chal' = chal /\ passes' = passes
  BY <1>8 DEF Draw, Abandon, BanEnds
<1>9. ASSUME NEW j \in Jobs, NEW m \in Miners,
             Resume(j, m) \/ Reject(j, m) \/ Accept(j, m) \/ CreditAccepted(j, m) \/ SelfReportFailed(j, m)
      PROVE  chal' = chal /\ passes' = passes
  BY <1>9 DEF Resume, Reject, Accept, CreditAccepted, SelfReportFailed
<1>10. ASSUME NEW m \in Miners, NEW stake \in 0..2, RegisterMiner(m, stake)
       PROVE  chal' = chal /\ passes' = passes
  BY <1>10 DEF RegisterMiner
<1>11. ASSUME NEW c \in Challenges,
              ReadChallenge(c) \/ VerdictTooLate(c) \/ WatchdogPass(c) \/ WindowCloses(c)
       PROVE  chal' = chal /\ passes' \subseteq passes
  BY <1>11 DEF ReadChallenge, VerdictTooLate, WatchdogPass, WindowCloses
<1>12. RefundFailure \/ BanFailure \/ Save \/ UNCHANGED vars => chal' = chal /\ passes' = passes
  BY DEF RefundFailure, BanFailure, Save, vars
<1>13. \/ Kept /\ Fails /\ Passing /\ Fewer
       \/ \E j \in Jobs, m \in Miners, c \in Challenges : IssueChallenge(j, m, c)
  <2> QED BY <1>2, <1>4, <1>5, <1>6, <1>7, <1>8, <1>9, <1>10, <1>11, <1>12, Cases
<1> QED BY <1>3, <1>13

\* Short of crashes and registrations, a miner is struck by verdicts only, and a
\* ban that was spoken is never taken back.
LEMMA MinersKept ==
  ASSUME TypeInv, ChalInv, RpcInv, [Next]_vars, ~Crash, NEW m \in Miners,
         \A n \in Miners, stake \in 0..2 : ~RegisterMiner(n, stake)
  PROVE  /\ miner'[m].known = miner[m].known
         /\ miner[m].ban # "never" => miner'[m].ban # "never"
         /\ \/ miner'[m].offences = miner[m].offences /\ miner'[m].stake = miner[m].stake
            \/ m = rpc.miner /\ \E c \in Challenges, stake \in 0..2 : VerdictFail(c, stake)
<1>1. miner \in [Miners -> MinerProfile] /\ miner[m] \in MinerProfile /\ TypeOK
  BY DEF TypeInv, TypeOK
<1>2. ~Crash /\ \A n \in Miners, stake \in 0..2 : ~RegisterMiner(n, stake)
  OBVIOUS
<1> DEFINE Same ==
  /\ miner'[m].known = miner[m].known /\ (miner[m].ban # "never" => miner'[m].ban # "never")
  /\ miner'[m].offences = miner[m].offences /\ miner'[m].stake = miner[m].stake
<1>3. ASSUME NEW k \in Jobs, NEW n \in Miners, CreditAccepted(k, n) PROVE Same
  <2>1. miner' = [miner EXCEPT ![n].completed = @ + 1]
    BY <1>3 DEF CreditAccepted
  <2>2. miner'[m] = miner[m] \/ miner'[m] = [miner[m] EXCEPT !.completed = @ + 1]
    BY <1>1, <2>1
  <2> QED BY <1>1, <2>2 DEF MinerProfile
<1>4. ASSUME NEW n \in Miners, BanEnds(n) PROVE Same
  <2>1. miner' = [miner EXCEPT ![n].ban = "over"]
    BY <1>4 DEF BanEnds
  <2>2. miner'[m] = miner[m] \/ miner'[m] = [miner[m] EXCEPT !.ban = "over"]
    BY <1>1, <2>1
  <2> QED BY <1>1, <2>2 DEF MinerProfile
<1>5. ASSUME BanFailure PROVE Same
  <2>1. PICK n \in Miners : n = rpc.miner
    BY <1>5, InHand DEF BanFailure, Resolving
  <2>2. miner' = miner \/ miner' = [miner EXCEPT ![n].ban = "now"]
    BY <1>5, <2>1 DEF BanFailure
  <2>3. miner'[m] = miner[m] \/ miner'[m] = [miner[m] EXCEPT !.ban = "now"]
    BY <1>1, <2>2
  <2> QED BY <1>1, <2>3 DEF MinerProfile
<1>6. ASSUME NEW c \in Challenges, WatchdogPass(c) PROVE Same
  <2>1. PICK k \in Jobs : k = chal[c].job
    BY <1>6 DEF WatchdogPass, ChalInv, Issued
  <2>2. PICK n \in Miners : n = chal[c].miner
    BY <1>6 DEF WatchdogPass, ChalInv, Issued
  <2>3. OnPass(k, n)
    BY <1>6, <2>1, <2>2 DEF WatchdogPass
  <2> QED BY <1>1, <2>3, OnPassEffect
<1>7. ASSUME NEW c \in Challenges, VerdictPass(c, "passed") \/ VerdictPass(c, "expired") PROVE Same
  <2>1. rpc.at = "verdict" /\ OnPass(rpc.job, rpc.miner)
    BY <1>7 DEF VerdictPass, Deciding
  <2>2. PICK k \in Jobs : k = rpc.job
    BY <2>1, InHand DEF Resolving
  <2>3. PICK n \in Miners : n = rpc.miner
    BY <2>1, InHand DEF Resolving
  <2>4. OnPass(k, n)
    BY <2>1, <2>2, <2>3
  <2> QED BY <1>1, <2>4, OnPassEffect
<1>8. ASSUME NEW c \in Challenges, NEW stake \in 0..2, VerdictFail(c, stake)
      PROVE  /\ miner'[m].known = miner[m].known /\ miner'[m].ban = miner[m].ban
             /\ m # rpc.miner => miner'[m] = miner[m]
  BY <1>8, StruckEffect
<1>9. ASSUME NEW j \in Jobs, Submit(j) \/ Assign(j) PROVE miner' = miner
  BY <1>9 DEF Submit, Assign
<1>10. ASSUME NEW n \in Miners, Draw(n) \/ Abandon(n) PROVE miner' = miner
  BY <1>10 DEF Draw, Abandon
<1>11. ASSUME NEW j \in Jobs, NEW n \in Miners,
              Resume(j, n) \/ Reject(j, n) \/ Accept(j, n) \/ SelfReportFailed(j, n)
       PROVE  miner' = miner
  BY <1>11 DEF Resume, Reject, Accept, SelfReportFailed
<1>12. ASSUME NEW j \in Jobs, NEW n \in Miners, NEW c \in Challenges, IssueChallenge(j, n, c)
       PROVE  miner' = miner
  BY <1>12 DEF IssueChallenge
<1>13. ASSUME NEW c \in Challenges, ReadChallenge(c) \/ VerdictTooLate(c) \/ WindowCloses(c)
       PROVE  miner' = miner
  BY <1>13 DEF ReadChallenge, VerdictTooLate, WindowCloses
<1>14. RefundFailure \/ WatchdogExpire \/ Save \/ UNCHANGED vars => miner' = miner
  BY DEF RefundFailure, WatchdogExpire, Save, vars
<1>15. miner' = miner => Same
  OBVIOUS
<1>16. Same \/ \E c \in Challenges, stake \in 0..2 : VerdictFail(c, stake)
  <2> HIDE DEF Same
  <2> QED
    BY <1>2, <1>3, <1>4, <1>5, <1>6, <1>7, <1>9, <1>10, <1>11, <1>12, <1>13, <1>14, <1>15, Cases
<1> QED BY <1>8, <1>16

\* A miner who is known stays known until a crash.
LEMMA KnownKept ==
  ASSUME TypeInv, ChalInv, RpcInv, [Next]_vars, ~Crash, NEW m \in Miners, miner[m].known
  PROVE  miner'[m].known
<1>1. miner \in [Miners -> MinerProfile] /\ miner[m] \in MinerProfile
  BY DEF TypeInv, TypeOK
<1>2. ASSUME NEW n \in Miners, NEW stake \in 0..2, RegisterMiner(n, stake) PROVE miner'[m].known
  <2>1. miner' = [miner EXCEPT ![n] = Fresh(TRUE, stake)]
    BY <1>2 DEF RegisterMiner
  <2>2. Fresh(TRUE, stake).known
    BY DEF Fresh
  <2> HIDE DEF Fresh
  <2> QED BY <1>1, <2>1, <2>2
<1>3. CASE \A n \in Miners, stake \in 0..2 : ~RegisterMiner(n, stake)
  BY <1>3, MinersKept
<1> QED BY <1>2, <1>3

----------------------------------------------------------------------------
(* The parts of the invariant, step by step *)

\* Challenges name what is on the ledger: one more is issued at a time, a crash
\* drops them all, and a pass in waiting has expired.
LEMMA StepChalInv ==
  ASSUME TypeInv, ChalInv, RpcInv, [Next]_vars
  PROVE  ChalInv'
<1>1. CASE Crash
  <2>1. /\ \A c \in Challenges : chal'[c].status = "unissued"
        /\ passes' = {} /\ env'.crashes # 0
    <3>1. env'.crashes # 0
      BY <1>1, EnvMoves
    <3> QED BY <1>1, <3>1 DEF Crash, Unissued
  <2>2. Issued' = {}
    BY <2>1 DEF Issued
  <2> QED BY <2>1, <2>2, FS_EmptySet DEF ChalInv
<1>2. CASE ~Crash
  <2>1. IsFiniteSet(Issued) /\ \A c \in Issued : c \in Challenges /\ chal[c].status # "unissued"
    BY DEF ChalInv, Issued
  <2>2. CASE \A c \in Challenges : chal'[c].status # "unissued" => chal[c].status # "unissued"
    <3>1. \A c \in Issued' : c \in Issued
      BY <2>2 DEF Issued
    <3>2. IsFiniteSet(Issued')
      BY <2>1, <3>1, FS_Subset
    <3>3. \A c \in Issued' : chal'[c].job = chal[c].job /\ chal'[c].miner = chal[c].miner
      BY <1>2, <3>1, ChallengesKept DEF Kept, Fails, Passing, Fewer
    <3>4. \A c \in Issued' : chal'[c].job \in Jobs /\ chal'[c].miner \in Miners
      BY <3>1, <3>3 DEF ChalInv
    <3>5. \A c \in passes' : chal'[c].status = "expired"
      BY <1>2, ChallengesKept DEF Kept, Fails, Passing, Fewer
    <3>6. ASSUME env'.crashes = 0, NEW c \in Issued'
          PROVE  job'[chal'[c].job].status # "absent" /\ miner'[chal'[c].miner].known
      <4>1. PICK j \in Jobs : j = chal[c].job /\ j = chal'[c].job
        BY <3>1, <3>3, <3>4, <3>6
      <4>2. PICK m \in Miners : m = chal[c].miner /\ m = chal'[c].miner
        BY <3>1, <3>3, <3>4, <3>6
      <4>3. env.crashes = 0
        BY <3>6, EnvMoves
      <4>4. job[j].status # "absent" /\ miner[m].known
        BY <3>1, <3>6, <4>1, <4>2, <4>3 DEF ChalInv
      <4>5. job'[j].status # "absent"
        BY <1>2, <4>4, JobsKept
      <4>6. miner'[m].known
        BY <1>2, <4>4, KnownKept
      <4> QED BY <4>1, <4>2, <4>5, <4>6
    <3> QED BY <3>2, <3>4, <3>5, <3>6 DEF ChalInv
  <2>3. CASE \E j \in Jobs, m \in Miners, c \in Challenges : IssueChallenge(j, m, c)
    <3>1. PICK j \in Jobs, m \in Miners, c \in Challenges : IssueChallenge(j, m, c)
      BY <2>3
    <3>2. /\ chal' = [chal EXCEPT ![c] = [status |-> "pending", job |-> j, miner |-> m]]
          /\ chal[c].status = "unissued" /\ job' = job /\ miner' = miner /\ env' = env
          /\ job[j].status # "absent" /\ miner[m].known
      BY <3>1 DEF IssueChallenge, Admits
    <3>3. chal \in [Challenges -> Challenge]
      BY DEF TypeInv, TypeOK
    <3>4. /\ chal'[c].status = "pending" /\ chal'[c].job = j /\ chal'[c].miner = m
          /\ \A d \in Challenges : d # c => chal'[d] = chal[d]
      BY <3>2, <3>3
    <3>5. Issued' = Issued \cup {c}
      BY <3>2, <3>4 DEF Issued
    <3>6. IsFiniteSet(Issued')
      BY <2>1, <3>5, FS_AddElement
    <3>7. \A d \in passes' : chal'[d].status = "expired"
      BY <1>2, ChallengesKept DEF Kept, Fails, Passing, Fewer
    <3>8. \A d \in Issued' : d = c \/ (d \in Issued /\ d # c /\ chal'[d] = chal[d])
      BY <2>1, <3>4, <3>5
    <3>9. \A d \in Issued' : chal'[d].job \in Jobs /\ chal'[d].miner \in Miners
      BY <3>4, <3>8 DEF ChalInv
    <3>10. env'.crashes = 0 =>
             \A d \in Issued' : job'[chal'[d].job].status # "absent" /\ miner'[chal'[d].miner].known
      BY <3>2, <3>4, <3>8 DEF ChalInv
    <3> QED BY <3>6, <3>7, <3>9, <3>10 DEF ChalInv
  <2> QED BY <1>2, <2>2, <2>3, ChallengesKept DEF Kept, Fails, Passing, Fewer
<1> QED BY <1>1, <1>2

\* What the rpc thread read is still so, because it alone strikes miners and
\* decides against them.
LEMMA StepRpcInv ==
  ASSUME TypeInv, ChalInv, RpcInv, ChalInv', [Next]_vars
  PROVE  RpcInv'
<1>1. CASE Crash
  BY <1>1, EnvMoves DEF Crash, Idle, RpcInv, Resolving, Lasting
<1>2. CASE ~Crash
  <2>1. \A c \in Issued : /\ c \in Issued' /\ chal'[c].job = chal[c].job /\ chal'[c].miner = chal[c].miner
                          /\ chal[c].status = "failed" => chal'[c].status = "failed"
    BY <1>2, ChallengesKept DEF Issued, Decided, Kept
  <2>2. CASE ~Resolving'
    BY <2>2 DEF RpcInv, Resolving, Lasting
  <2>3. CASE \E c \in Challenges : ReadChallenge(c)
    <3>1. PICK c \in Challenges : ReadChallenge(c)
      BY <2>3
    <3>2. /\ chal[c].status = "pending" /\ chal' = chal /\ miner' = miner
          /\ rpc' = [at |-> "verdict", job |-> chal[c].job, miner |-> chal[c].miner, chal |-> c,
                     offences |-> miner[chal[c].miner].offences, stake |-> miner[chal[c].miner].stake]
      BY <3>1 DEF ReadChallenge
    <3>3. /\ rpc'.at = "verdict" /\ rpc'.chal = c /\ rpc'.job = chal'[c].job /\ rpc'.miner = chal'[c].miner
          /\ rpc'.offences = miner'[rpc'.miner].offences /\ rpc'.stake = miner'[rpc'.miner].stake
          /\ c \in Issued'
      BY <3>2 DEF Issued
    <3> QED BY <3>3 DEF RpcInv, Lasting
  <2>4. CASE \E c \in Challenges, stake \in 0..2 : VerdictFail(c, stake)
    <3>1. PICK c \in Challenges, stake \in 0..2 : VerdictFail(c, stake)
      BY <2>4
    <3>2. /\ rpc.at = "verdict" /\ rpc.chal = c /\ chal'[c].status = "failed"
          /\ rpc'.at = "refund" /\ rpc'.chal = c /\ rpc'.job = rpc.job /\ rpc'.miner = rpc.miner
          /\ rpc'.offences = rpc.offences /\ rpc'.stake = rpc.stake /\ env' = env
          /\ miner[rpc.miner].known => miner'[rpc.miner].offences = rpc.offences + 1
          /\ \A m \in Miners : miner'[m].stake > 0 => miner[m].stake > 0
      BY <3>1, StruckEffect
    <3>3. /\ c \in Issued /\ rpc.job = chal[c].job /\ rpc.miner = chal[c].miner /\ rpc.miner \in Miners
      BY <3>2, InHand DEF Resolving, RpcInv
    <3>4. /\ rpc'.chal \in Issued' /\ rpc'.job = chal'[c].job /\ rpc'.miner = chal'[c].miner
      BY <2>1, <3>2, <3>3
    <3>5. ASSUME env'.crashes + env'.registrations = 0
          PROVE  /\ rpc'.offences + 1 = miner'[rpc'.miner].offences
                 /\ miner'[rpc'.miner].stake > 0 => rpc'.stake > 0
      <4>1. env.crashes = 0 /\ env.crashes + env.registrations = 0
        BY <3>5, EnvMoves
      <4>2. miner[rpc.miner].known
        BY <3>3, <4>1 DEF ChalInv
      <4>3. rpc.stake = miner[rpc.miner].stake
        BY <3>2, <4>1 DEF RpcInv
      <4> QED BY <3>2, <3>3, <4>2, <4>3
    <3> QED BY <3>2, <3>4, <3>5 DEF RpcInv
  <2>5. CASE RefundFailure
    <3>1. rpc.at = "refund" /\ rpc' = [rpc EXCEPT !.at = "ban"] /\ miner' = miner /\ chal' = chal /\ env' = env
      BY <2>5 DEF RefundFailure
    <3>2. rpc \in RpcRecord
      BY DEF TypeInv, TypeOK
    <3>3. /\ rpc'.at = "ban" /\ rpc'.chal = rpc.chal /\ rpc'.job = rpc.job /\ rpc'.miner = rpc.miner
          /\ rpc'.offences = rpc.offences
      BY <3>1, <3>2 DEF RpcRecord
    <3>4. Issued' = Issued
      BY <3>1 DEF Issued
    <3> QED BY <3>1, <3>3, <3>4 DEF RpcInv, Resolving, Lasting
  <2>6. CASE rpc' = rpc
    <3>1. \A c \in Challenges, stake \in 0..2 : ~VerdictFail(c, stake)
      BY <2>6, StruckEffect
    <3>2. Resolving' = Resolving /\ Lasting' = Lasting
      BY <2>6 DEF Resolving, Lasting
    <3>3. ASSUME Resolving
          PROVE  /\ rpc'.chal \in Issued' /\ rpc'.job = chal'[rpc'.chal].job
                 /\ rpc'.miner = chal'[rpc'.chal].miner
      <4>1. PICK c \in Issued : c = rpc.chal
        BY <3>3 DEF RpcInv
      <4> QED BY <2>1, <2>6, <3>3, <4>1 DEF RpcInv
    <3>4. ASSUME Lasting PROVE chal'[rpc'.chal].status = "failed"
      <4>1. PICK c \in Issued : c = rpc.chal
        BY <3>4 DEF RpcInv, Resolving, Lasting
      <4> QED BY <2>1, <2>6, <3>4, <4>1 DEF RpcInv
    <3>5. ASSUME Resolving, env'.crashes + env'.registrations = 0
          PROVE  /\ miner'[rpc.miner].offences = miner[rpc.miner].offences
                 /\ miner'[rpc.miner].stake = miner[rpc.miner].stake
      <4>1. PICK m \in Miners : m = rpc.miner
        BY <3>5, InHand
      <4> QED BY <1>2, <3>1, <3>5, <4>1, EnvMoves, MinersKept
    <3>6. env'.crashes + env'.registrations = 0 => env.crashes + env.registrations = 0
      BY EnvMoves
    <3>7. env'.crashes + env'.registrations = 0 =>
            /\ rpc'.at = "verdict" => /\ rpc'.offences = miner'[rpc'.miner].offences
                                      /\ rpc'.stake = miner'[rpc'.miner].stake
            /\ Lasting' => rpc'.offences + 1 = miner'[rpc'.miner].offences
            /\ rpc'.at = "refund" /\ miner'[rpc'.miner].stake > 0 => rpc'.stake > 0
      BY <2>6, <3>2, <3>5, <3>6 DEF RpcInv, Resolving, Lasting
    <3> QED BY <3>2, <3>3, <3>4, <3>7 DEF RpcInv
  <2> QED BY <1>2, <2>2, <2>3, <2>4, <2>5, <2>6, RpcMoves
<1> QED BY <1>1, <1>2

\* Offences are counted with the verdicts, and a ban follows the second.
LEMMA StepOffenceInv ==
  ASSUME TypeInv, ChalInv, RpcInv, OffenceInv, ChalInv', [Next]_vars
  PROVE  OffenceInv'
<1> SUFFICES ASSUME env'.crashes + env'.registrations = 0, NEW m \in Miners
             PROVE  /\ miner'[m].known => miner'[m].offences = Cardinality(Failures(m)')
                    /\ Cardinality(Failures(m)') >= 2 =>
                         miner'[m].ban # "never" \/ (Lasting' /\ rpc'.miner = m)
  BY DEF OffenceInv
<1>1. /\ env.crashes + env.registrations = 0 /\ env.crashes = 0 /\ ~Crash
      /\ \A n \in Miners, stake \in 0..2 : ~RegisterMiner(n, stake)
  BY EnvMoves
<1>2. /\ miner[m].known => miner[m].offences = Cardinality(Failures(m))
      /\ Cardinality(Failures(m)) >= 2 => miner[m].ban # "never" \/ (Lasting /\ rpc.miner = m)
  BY <1>1 DEF OffenceInv
<1>3. /\ miner'[m].known = miner[m].known
      /\ miner[m].ban # "never" => miner'[m].ban # "never"
      /\ \/ miner'[m].offences = miner[m].offences /\ miner'[m].stake = miner[m].stake
         \/ m = rpc.miner /\ \E c \in Challenges, stake \in 0..2 : VerdictFail(c, stake)
  BY <1>1, MinersKept
<1>4. IsFiniteSet(Failures(m)) /\ Cardinality(Failures(m)) \in Nat
  <2>1. \A c \in Failures(m) : c \in Issued
    BY DEF Failures, Issued
  <2>2. IsFiniteSet(Failures(m))
    BY <2>1, FS_Subset DEF ChalInv
  <2> QED BY <2>2, FS_CardinalityType
<1>5. CASE \E c \in Challenges, stake \in 0..2 : VerdictFail(c, stake)
  <2>1. PICK c \in Challenges, stake \in 0..2 : VerdictFail(c, stake)
    BY <1>5
  <2>2. /\ rpc.at = "verdict" /\ rpc.chal = c /\ chal[c].status = "pending"
        /\ chal'[c].status = "failed" /\ chal'[c].miner = chal[c].miner
        /\ \A d \in Challenges : d # c => chal'[d] = chal[d]
        /\ rpc'.at = "refund" /\ rpc'.miner = rpc.miner
        /\ m # rpc.miner => miner'[m] = miner[m]
        /\ miner[rpc.miner].known => miner'[rpc.miner].offences = rpc.offences + 1
    BY <2>1, StruckEffect
  <2>3. chal[c].miner = rpc.miner
    BY <2>2 DEF RpcInv, Resolving
  <2>4. CASE m = rpc.miner
    <3>1. Failures(m)' = Failures(m) \cup {c} /\ c \notin Failures(m)
      BY <2>2, <2>3, <2>4 DEF Failures
    <3>2. Cardinality(Failures(m)') = Cardinality(Failures(m)) + 1
      BY <1>4, <3>1, FS_AddElement
    <3>3. miner[m].known => rpc.offences = miner[m].offences
      BY <1>1, <2>2, <2>4 DEF RpcInv
    <3>4. Lasting' /\ rpc'.miner = m
      BY <2>2, <2>4 DEF Lasting
    <3> QED BY <1>2, <1>3, <2>2, <2>4, <3>2, <3>3, <3>4
  <2>5. CASE m # rpc.miner
    <3>1. Failures(m)' = Failures(m)
      <4>1. \A d \in Challenges :
              (chal'[d].status = "failed" /\ chal'[d].miner = m) <=> (chal[d].status = "failed" /\ chal[d].miner = m)
        BY <2>2, <2>3, <2>5
      <4> QED BY <4>1 DEF Failures
    <3> QED BY <1>2, <2>2, <2>5, <3>1
  <2> QED BY <2>4, <2>5
<1>6. CASE \A c \in Challenges, stake \in 0..2 : ~VerdictFail(c, stake)
  <2>1. \A c \in Challenges : chal'[c].status = "failed" \/ chal[c].status = "failed" => chal'[c] = chal[c]
    <3>1. \A c \in Challenges : chal'[c].status = "failed" => chal'[c] = chal[c]
      BY <1>1, <1>6, ChallengesKept DEF Fails
    <3>2. \A c \in Challenges : chal[c].status = "failed" => chal'[c] = chal[c]
      BY <1>1, ChallengesKept DEF Kept, Decided
    <3> QED BY <3>1, <3>2
  <2>2. Failures(m)' = Failures(m)
    <3>1. ASSUME NEW c \in Challenges
          PROVE  (chal'[c].status = "failed" /\ chal'[c].miner = m) <=> (chal[c].status = "failed" /\ chal[c].miner = m)
      <4>1. CASE chal'[c] = chal[c]
        BY <4>1
      <4>2. CASE chal'[c].status # "failed" /\ chal[c].status # "failed"
        BY <4>2
      <4> QED BY <2>1, <4>1, <4>2
    <3> QED BY <3>1 DEF Failures
  <2>3. miner'[m].known => miner'[m].offences = Cardinality(Failures(m)')
    BY <1>2, <1>3, <1>6, <2>2
  <2>4. CASE BanFailure /\ rpc.miner = m
    <3>1. rpc.at = "ban" /\ rpc.chal \in Issued /\ rpc.miner = chal[rpc.chal].miner
      BY <2>4 DEF BanFailure, RpcInv, Resolving
    <3>2. miner[m].known
      BY <1>1, <2>4, <3>1 DEF ChalInv
    <3>3. rpc.offences + 1 = Cardinality(Failures(m))
      BY <1>1, <1>2, <2>4, <3>1, <3>2 DEF RpcInv, Lasting
    <3>4. ASSUME Cardinality(Failures(m)) >= 2 PROVE miner'[m].ban = "now"
      <4>1. BanDue
        BY <3>3, <3>4 DEF BanDue
      <4>2. miner' = [miner EXCEPT ![m].ban = "now"]
        BY <2>4, <3>2, <4>1 DEF BanFailure
      <4>3. miner \in [Miners -> MinerProfile] /\ miner[m] \in MinerProfile
        BY DEF TypeInv, TypeOK
      <4>4. miner'[m] = [miner[m] EXCEPT !.ban = "now"]
        BY <4>2, <4>3
      <4> QED BY <4>3, <4>4 DEF MinerProfile
    <3> QED BY <2>2, <2>3, <3>4
  <2>5. CASE ~(BanFailure /\ rpc.miner = m)
    <3>1. Lasting /\ rpc.miner = m => Lasting' /\ rpc'.miner = m
      <4>1. ASSUME Lasting, rpc.miner = m PROVE rpc' = rpc \/ RefundFailure
        <5>1. rpc.at \in {"refund", "ban"} /\ ~BanFailure
          BY <2>5, <4>1 DEF Lasting
        <5>2. \A c \in Challenges : ~ReadChallenge(c)
          BY <5>1 DEF ReadChallenge
        <5> QED BY <1>1, <1>6, <4>1, <5>1, <5>2, RpcMoves
      <4>2. RefundFailure => rpc'.at = "ban" /\ rpc'.miner = rpc.miner
        <5>1. rpc \in RpcRecord
          BY DEF TypeInv, TypeOK
        <5> QED BY <5>1 DEF RefundFailure, RpcRecord
      <4> QED BY <4>1, <4>2 DEF Lasting
    <3> QED BY <1>2, <1>3, <2>2, <2>3, <3>1
  <2> QED BY <2>4, <2>5
<1> QED BY <1>5, <1>6

\* Every payment goes with an acceptance of its own.
LEMMA StepPayInv ==
  ASSUME TypeInv, TypeInv', ChalInv, RpcInv, PayInv, ChalInv', [Next]_vars
  PROVE  PayInv'
<1> SUFFICES ASSUME env'.crashes = 0, NEW j \in Jobs
             PROVE  job'[j].credits <= job'[j].accepts + Cardinality((Passed(j) \ passes)')
  BY DEF PayInv
<1>1. env.crashes = 0 /\ ~Crash
  BY EnvMoves
<1> DEFINE D == Passed(j) \ passes
<1> DEFINE E == (Passed(j) \ passes)'
<1>2. job[j].credits <= job[j].accepts + Cardinality(D)
  BY <1>1 DEF PayInv
<1>3. /\ job[j].credits \in Nat /\ job[j].accepts \in Nat /\ job'[j].credits \in Nat /\ job'[j].accepts \in Nat
  <2>1. job[j] \in ComputeJob /\ job'[j] \in ComputeJob
    BY DEF TypeInv, TypeOK
  <2> QED BY <2>1 DEF ComputeJob
<1>4. \A c : c \in D <=> /\ c \in Challenges /\ chal[c].status \in {"passed", "expired"}
                         /\ chal[c].job = j /\ c \notin passes
  BY DEF Passed
<1>5. \A c : c \in E <=> /\ c \in Challenges /\ chal'[c].status \in {"passed", "expired"}
                         /\ chal'[c].job = j /\ c \notin passes'
  BY DEF Passed
<1>6. IsFiniteSet(D) /\ IsFiniteSet(E)
  <2>1. \A c \in D : c \in Issued
    BY <1>4 DEF Issued
  <2>2. \A c \in E : c \in Issued'
    BY <1>5 DEF Issued
  <2> HIDE DEF D, E
  <2>3. IsFiniteSet(Issued) /\ IsFiniteSet(Issued')
    BY DEF ChalInv
  <2> QED BY <2>1, <2>2, <2>3, FS_Subset
<1>7. \A c \in D : c \in E
  <2>1. \A c \in D : chal'[c] = chal[c] /\ c \notin passes'
    BY <1>1, <1>4, ChallengesKept DEF Kept, Passing, Decided
  <2> QED BY <1>4, <1>5, <2>1
<1> HIDE DEF D, E
<1>8. Cardinality(D) \in Nat /\ Cardinality(E) \in Nat /\ Cardinality(D) <= Cardinality(E)
  BY <1>6, <1>7, FS_CardinalityType, FS_Subset
<1>9. ASSUME NEW c \in Challenges, chal[c].job = j,
             WatchdogPass(c) \/ VerdictPass(c, "passed") \/ VerdictPass(c, "expired")
      PROVE  Cardinality(D) + 1 <= Cardinality(E)
  <2>1. c \notin D /\ c \in E
    <3>1. CASE WatchdogPass(c)
      <4>1. c \in passes /\ chal' = chal /\ passes' = passes \ {c}
        BY <3>1 DEF WatchdogPass
      <4>2. chal[c].status = "expired"
        BY <4>1 DEF ChalInv
      <4> QED BY <1>4, <1>5, <1>9, <4>1, <4>2
    <3>2. CASE VerdictPass(c, "passed") \/ VerdictPass(c, "expired")
      <4>1. PICK verdict \in {"passed", "expired"} :
              /\ chal' = [chal EXCEPT ![c].status = verdict] /\ chal[c].status = "pending" /\ passes' = passes
        BY <3>2 DEF VerdictPass, Undecided
      <4>2. chal \in [Challenges -> Challenge] /\ chal[c] \in Challenge
        BY DEF TypeInv, TypeOK
      <4>3. chal'[c].status = verdict /\ chal'[c].job = chal[c].job
        BY <4>1, <4>2 DEF Challenge
      <4>4. c \notin passes
        BY <4>1 DEF ChalInv
      <4> QED BY <1>4, <1>5, <1>9, <4>1, <4>3, <4>4
    <3> QED BY <1>9, <3>1, <3>2
  <2>2. Cardinality(D \cup {c}) = Cardinality(D) + 1 /\ IsFiniteSet(D \cup {c})
    BY <1>6, <2>1, FS_AddElement
  <2>3. \A d \in D \cup {c} : d \in E
    BY <1>7, <2>1
  <2>4. Cardinality(D \cup {c}) <= Cardinality(E)
    BY <1>6, <2>3, FS_Subset
  <2> QED BY <2>2, <2>4
<1>10. \/ job'[j].credits = job[j].credits /\ job'[j].accepts = job[j].accepts
       \/ job'[j].credits = 0 /\ job'[j].accepts = 0
       \/ job'[j].credits = job[j].credits + 1 /\ job'[j].accepts = job[j].accepts + 1
       \/ /\ job'[j].credits = job[j].credits + 1 /\ job'[j].accepts = job[j].accepts
          /\ Cardinality(D) + 1 <= Cardinality(E)
  BY <1>1, <1>9, JobsKept
<1>11. job'[j].credits <= job'[j].accepts + Cardinality(E)
  BY <1>2, <1>3, <1>8, <1>10
<1> QED BY <1>11 DEF E

\* A refund is owed by the rpc thread from the verdict to the callback, and stays.
LEMMA StepRefundInv ==
  ASSUME TypeInv, ChalInv, RpcInv, RefundInv, [Next]_vars
  PROVE  RefundInv'
<1> SUFFICES ASSUME env'.crashes + env'.registrations = 0, NEW c \in Challenges,
                    chal'[c].status = "failed", miner'[chal'[c].miner].stake > 0
             PROVE  job'[chal'[c].job].refund \/ (rpc'.at = "refund" /\ rpc'.chal = c)
  BY DEF RefundInv
<1>1. /\ env.crashes + env.registrations = 0 /\ env.crashes = 0 /\ ~Crash
      /\ \A n \in Miners, stake \in 0..2 : ~RegisterMiner(n, stake)
  BY EnvMoves
<1>2. CASE chal'[c] = chal[c]
  <2>1. c \in Issued /\ chal[c].status = "failed"
    BY <1>2 DEF Issued
  <2>2. PICK m \in Miners : m = chal[c].miner
    BY <2>1 DEF ChalInv
  <2>3. PICK j \in Jobs : j = chal[c].job
    BY <2>1 DEF ChalInv
  <2>4. miner[m].stake > 0
    <3>1. CASE \E d \in Challenges, stake \in 0..2 : VerdictFail(d, stake)
      BY <1>2, <2>2, <3>1, StruckEffect
    <3>2. CASE ~\E d \in Challenges, stake \in 0..2 : VerdictFail(d, stake)
      BY <1>1, <1>2, <2>2, <3>2, MinersKept
    <3> QED BY <3>1, <3>2
  <2>5. job[j].refund \/ (rpc.at = "refund" /\ rpc.chal = c)
    BY <1>1, <2>1, <2>2, <2>3, <2>4 DEF RefundInv
  <2>6. job[j].status # "absent"
    BY <1>1, <2>1, <2>3 DEF ChalInv
  <2>7. job[j].refund => job'[j].refund
    BY <1>1, <2>6, JobsKept
  <2>8. ASSUME rpc.at = "refund", rpc.chal = c
        PROVE  job'[j].refund \/ (rpc'.at = "refund" /\ rpc'.chal = c)
    <3>1. ~BanFailure /\ \A d \in Challenges : ~ReadChallenge(d)
      BY <2>8 DEF BanFailure, ReadChallenge
    <3>2. \A d \in Challenges, stake \in 0..2 : ~VerdictFail(d, stake)
      BY <2>8, StruckEffect
    <3>3. rpc' = rpc \/ RefundFailure
      BY <1>1, <2>8, <3>1, <3>2, RpcMoves DEF Lasting
    <3>4. ASSUME RefundFailure PROVE job'[j].refund
      <4>1. rpc.job = j /\ rpc.miner = m
        BY <2>2, <2>3, <2>8 DEF RpcInv, Resolving
      <4>2. rpc.stake > 0
        BY <1>1, <2>4, <2>8, <4>1 DEF RpcInv
      <4>3. job' = [job EXCEPT ![j].refund = TRUE]
        BY <2>6, <3>4, <4>1, <4>2 DEF RefundFailure, RefundDue
      <4>4. job \in [Jobs -> ComputeJob] /\ job[j] \in ComputeJob
        BY DEF TypeInv, TypeOK
      <4>5. job'[j] = [job[j] EXCEPT !.refund = TRUE]
        BY <4>3, <4>4
      <4> QED BY <4>4, <4>5 DEF ComputeJob
    <3> QED BY <2>8, <3>3, <3>4
  <2> QED BY <1>2, <2>3, <2>5, <2>7, <2>8
<1>3. CASE \E stake \in 0..2 : VerdictFail(c, stake)
  BY <1>3, StruckEffect
<1> QED BY <1>1, <1>2, <1>3, ChallengesKept DEF Fails

\* Every step keeps the whole invariant.
LEMMA StepIInv == IInv /\ [Next]_vars => IInv'
<1> SUFFICES ASSUME IInv, [Next]_vars PROVE IInv'
  OBVIOUS
<1>1. TypeInv'
  BY StepTypeInv DEF IInv
<1>2. ChalInv'
  BY StepChalInv DEF IInv
<1>3. RpcInv'
  BY <1>2, StepRpcInv DEF IInv
<1>4. OffenceInv'
  BY <1>2, StepOffenceInv DEF IInv
<1>5. PayInv'
  BY <1>1, <1>2, StepPayInv DEF IInv
<1>6. RefundInv'
  BY StepRefundInv DEF IInv
<1> QED BY <1>1, <1>2, <1>3, <1>4, <1>5, <1>6 DEF IInv
----------------------------------------------------------------------------
(***************************************************************************)
(* The fates of the jobs.  In every life of the node a challenge names a   *)
(* job and a miner that are there; what the rpc thread is about to assign  *)
(* is still pending and unchallenged, what it is about to credit is there, *)
(* and what it is about to refund has been settled.                        *)
(***************************************************************************)
FateInv ==
  /\ \A c \in Issued : job[chal[c].job].status # "absent" /\ miner[chal[c].miner].known
  /\ rpc.at = "assign" =>
       /\ rpc.job \in Jobs /\ job[rpc.job].status = "pending"
       /\ \A c \in Issued : chal[c].job # rpc.job
  /\ rpc.at = "accept" => rpc.job \in Jobs /\ job[rpc.job].status # "absent"
  /\ rpc.at = "refund" => job[rpc.job].status \in {"done", "faulted"}

\* What becomes of a job's record in one step: one job that is submitted, settled
\* or refunded, or any number of jobs that are handed out.
Same(k, l) == FateOf(l) = FateOf(k)
Settles(k, l) ==
  \/ k.status = "absent" /\ l = NewJob("pending")
  \/ /\ k.status # "absent" /\ l.status \in {"done", "faulted"}
     /\ l.refund = k.refund \/ l.refund
Moved == \E j \in Jobs : Settles(job[j], job'[j]) /\ \A i \in Jobs \ {j} : job'[i] = job[i]
Still ==
  /\ \A j \in Jobs : Same(job[j], job'[j])
  /\ \A j \in Jobs : job'[j] = job[j] \/ (rpc.at \in {"idle", "assign"} /\ job[j].status = "pending")

\* A job moves as JobFates allows.
LEMMA MovedIsFate ==
  ASSUME NEW k \in ComputeJob, NEW l \in ComputeJob, Settles(k, l)
  PROVE  FateOf(l) \in Ledger!Fates(FateOf(k))
<1>1. CASE k.status = "absent" /\ l = NewJob("pending")
  BY <1>1 DEF FateOf, NewJob, Ledger!Fates
<1>2. CASE /\ k.status # "absent" /\ l.status \in {"done", "faulted"}
           /\ l.refund = k.refund \/ l.refund
  <2> DEFINE f == FateOf(k)
             g == FateOf(l)
  <2>1. /\ k.status \in {"pending", "assigned", "done", "faulted"} /\ k.refund \in BOOLEAN
        /\ l.refund \in BOOLEAN
    BY <1>2 DEF ComputeJob
  <2>2. /\ f.status \in {"open", "done", "faulted"} /\ f.owed = k.refund
        /\ g.status = l.status /\ g.owed = l.refund
    BY <1>2, <2>1 DEF FateOf
  <2>3. g \in Ledger!Fate
    BY <1>2, <2>1 DEF FateOf, Ledger!Fate
  <2> HIDE DEF f, g
  <2>4. f.status # "lost" /\ Ledger!Follows(f.status, g.status)
    BY <1>2, <2>2 DEF Ledger!Follows
  <2>5. g.owed = f.owed \/ (g.owed /\ g.status # "open")
    BY <1>2, <2>1, <2>2
  <2>6. g \in Ledger!Fates(f)
    BY <2>3, <2>4, <2>5 DEF Ledger!Fates
  <2> QED BY <2>6 DEF f, g
<1> QED BY <1>1, <1>2 DEF Settles

\* Calling back a pass settles the one job it is for.
LEMMA OnPassMoves ==
  ASSUME TypeOK, NEW j \in Jobs, NEW m \in Miners, OnPass(j, m)
  PROVE  job' = job \/ Moved
<1>1. CASE PassDue(j, m)
  <2>1. job' = [job EXCEPT ![j].status = "done", ![j].credits = @ + 1] /\ job[j].status # "absent"
    BY <1>1 DEF OnPass, PassDue
  <2>2. job \in [Jobs -> ComputeJob] /\ job[j] \in ComputeJob
    BY DEF TypeOK
  <2>3. \A k \in Jobs \ {j} : job'[k] = job[k]
    BY <2>1, <2>2
  <2>4. job'[j] = [job[j] EXCEPT !.status = "done", !.credits = @ + 1]
    BY <2>1, <2>2
  <2>5. job'[j].status = "done" /\ job'[j].refund = job[j].refund
    BY <2>2, <2>4 DEF ComputeJob
  <2> QED BY <2>1, <2>3, <2>5 DEF Moved, Settles
<1>2. CASE ~PassDue(j, m)
  BY <1>2 DEF OnPass
<1> QED BY <1>1, <1>2

\* A failed verdict faults the one job it is about.
LEMMA FailMoves ==
  ASSUME TypeInv, ChalInv, RpcInv, FateInv, NEW c \in Challenges, NEW stake \in 0..2, VerdictFail(c, stake)
  PROVE  /\ Moved
         /\ rpc'.at = "refund" /\ job'[rpc'.job].status = "faulted"
<1>1. rpc.at = "verdict" /\ rpc'.at = "refund" /\ rpc'.job = rpc.job /\ rpc.chal \in Issued
  BY StruckEffect, InHand DEF Resolving
<1>2. rpc.job = chal[rpc.chal].job /\ rpc.miner = chal[rpc.chal].miner
  BY <1>1 DEF RpcInv, Resolving
<1>3. PICK j \in Jobs : j = rpc.job
  BY <1>1, InHand DEF Resolving
<1>4. job[j].status # "absent" /\ miner[rpc.miner].known
  BY <1>1, <1>2, <1>3 DEF FateInv
<1>5. job' = [job EXCEPT ![j].status = "faulted"]
  BY <1>3, <1>4 DEF VerdictFail
<1>6. job \in [Jobs -> ComputeJob] /\ job[j] \in ComputeJob
  BY DEF TypeInv, TypeOK
<1>7. job'[j] = [job[j] EXCEPT !.status = "faulted"] /\ \A k \in Jobs \ {j} : job'[k] = job[k]
  BY <1>5, <1>6
<1>8. job'[j].status = "faulted" /\ job'[j].refund = job[j].refund
  BY <1>6, <1>7 DEF ComputeJob
<1> QED BY <1>1, <1>3, <1>4, <1>7, <1>8 DEF Moved, Settles

\* Handing a job out leaves its fate open.
LEMMA AssignedSame ==
  ASSUME NEW j \in Jobs, NEW m \in Miners, job[j] \in ComputeJob, job[j].status = "pending"
  PROVE  Same(job[j], Assigned(j, m))
BY DEF Same, Assigned, FateOf, ComputeJob

\* Every step of the node but a crash.
LEMMA Moves ==
  ASSUME TypeInv, ChalInv, RpcInv, FateInv, [Next]_vars, ~Crash
  PROVE  Still \/ Moved
<1>1. job \in [Jobs -> ComputeJob] /\ TypeOK /\ \A j \in Jobs : job[j] \in ComputeJob
  BY DEF TypeInv, TypeOK
<1>2. job' = job => Still
  BY DEF Still, Same
<1>3. ASSUME NEW j \in Jobs, Submit(j) PROVE Moved
  <2>1. job' = [job EXCEPT ![j] = NewJob("pending")] /\ job[j].status = "absent"
    BY <1>3 DEF Submit
  <2> HIDE DEF NewJob
  <2> QED BY <1>1, <2>1 DEF Moved, Settles
<1>4. ASSUME NEW j \in Jobs, Assign(j) PROVE Still
  <2>1. (\E m \in Eligible : job' = [job EXCEPT ![j] = Assigned(j, m)]) \/ job' = job
    BY <1>4 DEF Assign
  <2>2. rpc.at = "assign" /\ job[j].status = "pending"
    BY <1>4 DEF Assign, FateInv
  <2>3. ASSUME NEW m \in Eligible, job' = [job EXCEPT ![j] = Assigned(j, m)] PROVE Still
    <3>1. Same(job[j], Assigned(j, m))
      BY <1>1, <2>2, AssignedSame DEF Eligible
    <3> HIDE DEF Assigned
    <3>2. job'[j] = Assigned(j, m) /\ \A k \in Jobs \ {j} : job'[k] = job[k]
      BY <1>1, <2>3
    <3> QED BY <2>2, <3>1, <3>2 DEF Still, Same
  <2> QED BY <1>2, <2>1, <2>3
<1>5. ASSUME NEW n \in Miners, Draw(n) PROVE Still
  <2>1. PICK drawn \in SUBSET Pending : \E to \in [drawn -> Eligible] :
          job' = [k \in Jobs |-> IF k \in drawn THEN Assigned(k, to[k]) ELSE job[k]]
    BY <1>5 DEF Draw
  <2>2. PICK to \in [drawn -> Eligible] :
          job' = [k \in Jobs |-> IF k \in drawn THEN Assigned(k, to[k]) ELSE job[k]]
    BY <2>1
  <2>3. \A k \in drawn : to[k] \in Miners /\ k \in Jobs /\ job[k].status = "pending"
    BY <2>1, <2>2 DEF Eligible, Pending
  <2>4. rpc.at = "idle"
    BY <1>5 DEF Draw
  <2>5. \A k \in drawn : Same(job[k], Assigned(k, to[k]))
    BY <1>1, <2>3, AssignedSame
  <2> HIDE DEF Assigned
  <2>6. \A k \in Jobs : IF k \in drawn THEN job'[k] = Assigned(k, to[k]) ELSE job'[k] = job[k]
    BY <2>2
  <2> QED BY <2>3, <2>4, <2>5, <2>6 DEF Still, Same
<1>6. ASSUME NEW j \in Jobs, NEW m \in Miners, CreditAccepted(j, m) PROVE Moved
  <2>1. /\ job' = [job EXCEPT ![j].status = "done", ![j].accepts = @ + 1, ![j].credits = @ + 1]
        /\ job[j].status # "absent"
    BY <1>6 DEF CreditAccepted, FateInv
  <2>2. job'[j] = [job[j] EXCEPT !.status = "done", !.accepts = @ + 1, !.credits = @ + 1]
    BY <1>1, <2>1
  <2>3. job'[j].status = "done" /\ job'[j].refund = job[j].refund
    BY <1>1, <2>2 DEF ComputeJob
  <2>4. \A k \in Jobs \ {j} : job'[k] = job[k]
    BY <1>1, <2>1
  <2> QED BY <2>1, <2>3, <2>4 DEF Moved, Settles
<1>7. ASSUME NEW j \in Jobs, NEW m \in Miners, SelfReportFailed(j, m) PROVE job' = job \/ Moved
  <2>1. job' = job \/ (job[j].status # "absent" /\ job' = [job EXCEPT ![j].status = "faulted"])
    BY <1>7 DEF SelfReportFailed
  <2>2. ASSUME job[j].status # "absent", job' = [job EXCEPT ![j].status = "faulted"] PROVE Moved
    <3>1. job'[j] = [job[j] EXCEPT !.status = "faulted"] /\ \A k \in Jobs \ {j} : job'[k] = job[k]
      BY <1>1, <2>2
    <3>2. job'[j].status = "faulted" /\ job'[j].refund = job[j].refund
      BY <1>1, <3>1 DEF ComputeJob
    <3> QED BY <2>2, <3>1, <3>2 DEF Moved, Settles
  <2> QED BY <2>1, <2>2
<1>8. ASSUME RefundFailure PROVE job' = job \/ Moved
  <2>1. PICK j \in Jobs : j = rpc.job
    BY <1>8, InHand DEF RefundFailure, Resolving
  <2>2. job[j].status \in {"done", "faulted"}
    BY <1>8, <2>1 DEF RefundFailure, FateInv
  <2>3. job' = job \/ job' = [job EXCEPT ![j].refund = TRUE]
    BY <1>8, <2>1 DEF RefundFailure
  <2>4. ASSUME job' = [job EXCEPT ![j].refund = TRUE] PROVE Moved
    <3>1. job'[j] = [job[j] EXCEPT !.refund = TRUE] /\ \A k \in Jobs \ {j} : job'[k] = job[k]
      BY <1>1, <2>4
    <3>2. job'[j].status = job[j].status /\ job'[j].refund
      BY <1>1, <3>1 DEF ComputeJob
    <3> QED BY <2>2, <3>1, <3>2 DEF Moved, Settles
  <2> QED BY <2>3, <2>4
<1>9. ASSUME NEW c \in Challenges, WatchdogPass(c) PROVE job' = job \/ Moved
  <2>1. PICK j \in Jobs : j = chal[c].job
    BY <1>9 DEF WatchdogPass, ChalInv, Issued
  <2>2. PICK m \in Miners : m = chal[c].miner
    BY <1>9 DEF WatchdogPass, ChalInv, Issued
  <2>3. OnPass(j, m)
    BY <1>9, <2>1, <2>2 DEF WatchdogPass
  <2> QED BY <1>1, <2>3, OnPassMoves
<1>10. ASSUME NEW c \in Challenges, VerdictPass(c, "passed") \/ VerdictPass(c, "expired")
       PROVE  job' = job \/ Moved
  <2>1. rpc.at = "verdict" /\ OnPass(rpc.job, rpc.miner)
    BY <1>10 DEF VerdictPass, Deciding
  <2>2. PICK j \in Jobs : j = rpc.job
    BY <2>1, InHand DEF Resolving
  <2>3. PICK m \in Miners : m = rpc.miner
    BY <2>1, InHand DEF Resolving
  <2>4. OnPass(j, m)
    BY <2>1, <2>2, <2>3
  <2> QED BY <1>1, <2>4, OnPassMoves
<1>11. ASSUME NEW c \in Challenges, NEW stake \in 0..2, VerdictFail(c, stake) PROVE Moved
  BY <1>11, FailMoves
<1>12. ASSUME NEW m \in Miners, Abandon(m) \/ BanEnds(m) PROVE job' = job
  BY <1>12 DEF Abandon, BanEnds
<1>13. ASSUME NEW k \in Jobs, NEW m \in Miners, Resume(k, m) \/ Reject(k, m) \/ Accept(k, m)
       PROVE  job' = job
  BY <1>13 DEF Resume, Reject, Accept
<1>14. ASSUME NEW k \in Jobs, NEW m \in Miners, NEW c \in Challenges, IssueChallenge(k, m, c)
       PROVE  job' = job
  BY <1>14 DEF IssueChallenge
<1>15. ASSUME NEW m \in Miners, NEW stake \in 0..2, RegisterMiner(m, stake) PROVE job' = job
  BY <1>15 DEF RegisterMiner
<1>16. ASSUME NEW c \in Challenges, ReadChallenge(c) \/ VerdictTooLate(c) \/ WindowCloses(c)
       PROVE  job' = job
  BY <1>16 DEF ReadChallenge, VerdictTooLate, WindowCloses
<1>17. BanFailure \/ WatchdogExpire \/ Save \/ UNCHANGED vars => job' = job
  BY DEF BanFailure, WatchdogExpire, Save, vars
<1> HIDE DEF Moved, Still
<1> QED BY <1>2, <1>3, <1>4, <1>5, <1>6, <1>7, <1>8, <1>9, <1>10, <1>11, <1>12, <1>13, <1>14, <1>15,
           <1>16, <1>17, Cases


\* A job that is settled stays so until a crash.
LEMMA SettledKept ==
  ASSUME TypeInv, ChalInv, RpcInv, FateInv, [Next]_vars, ~Crash, NEW j \in Jobs,
         job[j].status \in {"done", "faulted"}
  PROVE  job'[j].status \in {"done", "faulted"}
<1>1. CASE Still
  BY <1>1 DEF Still
<1>2. CASE Moved
  BY <1>2 DEF Moved, Settles
<1> QED BY <1>1, <1>2, Moves

\* How the rpc thread comes to assign, to credit and to refund a job.
LEMMA RpcStarts ==
  ASSUME TypeInv, [Next]_vars, ~Crash
  PROVE  \/ rpc' = rpc
         \/ rpc'.at \in {"idle", "verdict", "ban"}
         \/ \E j \in Jobs : Submit(j)
         \/ \E j \in Jobs, m \in Miners : Accept(j, m)
         \/ \E c \in Challenges, stake \in 0..2 : VerdictFail(c, stake)
<1>1. rpc \in RpcRecord
  BY DEF TypeInv, TypeOK
<1>2. ASSUME NEW j \in Jobs, Assign(j) \/ \E m \in Miners : CreditAccepted(j, m) PROVE rpc'.at = "idle"
  BY <1>2 DEF Assign, CreditAccepted, Idle
<1>3. ASSUME NEW c \in Challenges,
             VerdictTooLate(c) \/ VerdictPass(c, "passed") \/ VerdictPass(c, "expired")
      PROVE  rpc'.at = "idle"
  BY <1>3 DEF VerdictTooLate, VerdictPass, Idle
<1>4. ASSUME NEW c \in Challenges, ReadChallenge(c) PROVE rpc'.at = "verdict"
  BY <1>4 DEF ReadChallenge
<1>5. RefundFailure => rpc'.at = "ban"
  BY <1>1 DEF RefundFailure, RpcRecord
<1>6. BanFailure => rpc'.at = "idle"
  BY DEF BanFailure, Idle
<1>7. ASSUME NEW m \in Miners, Draw(m) \/ Abandon(m) \/ BanEnds(m) PROVE rpc' = rpc
  BY <1>7 DEF Draw, Abandon, BanEnds
<1>8. ASSUME NEW j \in Jobs, NEW m \in Miners, Resume(j, m) \/ Reject(j, m) \/ SelfReportFailed(j, m)
      PROVE rpc' = rpc
  BY <1>8 DEF Resume, Reject, SelfReportFailed
<1>9. ASSUME NEW j \in Jobs, NEW m \in Miners, NEW c \in Challenges, IssueChallenge(j, m, c)
      PROVE rpc' = rpc
  BY <1>9 DEF IssueChallenge
<1>10. ASSUME NEW m \in Miners, NEW stake \in 0..2, RegisterMiner(m, stake) PROVE rpc' = rpc
  BY <1>10 DEF RegisterMiner
<1>11. ASSUME NEW c \in Challenges, WatchdogPass(c) \/ WindowCloses(c) PROVE rpc' = rpc
  BY <1>11 DEF WatchdogPass, WindowCloses
<1>12. WatchdogExpire \/ Save \/ UNCHANGED vars => rpc' = rpc
  BY DEF WatchdogExpire, Save, vars
<1> QED BY <1>2, <1>3, <1>4, <1>5, <1>6, <1>7, <1>8, <1>9, <1>10, <1>11, <1>12, Cases

\* What the rpc thread is about to assign is left alone: no challenge names it,
\* and whoever else would touch it has to wait for the rpc thread.
LEMMA AssignAlone ==
  ASSUME TypeInv, ChalInv, RpcInv, FateInv, [Next]_vars, ~Crash, rpc.at = "assign", rpc' = rpc
  PROVE  /\ job'[rpc.job] = job[rpc.job]
         /\ \A j \in Jobs, m \in Miners, c \in Challenges : ~IssueChallenge(j, m, c)
<1>1. PICK j \in Jobs : j = rpc.job
  BY DEF FateInv
<1>2. /\ \A k \in Jobs : ~Submit(k) /\ ~Assign(k)
      /\ \A k \in Jobs, m \in Miners :
           ~Accept(k, m) /\ ~CreditAccepted(k, m) /\ ~SelfReportFailed(k, m)
      /\ \A m \in Miners : ~Draw(m)
      /\ \A c \in Challenges, stake \in 0..2 : ~VerdictFail(c, stake)
      /\ \A c \in Challenges : ~VerdictPass(c, "passed") /\ ~VerdictPass(c, "expired")
      /\ ~RefundFailure
  BY DEF Submit, Assign, Accept, CreditAccepted, SelfReportFailed, Returns, Draw, VerdictFail,
         VerdictPass, Deciding, RefundFailure, Idle
<1>3. \A k \in Jobs, m \in Miners, c \in Challenges : ~IssueChallenge(k, m, c)
  BY DEF IssueChallenge, Returns
<1>4. ASSUME NEW c \in Challenges, WatchdogPass(c) PROVE job'[j] = job[j]
  <2>1. c \in Issued /\ OnPass(chal[c].job, chal[c].miner)
    BY <1>4 DEF WatchdogPass, ChalInv, Issued
  <2>2. PICK k \in Jobs : k = chal[c].job /\ k # j
    BY <1>1, <2>1 DEF ChalInv, FateInv
  <2>3. job' = job \/ job' = [job EXCEPT ![k].status = "done", ![k].credits = @ + 1]
    BY <2>1, <2>2 DEF OnPass
  <2>4. job \in [Jobs -> ComputeJob]
    BY DEF TypeInv, TypeOK
  <2> QED BY <2>2, <2>3, <2>4
<1>5. ASSUME NEW m \in Miners, Abandon(m) \/ BanEnds(m) PROVE job' = job
  BY <1>5 DEF Abandon, BanEnds
<1>6. ASSUME NEW k \in Jobs, NEW m \in Miners, Resume(k, m) \/ Reject(k, m) PROVE job' = job
  BY <1>6 DEF Resume, Reject
<1>7. ASSUME NEW m \in Miners, NEW stake \in 0..2, RegisterMiner(m, stake) PROVE job' = job
  BY <1>7 DEF RegisterMiner
<1>8. ASSUME NEW c \in Challenges, ReadChallenge(c) \/ VerdictTooLate(c) \/ WindowCloses(c)
      PROVE  job' = job
  BY <1>8 DEF ReadChallenge, VerdictTooLate, WindowCloses
<1>9. BanFailure \/ WatchdogExpire \/ Save \/ UNCHANGED vars => job' = job
  BY DEF BanFailure, WatchdogExpire, Save, vars
<1>10. job' = job \/ job'[j] = job[j]
  BY <1>2, <1>3, <1>4, <1>5, <1>6, <1>7, <1>8, <1>9, Cases
<1> QED BY <1>1, <1>3, <1>10

\* A challenge that stood before a step stands for the same job and miner after
\* it; a new one names a job and a miner that are there.
LEMMA IssuedKept ==
  ASSUME TypeInv, ChalInv, RpcInv, FateInv, [Next]_vars, ~Crash, NEW c \in Issued'
  PROVE  \/ c \in Issued /\ chal'[c].job = chal[c].job /\ chal'[c].miner = chal[c].miner
         \/ \E j \in Jobs, m \in Miners :
              /\ IssueChallenge(j, m, c)
              /\ chal'[c].job = j /\ chal'[c].miner = m
<1>1. c \in Challenges /\ chal'[c].status # "unissued"
  BY DEF Issued
<1>2. CASE c \in Issued
  BY <1>2, ChallengesKept DEF Kept
<1>3. CASE c \notin Issued
  <2>1. ~Fewer
    BY <1>1, <1>3 DEF Fewer, Issued
  <2>2. PICK j \in Jobs, m \in Miners, d \in Challenges : IssueChallenge(j, m, d)
    BY <2>1, ChallengesKept
  <2>3. chal' = [chal EXCEPT ![d] = [status |-> "pending", job |-> j, miner |-> m]]
    BY <2>2 DEF IssueChallenge
  <2>4. chal \in [Challenges -> Challenge]
    BY DEF TypeInv, TypeOK
  <2>5. c = d
    BY <1>1, <1>3, <2>3, <2>4 DEF Issued
  <2>6. chal'[c].job = j /\ chal'[c].miner = m
    BY <2>3, <2>4, <2>5
  <2> QED BY <2>2, <2>5, <2>6
<1> QED BY <1>2, <1>3

\* Every step keeps what the fates rest on.
LEMMA StepFateInv ==
  ASSUME TypeInv, ChalInv, RpcInv, FateInv, [Next]_vars
  PROVE  FateInv'
<1>1. CASE Crash
  <2>1. rpc'.at = "idle" /\ \A c \in Challenges : chal'[c].status = "unissued"
    BY <1>1 DEF Crash, Idle, Unissued
  <2>2. Issued' = {}
    BY <2>1 DEF Issued
  <2> QED BY <2>1, <2>2 DEF FateInv
<1>2. CASE ~Crash
  <2>1. ASSUME NEW c \in Issued'
        PROVE  job'[chal'[c].job].status # "absent" /\ miner'[chal'[c].miner].known
    <3>1. CASE c \in Issued /\ chal'[c].job = chal[c].job /\ chal'[c].miner = chal[c].miner
      <4>1. PICK j \in Jobs : j = chal[c].job
        BY <3>1 DEF ChalInv
      <4>2. PICK m \in Miners : m = chal[c].miner
        BY <3>1 DEF ChalInv
      <4>3. job[j].status # "absent" /\ miner[m].known
        BY <3>1, <4>1, <4>2 DEF FateInv
      <4> QED BY <1>2, <3>1, <4>1, <4>2, <4>3, JobsKept, KnownKept
    <3>2. ASSUME NEW j \in Jobs, NEW m \in Miners, IssueChallenge(j, m, c),
                 chal'[c].job = j, chal'[c].miner = m
          PROVE  job'[j].status # "absent" /\ miner'[m].known
      BY <3>2 DEF IssueChallenge, Admits
    <3> QED BY <1>2, <3>1, <3>2, IssuedKept
  <2>2. ASSUME rpc' = rpc
        PROVE  /\ rpc'.at = "assign" =>
                    /\ rpc'.job \in Jobs /\ job'[rpc'.job].status = "pending"
                    /\ \A c \in Issued' : chal'[c].job # rpc'.job
               /\ rpc'.at = "accept" => rpc'.job \in Jobs /\ job'[rpc'.job].status # "absent"
               /\ rpc'.at = "refund" => job'[rpc'.job].status \in {"done", "faulted"}
    <3>1. CASE rpc.at = "assign"
      <4>1. /\ job'[rpc.job] = job[rpc.job]
            /\ \A j \in Jobs, m \in Miners, c \in Challenges : ~IssueChallenge(j, m, c)
        BY <1>2, <2>2, <3>1, AssignAlone
      <4>2. \A c \in Issued' : c \in Challenges
        BY DEF Issued
      <4>3. \A c \in Issued' : c \in Issued /\ chal'[c].job = chal[c].job
        BY <1>2, <4>1, <4>2, IssuedKept
      <4> QED BY <2>2, <3>1, <4>1, <4>3 DEF FateInv
    <3>2. CASE rpc.at = "accept"
      <4>1. PICK j \in Jobs : j = rpc.job /\ job[j].status # "absent"
        BY <3>2 DEF FateInv
      <4>2. job'[j].status # "absent"
        BY <1>2, <4>1, JobsKept
      <4> QED BY <2>2, <3>2, <4>1, <4>2
    <3>3. CASE rpc.at = "refund"
      <4>1. PICK j \in Jobs : j = rpc.job /\ job[j].status \in {"done", "faulted"}
        BY <3>3, InHand DEF FateInv, Resolving
      <4>2. job'[j].status \in {"done", "faulted"}
        BY <1>2, <4>1, SettledKept
      <4> QED BY <2>2, <3>3, <4>1, <4>2
    <3> QED BY <2>2, <3>1, <3>2, <3>3
  <2>3. ASSUME NEW j \in Jobs, Submit(j)
        PROVE  /\ rpc'.at = "assign" /\ rpc'.job = j /\ job'[j].status = "pending"
               /\ \A c \in Issued' : chal'[c].job # j
    <3>1. /\ job' = [job EXCEPT ![j] = NewJob("pending")] /\ job[j].status = "absent" /\ chal' = chal
          /\ rpc'.at = "assign" /\ rpc'.job = j
      BY <2>3 DEF Submit, Idle
    <3>2. job \in [Jobs -> ComputeJob] /\ NewJob("pending").status = "pending"
      BY DEF TypeInv, TypeOK, NewJob
    <3>3. Issued' = Issued
      BY <3>1 DEF Issued
    <3> HIDE DEF NewJob
    <3> QED BY <3>1, <3>2, <3>3 DEF FateInv
  <2>4. ASSUME NEW j \in Jobs, NEW m \in Miners, Accept(j, m)
        PROVE  rpc'.at = "accept" /\ rpc'.job = j /\ job'[j].status # "absent"
    BY <2>4 DEF Accept, Admits, Idle
  <2>5. ASSUME NEW c \in Challenges, NEW stake \in 0..2, VerdictFail(c, stake)
        PROVE  rpc'.at = "refund" /\ job'[rpc'.job].status = "faulted"
    BY <2>5, FailMoves
  <2>6. /\ rpc'.at = "assign" =>
             /\ rpc'.job \in Jobs /\ job'[rpc'.job].status = "pending"
             /\ \A c \in Issued' : chal'[c].job # rpc'.job
        /\ rpc'.at = "accept" => rpc'.job \in Jobs /\ job'[rpc'.job].status # "absent"
        /\ rpc'.at = "refund" => job'[rpc'.job].status \in {"done", "faulted"}
    BY <1>2, <2>2, <2>3, <2>4, <2>5, RpcStarts
  <2> QED BY <2>1, <2>6 DEF FateInv
<1> QED BY <1>1, <1>2

\* The fates of an empty ledger.
LEMMA EmptyFates == \A j \in Jobs : FateOf(Empty.job[j]) = Ledger!Lost
  BY DEF Empty, NewJob, FateOf, Ledger!Lost

\* Only a save and a crash write to disk.
LEMMA DiskKept ==
  ASSUME [Next]_vars, ~Crash
  PROVE  disk' = disk \/ (disk'.job = job /\ job' = job)
<1>1. ASSUME NEW j \in Jobs, Submit(j) \/ Assign(j) PROVE disk' = disk
  BY <1>1 DEF Submit, Assign
<1>2. ASSUME NEW m \in Miners, Draw(m) \/ Abandon(m) \/ BanEnds(m) PROVE disk' = disk
  BY <1>2 DEF Draw, Abandon, BanEnds
<1>3. ASSUME NEW j \in Jobs, NEW m \in Miners,
             Resume(j, m) \/ Reject(j, m) \/ Accept(j, m) \/ CreditAccepted(j, m) \/ SelfReportFailed(j, m)
      PROVE  disk' = disk
  BY <1>3 DEF Resume, Reject, Accept, CreditAccepted, SelfReportFailed
<1>4. ASSUME NEW j \in Jobs, NEW m \in Miners, NEW c \in Challenges, IssueChallenge(j, m, c)
      PROVE  disk' = disk
  BY <1>4 DEF IssueChallenge
<1>5. ASSUME NEW m \in Miners, NEW stake \in 0..2, RegisterMiner(m, stake) PROVE disk' = disk
  BY <1>5 DEF RegisterMiner
<1>6. ASSUME NEW c \in Challenges,
             ReadChallenge(c) \/ VerdictTooLate(c) \/ WatchdogPass(c) \/ WindowCloses(c)
      PROVE  disk' = disk
  BY <1>6 DEF ReadChallenge, VerdictTooLate, WatchdogPass, WindowCloses
<1>7. ASSUME NEW c \in Challenges, VerdictPass(c, "passed") \/ VerdictPass(c, "expired")
      PROVE  disk' = disk
  BY <1>7 DEF VerdictPass
<1>8. ASSUME NEW c \in Challenges, NEW stake \in 0..2, VerdictFail(c, stake) PROVE disk' = disk
  BY <1>8 DEF VerdictFail
<1>9. RefundFailure \/ BanFailure \/ WatchdogExpire \/ UNCHANGED vars => disk' = disk
  BY DEF RefundFailure, BanFailure, WatchdogExpire, vars
<1>10. Save => disk'.job = job /\ job' = job
  BY DEF Save
<1> QED BY <1>1, <1>2, <1>3, <1>4, <1>5, <1>6, <1>7, <1>8, <1>9, <1>10, Cases
----------------------------------------------------------------------------
(* Theorems *)

\* The invariant holds of every behaviour.
THEOREM Inductive == Spec => []IInv
BY InitIInv, StepIInv, PTL DEF Spec

\* Types: every variable keeps its shape, and an assigned job names its assignee,
\* whatever the ledger on disk was when the node crashed.
THEOREM TypeCorrect == Spec => []TypeOK
<1>1. IInv => TypeOK
  BY DEF IInv, TypeInv
<1> QED BY <1>1, Inductive, PTL

\* Resolutions: whoever decides a challenge first decides it for good, although
\* resolve_job_challenge reads it before the verification lock is taken.
THEOREM VerdictsFinal == Spec => DecidedOnce
<1>1. IInv /\ [Next]_vars =>
        [\A c \in Challenges : chal[c].status \in Decided =>
           chal'[c] = chal[c] \/ env'.crashes > env.crashes]_vars
  <2> SUFFICES ASSUME IInv, [Next]_vars, NEW c \in Challenges, chal[c].status \in Decided
               PROVE  chal'[c] = chal[c] \/ env'.crashes > env.crashes
    OBVIOUS
  <2>1. CASE Crash
    <3>1. env.crashes \in Nat /\ env'.crashes = env.crashes + 1
      BY <2>1 DEF Crash, IInv, TypeInv, TypeOK
    <3> QED BY <3>1
  <2>2. CASE ~Crash
    BY <2>2, ChallengesKept DEF IInv, Kept
  <2> QED BY <2>1, <2>2
<1> QED BY <1>1, Inductive, PTL DEF Spec, DecidedOnce

\* Offences: as long as the node neither crashed nor re-registered a miner, his
\* offence_count is the number of challenges he lost, and from the second on he
\* has been banned by the time the resolver lets go of him.
THEOREM OffencesCounted == Spec => []OffencesMatchVerdicts
<1>1. IInv => OffencesMatchVerdicts
  BY DEF IInv, OffenceInv, OffencesMatchVerdicts
<1> QED BY <1>1, Inductive, PTL

\* Payments: as long as the node has not crashed, a job was paid no more often
\* than it was accepted optimistically or passed a challenge.
THEOREM PaymentsEarned == Spec => []PaidPerAcceptance
<1>1. IInv => PaidPerAcceptance
  <2> SUFFICES ASSUME IInv, env.crashes = 0, NEW j \in Jobs
               PROVE  job[j].credits <= job[j].accepts + Cardinality(Passed(j))
    BY DEF PaidPerAcceptance
  <2>1. \A c \in Passed(j) : c \in Issued
    BY DEF Passed, Issued
  <2>2. IsFiniteSet(Passed(j))
    BY <2>1, FS_Subset DEF IInv, ChalInv
  <2>3. /\ IsFiniteSet(Passed(j) \ passes)
        /\ Cardinality(Passed(j) \ passes) <= Cardinality(Passed(j))
    BY <2>2, FS_Subset
  <2>4. Cardinality(Passed(j)) \in Nat /\ Cardinality(Passed(j) \ passes) \in Nat
    BY <2>2, <2>3, FS_CardinalityType
  <2>5. job[j].credits <= job[j].accepts + Cardinality(Passed(j) \ passes)
    BY DEF IInv, PayInv
  <2>6. job[j].credits \in Nat /\ job[j].accepts \in Nat
    BY DEF IInv, TypeInv, TypeOK, ComputeJob
  <2> QED BY <2>3, <2>4, <2>5, <2>6
<1> QED BY <1>1, Inductive, PTL

\* Refunds: as long as the node neither crashed nor re-registered a miner, the
\* developer of a job with a lost challenge is refunded once the resolver is
\* through, if the miner had anything at stake.
THEOREM FailuresRefunded == Spec => []FailureRefunded
<1>1. IInv => FailureRefunded
  BY DEF IInv, RefundInv, FailureRefunded
<1> QED BY <1>1, Inductive, PTL

\* What the fates rest on holds of every behaviour.
LEMMA AlwaysFateInv == Spec => [](IInv /\ FateInv)
<1>1. Init => FateInv
  <2> SUFFICES ASSUME Init PROVE FateInv
    OBVIOUS
  <2>1. rpc.at = "idle" /\ Issued = {}
    BY DEF Init, Idle, Issued, Unissued
  <2> QED BY <2>1 DEF FateInv
<1>2. IInv /\ FateInv /\ [Next]_vars => FateInv'
  BY StepFateInv DEF IInv
<1> QED BY <1>1, <1>2, InitIInv, StepIInv, PTL DEF Spec

\* Fates: whatever the threads, the daemons and a crash do to a standard-tier
\* job, the refund sweep sees only steps that JobFates allows: a settled job is
\* not handed out again, and a refund that _on_refund recorded is not taken back.
THEOREM FatesFollow == Spec => FatesSpec
<1> DEFINE fates == [j \in Jobs |-> FateOf(job[j])]
           saved == [j \in Jobs |-> FateOf(disk.job[j])]
<1>1. Init => Ledger!Init
  <2> SUFFICES ASSUME Init PROVE Ledger!Init
    OBVIOUS
  <2>1. job = Empty.job /\ disk.job = Empty.job
    BY DEF Init, Empty
  <2>2. fates = [j \in Jobs |-> Ledger!Lost] /\ saved = fates
    BY <2>1, EmptyFates
  <2> QED BY <2>2 DEF Ledger!Init
<1>2. (IInv /\ FateInv) /\ [Next]_vars => [Ledger!Next]_<<fates, saved>>
  <2> SUFFICES ASSUME IInv, FateInv, [Next]_vars PROVE Ledger!Next \/ UNCHANGED <<fates, saved>>
    OBVIOUS
  <2>1. CASE Crash
    <3>1. PICK snapshot \in {disk, Empty} : job' = snapshot.job /\ disk' = snapshot
      BY <2>1 DEF Crash
    <3>2. fates' = saved' /\ fates' \in {saved, [j \in Jobs |-> Ledger!Lost]}
      BY <3>1, EmptyFates
    <3> QED BY <3>2 DEF Ledger!Next, Ledger!Crash
  <2>2. CASE ~Crash
    <3>1. disk' = disk \/ (disk'.job = job /\ job' = job)
      BY <2>2, DiskKept
    <3>2. CASE disk'.job = job /\ job' = job
      BY <3>2 DEF Ledger!Next, Ledger!Save
    <3>3. CASE disk' = disk /\ Still
      BY <3>3 DEF Still, Same
    <3>4. ASSUME disk' = disk, NEW j \in Jobs, Settles(job[j], job'[j]),
                 \A i \in Jobs \ {j} : job'[i] = job[i]
          PROVE  Ledger!Next
      <4>1. job[j] \in ComputeJob /\ job'[j] \in ComputeJob
        BY StepIInv DEF IInv, TypeInv, TypeOK
      <4>2. FateOf(job'[j]) \in Ledger!Fates(FateOf(job[j]))
        BY <3>4, <4>1, MovedIsFate
      <4>3. saved' = saved /\ fates' = [fates EXCEPT ![j] = FateOf(job'[j])] /\ fates[j] = FateOf(job[j])
        BY <3>4
      <4> QED BY <4>2, <4>3 DEF Ledger!Next, Ledger!Decide
    <3>5. Still \/ Moved
      BY <2>2, Moves DEF IInv
    <3> QED BY <3>1, <3>2, <3>3, <3>4, <3>5 DEF Moved
  <2> QED BY <2>1, <2>2
<1> QED BY <1>1, <1>2, AlwaysFateInv, PTL DEF Spec, FatesSpec, Ledger!Spec
=============================================================================
