-------------------------- MODULE GovernanceProofs --------------------------
(***************************************************************************)
(* Proofs about module Governance: type correctness, that the tallies are  *)
(* those of the votes on record as long as no older row was written over   *)
(* them, and that whatever passes has a mandate.                           *)
(*                                                                         *)
(* The idea of the invariant: every row there is, in the table or about to *)
(* be written by a caller, however old, has the tallies of SOME of the     *)
(* votes that are on record now, because votes are never taken back.       *)
(***************************************************************************)
EXTENDS Governance, AggregateTheorems

\* What a caller holds between its read and its write.
Calls == [at : {"idle", "vote", "save"}, proposal : Proposals \cup {Nil},
          voter : Voters \cup {Nil}, choice : VoteChoices \cup {Nil}, row : Rows \cup {Nil}]

Saving == {c \in Callers : call[c].at = "save"}

TypeInv ==
  /\ TypeOK
  /\ call \in [Callers -> Calls]

\* A caller has read a proposal that exists, whose kind stays as it was read.
CallInv ==
  /\ \A c \in Callers : call[c].at # "idle" => proposal[call[c].proposal].status # "absent"
  /\ \A c \in Saving :
       /\ call[c].row.status # "absent"
       /\ call[c].row.kind = proposal[call[c].proposal].kind
       /\ call[c].row.status = "vetoed" => call[c].row.kind = "constitutional"

\* The tallies of the votes that S has on record.
Voted(p) == {v \in Voters : ballots[p][v] # "none"}
Tally(p, S) == [choice \in VoteChoices |-> WeightFor(p, choice, S)]
Backed(p, votes) == \E S \in SUBSET Voted(p) : votes = Tally(p, S)

CountInv ==
  /\ \A p \in Proposals : Backed(p, proposal[p].votes)
  /\ \A c \in Saving : Backed(call[c].proposal, call[c].row.votes)
  /\ \A p \in Proposals \ stale : proposal[p].votes = Tally(p, Voters)

\* These tallies carry a proposal of this kind.
Carried(kind, votes) ==
  /\ QuorumPct[kind] * Supply <= 100 * SumFunction(votes)
  /\ votes["for"] + votes["against"] > 0
  /\ 100 * votes["for"] >= ApprovalPct[kind] * (votes["for"] + votes["against"])

Warranted(p, row) ==
  row.status = "passed" =>
    row.decision = "approved" \/ \E S \in SUBSET Voted(p) : Carried(row.kind, Tally(p, S))

MandateInv ==
  /\ \A p \in Proposals : Warranted(p, proposal[p])
  /\ \A c \in Saving : Warranted(call[c].proposal, call[c].row)

IInv == TypeInv /\ CallInv /\ CountInv /\ MandateInv

----------------------------------------------------------------------------
\* Sums of weights.
LEMMA Weights ==
  ASSUME NEW p, NEW choice, NEW S \in SUBSET Voters
  PROVE  /\ WeightFor(p, choice, S) \in Nat
         /\ WeightFor(p, choice, S) <= WeightFor(p, choice, Voters)
         /\ WeightFor(p, choice, Voters) \in Nat
<1> DEFINE A == {v \in S : ballots[p][v] = choice}
           B == {v \in Voters : ballots[p][v] = choice}
<1>1. A \in SUBSET B /\ B \in SUBSET B /\ IsFiniteSet(B)
  BY GovernanceAssumption, FS_Subset
<1>2. \A v \in B : Weight[v] \in Nat
  BY GovernanceAssumption
<1> HIDE DEF A, B
<1>3. /\ SumFunctionOnSet(Weight, A) \in Nat /\ SumFunctionOnSet(Weight, B) \in Nat
      /\ SumFunctionOnSet(Weight, A) <= SumFunctionOnSet(Weight, B)
  BY <1>1, <1>2, SumSubset
<1> QED BY <1>3 DEF WeightFor, A, B

\* Tallies are numbers.
LEMMA TallyTypes ==
  ASSUME NEW p, NEW S \in SUBSET Voters
  PROVE  Tally(p, S) \in [VoteChoices -> Nat]
BY Weights DEF Tally

\* A row that meets its thresholds is carried by its tallies,
LEMMA CarriedRow ==
  ASSUME NEW row \in Rows, QuorumMet(row), Approved(row)
  PROVE  Carried(row.kind, row.votes)
<1>1. SumFunction(row.votes) \in Nat
  <2>1. row.votes \in [VoteChoices -> Nat] /\ DOMAIN row.votes = VoteChoices
    BY DEF Rows
  <2>2. IsFiniteSet(VoteChoices)
    <3>1. VoteChoices = ({"for"} \cup {"against"}) \cup {"abstain"}
      BY DEF VoteChoices
    <3> QED BY <3>1, FS_Singleton, FS_Union
  <2>3. \A choice \in VoteChoices : row.votes[choice] \in Nat
    BY <2>1
  <2>4. SumFunctionOnSet(row.votes, VoteChoices) \in Nat
    BY <2>2, <2>3, SumSubset
  <2> QED BY <2>1, <2>4 DEF SumFunction
<1>2. QuorumPct[row.kind] \in Nat /\ Supply \in Nat
  BY GovernanceAssumption DEF Rows, Kinds, QuorumPct
<1>3. 100 * SumFunction(row.votes) >= QuorumPct[row.kind] * Supply
  BY DEF QuorumMet, TotalVotes
<1>4. QuorumPct[row.kind] * Supply <= 100 * SumFunction(row.votes)
  BY <1>1, <1>2, <1>3
<1> QED BY <1>4 DEF Carried, Approved

\* and votes that carry a proposal are a mandate for it.
LEMMA CarriedIsMandate ==
  ASSUME NEW p \in Proposals, proposal[p] \in Rows, NEW S, Carried(proposal[p].kind, Tally(p, S))
  PROVE  Mandate(p, S)
<1> DEFINE row == [proposal[p] EXCEPT !.votes = [choice \in VoteChoices |-> WeightFor(p, choice, S)]]
<1>1. row.votes = Tally(p, S) /\ row.kind = proposal[p].kind
  BY DEF Rows, Tally
<1>2. TotalVotes(row) = SumFunction(Tally(p, S))
  BY <1>1 DEF TotalVotes
<1>3. /\ QuorumPct[row.kind] * Supply <= 100 * TotalVotes(row)
      /\ Approved(row)
  <2> HIDE DEF row
  <2> QED BY <1>1, <1>2 DEF Carried, Approved
<1> QED BY <1>3 DEF Mandate


----------------------------------------------------------------------------

\* The inductive invariant holds of an empty table.
LEMMA InitIInv == Init => IInv
<1> SUFFICES ASSUME Init PROVE IInv
  OBVIOUS
<1>1. Absent \in Rows /\ Absent.status = "absent"
  BY DEF Absent, Rows, Statuses, Kinds, QuorumPct, VoteChoices, Overrides
<1>2. Returned \in Calls /\ Returned.at = "idle"
  BY DEF Returned, Calls
<1>3. \A p \in Proposals : \A v \in Voters : ballots[p][v] = "none"
  BY DEF Init
<1>4. /\ proposal \in [Proposals -> Rows] /\ \A p \in Proposals : proposal[p] = Absent
      /\ call \in [Callers -> Calls] /\ \A c \in Callers : call[c] = Returned
  <2> HIDE DEF Absent, Returned
  <2> QED BY <1>1, <1>2 DEF Init
<1>5. TypeInv
  BY <1>1, <1>2, <1>3, <1>4 DEF Init, TypeInv, TypeOK
<1>6. CallInv
  BY <1>2, <1>4 DEF CallInv, Saving
<1>7. \A p \in Proposals : Voted(p) = {} /\ Tally(p, {}) = Absent.votes /\ Tally(p, Voters) = Absent.votes
  <2> SUFFICES ASSUME NEW p \in Proposals
               PROVE  Voted(p) = {} /\ Tally(p, {}) = Absent.votes /\ Tally(p, Voters) = Absent.votes
    OBVIOUS
  <2>1. \A choice \in VoteChoices : {v \in Voters : ballots[p][v] = choice} = {}
    BY <1>3 DEF VoteChoices
  <2>2. \A choice \in VoteChoices : {v \in {} : ballots[p][v] = choice} = {}
    OBVIOUS
  <2>3. SumFunctionOnSet(Weight, {}) = 0
    BY FS_EmptySet, SumByPick
  <2>4. \A choice \in VoteChoices : WeightFor(p, choice, {}) = 0 /\ WeightFor(p, choice, Voters) = 0
    BY <2>1, <2>2, <2>3 DEF WeightFor
  <2> QED BY <1>3, <2>4 DEF Voted, Tally, Absent
<1>8. CountInv
  BY <1>2, <1>4, <1>7 DEF CountInv, Saving, Backed
<1>9. MandateInv
  BY <1>1, <1>2, <1>4 DEF MandateInv, Saving, Warranted
<1> QED BY <1>5, <1>6, <1>8, <1>9 DEF IInv

\* The disjuncts of the next-state relation.
LEMMA Cases ==
  ASSUME [Next]_vars
  PROVE  \/ Advance \/ Crash \/ UNCHANGED vars
         \/ \E p \in Proposals : EndVoting(p)
         \/ \E p \in Proposals, kind \in Kinds : Create(p, kind)
         \/ \E c \in Callers, p \in Proposals, v \in Voters, choice \in VoteChoices : ReadForVote(c, p, v, choice)
         \/ \E c \in Callers : Vote(c)
         \/ \E c \in Callers, p \in Proposals, override \in Overrides : Finalize(c, p, override)
         \/ \E c \in Callers, p \in Proposals : Veto(c, p)
         \/ \E c \in Callers : Save(c)
BY DEF Next

\* What a caller has in hand is a call that returned, a vote or a save.
LEMMA CallTypes ==
  ASSUME TypeInv, NEW c \in Callers
  PROVE  /\ call[c] \in Calls
         /\ call[c].at \in {"idle", "vote", "save"}
         /\ call[c].at = "vote" =>
              call[c].proposal \in Proposals /\ call[c].voter \in Voters /\ call[c].choice \in VoteChoices
         /\ call[c].at = "save" => call[c].proposal \in Proposals /\ call[c].row \in Rows
BY DEF TypeInv, TypeOK

\* A vote touches one proposal and one ballot, and no status.
LEMMA VoteEffect ==
  ASSUME TypeInv, NEW c \in Callers, Vote(c),
         NEW p, p = call[c].proposal, NEW v, v = call[c].voter, NEW choice, choice = call[c].choice
  PROVE  /\ p \in Proposals /\ v \in Voters /\ choice \in VoteChoices /\ call[c].at = "vote"
         /\ call'[c] = Returned /\ \A d \in Callers : d # c => call'[d] = call[d]
         /\ call' \in [Callers -> Calls]
         /\ phase' = phase /\ over' = over /\ stale' = stale
         /\ \A q \in Proposals : q # p => proposal'[q] = proposal[q] /\ ballots'[q] = ballots[q]
         /\ proposal' \in [Proposals -> Rows]
         /\ ballots' \in [Proposals -> [Voters -> VoteChoices \cup {"none"}]]
         /\ proposal'[p].status = proposal[p].status /\ proposal'[p].kind = proposal[p].kind
         /\ proposal'[p].decision = proposal[p].decision
         /\ \A w \in Voters : w # v => ballots'[p][w] = ballots[p][w]
         /\ ballots[p][v] # "none" => ballots' = ballots /\ proposal' = proposal
<1>1. /\ call[c].at = "vote" /\ call' = [call EXCEPT ![c] = Returned]
      /\ phase' = phase /\ over' = over /\ stale' = stale
      /\ IF ballots[p][v] = "none"
         THEN /\ ballots' = [ballots EXCEPT ![p][v] = choice]
              /\ proposal' = [proposal EXCEPT ![p].votes[choice] = @ + Weight[v]]
         ELSE UNCHANGED <<ballots, proposal>>
  BY DEF Vote, NotYet
<1>2. p \in Proposals /\ v \in Voters /\ choice \in VoteChoices
  BY <1>1, CallTypes
<1>3. Returned \in Calls
  BY DEF Returned, Calls
<1>4. /\ call \in [Callers -> Calls] /\ proposal \in [Proposals -> Rows] /\ proposal[p] \in Rows
      /\ ballots \in [Proposals -> [Voters -> VoteChoices \cup {"none"}]] /\ Weight[v] \in Nat
  BY <1>2, GovernanceAssumption DEF TypeInv, TypeOK
<1>5. /\ call'[c] = Returned /\ \A d \in Callers : d # c => call'[d] = call[d]
      /\ call' \in [Callers -> Calls]
  <2> HIDE DEF Returned, Calls
  <2> QED BY <1>1, <1>3, <1>4
<1>6. CASE ballots[p][v] = "none"
  <2>1. /\ ballots' = [ballots EXCEPT ![p][v] = choice]
        /\ proposal' = [proposal EXCEPT ![p].votes[choice] = @ + Weight[v]]
    BY <1>1, <1>6
  <2>2. /\ ballots'[p][v] = choice /\ \A w \in Voters : w # v => ballots'[p][w] = ballots[p][w]
        /\ \A q \in Proposals : q # p => ballots'[q] = ballots[q]
        /\ ballots' \in [Proposals -> [Voters -> VoteChoices \cup {"none"}]]
    BY <1>2, <1>4, <2>1
  <2> DEFINE votes == [proposal[p].votes EXCEPT ![choice] = @ + Weight[v]]
  <2>3. votes \in [VoteChoices -> Nat]
    BY <1>2, <1>4 DEF Rows
  <2>4. /\ proposal'[p] = [proposal[p] EXCEPT !.votes = votes]
        /\ \A q \in Proposals : q # p => proposal'[q] = proposal[q]
    BY <1>2, <1>4, <2>1
  <2> HIDE DEF votes
  <2>5. /\ proposal'[p].status = proposal[p].status /\ proposal'[p].kind = proposal[p].kind
        /\ proposal'[p].decision = proposal[p].decision /\ proposal'[p].votes = votes
    BY <1>4, <2>4 DEF Rows
  <2>6. [proposal[p] EXCEPT !.votes = votes] \in Rows
    BY <1>4, <2>3 DEF Rows
  <2>7. \A q \in Proposals : proposal'[q] \in Rows
    BY <1>4, <2>4, <2>6
  <2>8. proposal' = [q \in Proposals |-> proposal'[q]]
    BY <1>4, <2>1
  <2>9. proposal' \in [Proposals -> Rows]
    BY <2>7, <2>8
  <2> QED BY <1>1, <1>2, <1>5, <1>6, <2>2, <2>4, <2>5, <2>9
<1>7. CASE ballots[p][v] # "none"
  BY <1>1, <1>2, <1>4, <1>5, <1>7
<1> QED BY <1>6, <1>7

\* A vote that counts adds one ballot, and its weight to the tally.
LEMMA VoteCounted ==
  ASSUME TypeInv, NEW c \in Callers, Vote(c),
         NEW p, p = call[c].proposal, NEW v, v = call[c].voter, NEW choice, choice = call[c].choice,
         ballots[p][v] = "none"
  PROVE  /\ ballots'[p][v] = choice
         /\ proposal'[p].votes = [proposal[p].votes EXCEPT ![choice] = @ + Weight[v]]
<1>1. /\ ballots' = [ballots EXCEPT ![p][v] = choice]
      /\ proposal' = [proposal EXCEPT ![p].votes[choice] = @ + Weight[v]]
  BY DEF Vote, NotYet
<1>2. p \in Proposals /\ v \in Voters /\ choice \in VoteChoices
  BY VoteEffect
<1>3. /\ proposal \in [Proposals -> Rows] /\ proposal[p] \in Rows
      /\ ballots \in [Proposals -> [Voters -> VoteChoices \cup {"none"}]]
  BY <1>2 DEF TypeInv, TypeOK
<1> DEFINE votes == [proposal[p].votes EXCEPT ![choice] = @ + Weight[v]]
<1>4. proposal'[p] = [proposal[p] EXCEPT !.votes = votes]
  BY <1>1, <1>2, <1>3
<1>5. ballots'[p][v] = choice
  BY <1>1, <1>2, <1>3
<1> HIDE DEF votes
<1>6. proposal'[p].votes = votes
  BY <1>3, <1>4 DEF Rows
<1> QED BY <1>5, <1>6 DEF votes

\* What a finalization or a veto is about to write: the row as it was read, with
\* another status and decision.
LEMMA ReadEffect ==
  ASSUME TypeInv, NEW c \in Callers, NEW p \in Proposals, NEW row \in Rows, ReadToSave(c, p, row)
  PROVE  /\ proposal[p].status # "absent"
         /\ phase' = phase /\ over' = over /\ stale' = stale /\ proposal' = proposal /\ ballots' = ballots
         /\ call'[c].at = "save" /\ call'[c].proposal = p /\ call'[c].row = row
         /\ \A d \in Callers : d # c => call'[d] = call[d]
         /\ call' \in [Callers -> Calls]
<1>1. call' = [call EXCEPT ![c] = [Returned EXCEPT !.at = "save", !.proposal = p, !.row = row]]
  BY DEF ReadToSave
<1>2. call \in [Callers -> Calls]
  BY DEF TypeInv
<1>3. call'[c] = [Returned EXCEPT !.at = "save", !.proposal = p, !.row = row]
  BY <1>1, <1>2
<1>4. call'[c] = [at |-> "save", proposal |-> p, voter |-> Nil, choice |-> Nil, row |-> row]
  BY <1>3 DEF Returned
<1>5. call'[c] \in Calls
  BY <1>4 DEF Calls
<1>6. call' \in [Callers -> Calls] /\ \A d \in Callers : d # c => call'[d] = call[d]
  <2>1. \A d \in Callers : d # c => call'[d] = call[d]
    BY <1>1, <1>2
  <2>2. \A d \in Callers : call'[d] \in Calls
    <3> HIDE DEF Calls
    <3> QED BY <1>2, <1>5, <2>1
  <2>3. call' = [d \in Callers |-> call'[d]]
    BY <1>1, <1>2
  <2> QED BY <2>1, <2>2, <2>3
<1> QED BY <1>1, <1>4, <1>6 DEF ReadToSave

\* What a finalization decides.
LEMMA FinalizedRow ==
  ASSUME NEW row \in Rows, row.status # "absent", NEW override \in Overrides
  PROVE  /\ Finalized(row, override) \in Rows
         /\ Finalized(row, override).status \notin {"absent", "vetoed"}
         /\ Finalized(row, override).kind = row.kind /\ Finalized(row, override).votes = row.votes
         /\ Finalized(row, override).status = "passed" =>
              Finalized(row, override).decision = "approved" \/ Carried(row.kind, row.votes)
<1> DEFINE Good(r) == /\ r \in Rows /\ r.status \notin {"absent", "vetoed"}
                      /\ r.kind = row.kind /\ r.votes = row.votes
<1>1. \A otherwise \in {"draft", "no_quorum"} :
        /\ Good(ByFounder(row, override, otherwise))
        /\ ByFounder(row, override, otherwise).status = "passed" =>
             ByFounder(row, override, otherwise).decision = "approved"
  <2>1. CASE override = "approved"
    BY <2>1 DEF ByFounder, Rows, Statuses, Overrides
  <2>2. CASE override = "rejected"
    BY <2>2 DEF ByFounder, Rows, Statuses, Overrides
  <2>3. CASE override = "none"
    BY <2>3 DEF ByFounder, Rows, Statuses, Overrides
  <2> QED BY <2>1, <2>2, <2>3 DEF Overrides
<1>2. CASE phase = 1
  BY <1>1, <1>2 DEF Finalized
<1>3. CASE phase # 1 /\ ~QuorumMet(row)
  BY <1>1, <1>3 DEF Finalized
<1>4. CASE phase # 1 /\ QuorumMet(row)
  <2>1. Finalized(row, override) = [row EXCEPT !.status = IF Approved(row) THEN "passed" ELSE "failed"]
    BY <1>4 DEF Finalized
  <2>2. CASE Approved(row)
    <3>1. Finalized(row, override) = [row EXCEPT !.status = "passed"]
      BY <2>1, <2>2
    <3>2. Good([row EXCEPT !.status = "passed"])
      BY DEF Rows, Statuses
    <3>3. Carried(row.kind, row.votes)
      BY <1>4, <2>2, CarriedRow
    <3> QED BY <3>1, <3>2, <3>3
  <2>3. CASE ~Approved(row)
    <3>1. Finalized(row, override) = [row EXCEPT !.status = "failed"]
      BY <2>1, <2>3
    <3>2. Good([row EXCEPT !.status = "failed"]) /\ [row EXCEPT !.status = "failed"].status = "failed"
      BY DEF Rows, Statuses
    <3> QED BY <3>1, <3>2
  <2> QED BY <2>2, <2>3
<1> QED BY <1>2, <1>3, <1>4


\* Who has voted has voted: no step touches a ballot that was cast,
LEMMA BallotsKept ==
  ASSUME TypeInv, [Next]_vars, NEW p \in Proposals, NEW v \in Voters, ballots[p][v] # "none"
  PROVE  ballots'[p][v] = ballots[p][v]
<1>1. ASSUME NEW c \in Callers, Vote(c) PROVE ballots'[p][v] = ballots[p][v]
  <2>1. PICK q, w, choice : q = call[c].proposal /\ w = call[c].voter /\ choice = call[c].choice
    OBVIOUS
  <2>2. /\ p # q => ballots'[p] = ballots[p]
        /\ \A u \in Voters : u # w => ballots'[q][u] = ballots[q][u]
        /\ ballots[q][w] # "none" => ballots' = ballots
    BY <1>1, <2>1, VoteEffect
  <2> QED BY <2>2
<1>2. Advance \/ Crash \/ UNCHANGED vars => ballots' = ballots
  BY DEF Advance, Crash, vars
<1>3. ASSUME NEW q \in Proposals, EndVoting(q) PROVE ballots' = ballots
  BY <1>3 DEF EndVoting
<1>4. ASSUME NEW q \in Proposals, NEW kind \in Kinds, Create(q, kind) PROVE ballots' = ballots
  BY <1>4 DEF Create
<1>5. ASSUME NEW c \in Callers, NEW q \in Proposals, NEW w \in Voters, NEW choice \in VoteChoices,
             ReadForVote(c, q, w, choice)
      PROVE  ballots' = ballots
  BY <1>5 DEF ReadForVote
<1>6. ASSUME NEW c \in Callers, NEW q \in Proposals, NEW override \in Overrides, Finalize(c, q, override)
      PROVE  ballots' = ballots
  BY <1>6 DEF Finalize, ReadToSave
<1>7. ASSUME NEW c \in Callers, NEW q \in Proposals, Veto(c, q) PROVE ballots' = ballots
  BY <1>7 DEF Veto, ReadToSave
<1>8. ASSUME NEW c \in Callers, Save(c) PROVE ballots' = ballots
  BY <1>8 DEF Save
<1> QED BY <1>1, <1>2, <1>3, <1>4, <1>5, <1>6, <1>7, <1>8, Cases

\* so a set of voters who have voted keeps its tallies,
LEMMA TallyKept ==
  ASSUME TypeInv, [Next]_vars, NEW p \in Proposals, NEW S \in SUBSET Voted(p)
  PROVE  S \in SUBSET Voted(p)' /\ Tally(p, S)' = Tally(p, S)
<1>1. \A v \in S : v \in Voters /\ ballots[p][v] # "none" /\ ballots'[p][v] = ballots[p][v]
  BY BallotsKept DEF Voted
<1>2. \A choice \in VoteChoices : {v \in S : ballots'[p][v] = choice} = {v \in S : ballots[p][v] = choice}
  BY <1>1
<1>3. \A choice \in VoteChoices : WeightFor(p, choice, S)' = WeightFor(p, choice, S)
  BY <1>2 DEF WeightFor
<1>4. S \in SUBSET Voted(p)'
  BY <1>1 DEF Voted
<1> QED BY <1>3, <1>4 DEF Tally

\* what they back is backed, and what they warrant is warranted.
LEMMA BackedKept ==
  ASSUME TypeInv, [Next]_vars, NEW p \in Proposals, NEW votes, Backed(p, votes)
  PROVE  Backed(p, votes)'
<1>1. PICK S \in SUBSET Voted(p) : votes = Tally(p, S)
  BY DEF Backed
<1>2. S \in SUBSET Voted(p)' /\ votes = Tally(p, S)'
  BY <1>1, TallyKept
<1> QED BY <1>2 DEF Backed

\* The warrant of a row that is not written anew stays.
LEMMA WarrantKept ==
  ASSUME TypeInv, [Next]_vars, NEW p \in Proposals, NEW row, Warranted(p, row)
  PROVE  Warranted(p, row)'
<1> SUFFICES ASSUME row.status = "passed", row.decision # "approved"
             PROVE  \E S \in SUBSET Voted(p)' : Carried(row.kind, Tally(p, S)')
  BY DEF Warranted, Carried
<1>1. PICK S \in SUBSET Voted(p) : Carried(row.kind, Tally(p, S))
  BY DEF Warranted
<1>2. S \in SUBSET Voted(p)' /\ Tally(p, S)' = Tally(p, S)
  BY TallyKept
<1> QED BY <1>1, <1>2

\* A new ballot adds its weight to the tally of every set that it joins.
LEMMA TallyGrows ==
  ASSUME NEW p \in Proposals, NEW S \in SUBSET Voters, NEW v \in Voters, NEW choice \in VoteChoices,
         ballots[p][v] = "none", ballots'[p][v] = choice,
         \A w \in S : w # v => ballots'[p][w] = ballots[p][w]
  PROVE  Tally(p, S \cup {v})' = [Tally(p, S) EXCEPT ![choice] = @ + Weight[v]]
<1>0. "none" \notin VoteChoices
  BY DEF VoteChoices
<1>1. ASSUME NEW other \in VoteChoices
      PROVE  WeightFor(p, other, S \cup {v})'
               = WeightFor(p, other, S) + (IF other = choice THEN Weight[v] ELSE 0)
  <2> DEFINE A == {w \in S : ballots[p][w] = other}
             B == {w \in S \cup {v} : ballots'[p][w] = other}
  <2>1. v \notin A
    BY <1>0
  <2>2. B = IF other = choice THEN A \cup {v} ELSE A
    BY <1>0
  <2>3. IsFiniteSet(A) /\ IsFiniteSet(A \cup {v})
    <3>1. IsFiniteSet(A)
      BY GovernanceAssumption, FS_Subset
    <3> HIDE DEF A
    <3> QED BY <3>1, FS_AddElement
  <2>4. \A w \in A \cup {v} : Weight[w] \in Nat
    BY GovernanceAssumption
  <2> HIDE DEF A, B
  <2>5. SumFunctionOnSet(Weight, A) \in Nat
    <3>1. \A w \in A : Weight[w] \in Nat
      BY <2>4
    <3> QED BY <2>3, <3>1, SumSubset
  <2>6. SumFunctionOnSet(Weight, A \cup {v}) = Weight[v] + SumFunctionOnSet(Weight, A)
    <3> DEFINE C == A \cup {v}
    <3>1. \A w \in C : Weight[w] \in Int
      BY <2>4
    <3>2. C \ {v} = A /\ v \in C
      BY <2>1
    <3> HIDE DEF C
    <3>3. IsFiniteSet(C)
      BY <2>3 DEF C
    <3>4. SumFunctionOnSet(Weight, C) = Weight[v] + SumFunctionOnSet(Weight, C \ {v})
      BY <3>1, <3>2, <3>3, SumRemove
    <3> QED BY <3>2, <3>4 DEF C
  <2>7. Weight[v] \in Nat
    BY <2>4
  <2>8. SumFunctionOnSet(Weight, B) = SumFunctionOnSet(Weight, A) + (IF other = choice THEN Weight[v] ELSE 0)
    <3>1. CASE other = choice
      BY <2>2, <2>5, <2>6, <2>7, <3>1
    <3>2. CASE other # choice
      BY <2>2, <2>5, <3>2
    <3> QED BY <3>1, <3>2
  <2> QED BY <2>8 DEF WeightFor, A, B
<1>2. /\ Tally(p, S) \in [VoteChoices -> Nat]
      /\ \A other \in VoteChoices : WeightFor(p, other, S) \in Nat
  BY TallyTypes, Weights
<1> DEFINE old == Tally(p, S)
           new == [old EXCEPT ![choice] = @ + Weight[v]]
<1>3. \A other \in VoteChoices :
        Tally(p, S \cup {v})'[other] = WeightFor(p, other, S) + (IF other = choice THEN Weight[v] ELSE 0)
  BY <1>1 DEF Tally
<1>4. \A other \in VoteChoices :
        new[other] = WeightFor(p, other, S) + (IF other = choice THEN Weight[v] ELSE 0)
  <2>1. \A other \in VoteChoices : old[other] = WeightFor(p, other, S)
    BY DEF Tally
  <2> HIDE DEF old
  <2> QED BY <1>2, <2>1 DEF old
<1>5. /\ Tally(p, S \cup {v})' = [other \in VoteChoices |-> Tally(p, S \cup {v})'[other]]
      /\ new = [other \in VoteChoices |-> new[other]]
  <2>1. Tally(p, S \cup {v})' = [other \in VoteChoices |-> Tally(p, S \cup {v})'[other]]
    BY DEF Tally
  <2>2. new = [other \in VoteChoices |-> new[other]]
    <3> HIDE DEF old
    <3> QED BY <1>2 DEF old
  <2> QED BY <2>1, <2>2
<1> HIDE DEF old, new
<1>6. Tally(p, S \cup {v})' = new
  BY <1>3, <1>4, <1>5
<1> QED BY <1>6 DEF new, old


\* Every step keeps the shapes of the state.
LEMMA StepTypeInv ==
  ASSUME TypeInv, CallInv, [Next]_vars
  PROVE  TypeInv'
<1>1. /\ proposal \in [Proposals -> Rows] /\ call \in [Callers -> Calls]
      /\ ballots \in [Proposals -> [Voters -> VoteChoices \cup {"none"}]]
      /\ over \subseteq Proposals /\ stale \subseteq Proposals /\ phase \in 1..3
      /\ \A p \in Proposals : proposal[p] \in Rows
  BY DEF TypeInv, TypeOK
<1>2. \A p \in Proposals :
        /\ proposal[p].status = "vetoed" => proposal[p].kind = "constitutional"
        /\ proposal[p].status = "absent" => \A v \in Voters : ballots[p][v] = "none"
  BY DEF TypeInv, TypeOK
<1> DEFINE Held(c) ==
       /\ call[c].at \in {"idle", "vote", "save"}
       /\ call[c].at = "vote" => call[c].voter \in Voters /\ call[c].choice \in VoteChoices
       /\ call[c].at = "save" => call[c].row \in Rows
       /\ call[c].at # "idle" => call[c].proposal \in Proposals
<1>3. \A c \in Callers : Held(c)
  BY DEF TypeInv, TypeOK
<1>4. Returned \in Calls /\ Returned.at = "idle"
  BY DEF Returned, Calls
<1>5. CASE Advance
  BY <1>1, <1>2, <1>3, <1>5 DEF Advance, TypeInv, TypeOK
<1>6. CASE Crash
  <2>1. call' \in [Callers -> Calls] /\ \A c \in Callers : call'[c].at = "idle"
    <3> HIDE DEF Returned, Calls
    <3> QED BY <1>4, <1>6 DEF Crash
  <2> QED BY <1>1, <1>2, <1>6, <2>1 DEF Crash, TypeInv, TypeOK
<1>7. CASE UNCHANGED vars
  BY <1>7 DEF vars, TypeInv, TypeOK
<1>8. ASSUME NEW p \in Proposals, EndVoting(p) PROVE TypeInv'
  BY <1>1, <1>2, <1>3, <1>8 DEF EndVoting, TypeInv, TypeOK
<1>9. ASSUME NEW p \in Proposals, NEW kind \in Kinds, Create(p, kind) PROVE TypeInv'
  <2> DEFINE status == IF phase = 1 THEN "draft" ELSE "active"
  <2>1. proposal' = [proposal EXCEPT ![p].kind = kind, ![p].status = status]
    BY <1>9 DEF Create
  <2>2. status \in {"draft", "active"}
    OBVIOUS
  <2> HIDE DEF status
  <2>3. proposal'[p] = [proposal[p] EXCEPT !.kind = kind, !.status = status]
    BY <1>1, <2>1
  <2>4. \A q \in Proposals : q # p => proposal'[q] = proposal[q]
    BY <1>1, <2>1
  <2>5. proposal'[p] \in Rows /\ proposal'[p].status = status
    <3>1. [proposal[p] EXCEPT !.kind = kind, !.status = status] \in Rows
      BY <1>1, <2>2 DEF Rows, Statuses
    <3>2. [proposal[p] EXCEPT !.kind = kind, !.status = status].status = status
      BY <1>1 DEF Rows
    <3> QED BY <2>3, <3>1, <3>2
  <2>6. proposal' \in [Proposals -> Rows]
    <3>1. \A q \in Proposals : proposal'[q] \in Rows
      BY <1>1, <2>4, <2>5
    <3>2. proposal' = [q \in Proposals |-> proposal'[q]]
      BY <1>1, <2>1
    <3> QED BY <3>1, <3>2
  <2>7. \A q \in Proposals :
          /\ proposal'[q].status = "vetoed" => proposal'[q].kind = "constitutional"
          /\ proposal'[q].status = "absent" => \A v \in Voters : ballots[q][v] = "none"
    BY <1>2, <2>2, <2>4, <2>5
  <2> QED BY <1>1, <1>3, <1>9, <2>6, <2>7 DEF Create, TypeInv, TypeOK
<1>10. ASSUME NEW c \in Callers, NEW p \in Proposals, NEW v \in Voters, NEW choice \in VoteChoices,
              ReadForVote(c, p, v, choice)
       PROVE  TypeInv'
  <2>1. call' = [call EXCEPT ![c] = [Returned EXCEPT !.at = "vote", !.proposal = p, !.voter = v, !.choice = choice]]
    BY <1>10 DEF ReadForVote
  <2>2. call'[c] = [Returned EXCEPT !.at = "vote", !.proposal = p, !.voter = v, !.choice = choice]
    BY <1>1, <2>1
  <2>3. call'[c] = [at |-> "vote", proposal |-> p, voter |-> v, choice |-> choice, row |-> Nil]
    BY <2>2 DEF Returned
  <2>4. call'[c] \in Calls
    BY <2>3 DEF Calls
  <2>5. \A d \in Callers : d # c => call'[d] = call[d]
    BY <1>1, <2>1
  <2>6. call' \in [Callers -> Calls]
    <3>1. \A d \in Callers : call'[d] \in Calls
      BY <1>1, <2>4, <2>5
    <3>2. call' = [d \in Callers |-> call'[d]]
      BY <1>1, <2>1
    <3> QED BY <3>1, <3>2
  <2>7. \A d \in Callers : Held(d)'
    BY <1>3, <2>3, <2>5
  <2> QED BY <1>1, <1>2, <1>10, <2>6, <2>7 DEF ReadForVote, TypeInv, TypeOK
<1>11. ASSUME NEW c \in Callers, NEW p \in Proposals, NEW row \in Rows, ReadToSave(c, p, row) PROVE TypeInv'
  <2>1. /\ phase' = phase /\ over' = over /\ stale' = stale /\ proposal' = proposal /\ ballots' = ballots
        /\ call'[c].at = "save" /\ call'[c].proposal = p /\ call'[c].row = row
        /\ \A d \in Callers : d # c => call'[d] = call[d]
        /\ call' \in [Callers -> Calls]
    BY <1>11, ReadEffect
  <2>2. \A d \in Callers : Held(d)'
    BY <1>3, <2>1
  <2> QED BY <1>1, <1>2, <2>1, <2>2 DEF TypeInv, TypeOK
<1>12. ASSUME NEW c \in Callers, NEW p \in Proposals, NEW override \in Overrides, Finalize(c, p, override)
       PROVE TypeInv'
  <2>1. proposal[p].status # "absent"
    BY <1>12 DEF Finalize, ReadToSave
  <2>2. Finalized(proposal[p], override) \in Rows
    BY <1>1, <2>1, FinalizedRow
  <2> QED BY <1>11, <1>12, <2>2 DEF Finalize
<1>13. ASSUME NEW c \in Callers, NEW p \in Proposals, Veto(c, p) PROVE TypeInv'
  <2>1. [proposal[p] EXCEPT !.status = "vetoed"] \in Rows
    BY <1>1 DEF Rows, Statuses
  <2> QED BY <1>11, <1>13, <2>1 DEF Veto
<1>14. ASSUME NEW c \in Callers, Vote(c) PROVE TypeInv'
  <2>1. PICK p, v, choice : p = call[c].proposal /\ v = call[c].voter /\ choice = call[c].choice
    OBVIOUS
  <2>2. /\ p \in Proposals /\ call[c].at = "vote" /\ call'[c] = Returned
        /\ \A d \in Callers : d # c => call'[d] = call[d]
        /\ call' \in [Callers -> Calls]
        /\ phase' = phase /\ over' = over /\ stale' = stale
    BY <1>14, <2>1, VoteEffect
  <2>3. \A d \in Callers : Held(d)'
    BY <1>3, <1>4, <2>2
  <2>4. proposal[p].status # "absent"
    BY <2>1, <2>2 DEF CallInv
  <2>5. /\ proposal' \in [Proposals -> Rows] /\ ballots' \in [Proposals -> [Voters -> VoteChoices \cup {"none"}]]
        /\ proposal'[p].status = proposal[p].status /\ proposal'[p].kind = proposal[p].kind
        /\ \A q \in Proposals : q # p => proposal'[q] = proposal[q] /\ ballots'[q] = ballots[q]
    BY <1>1, <1>14, <2>1, VoteEffect
  <2>6. \A q \in Proposals :
          /\ proposal'[q].status = "vetoed" => proposal'[q].kind = "constitutional"
          /\ proposal'[q].status = "absent" => \A w \in Voters : ballots'[q][w] = "none"
    BY <1>2, <2>4, <2>5
  <2> QED BY <1>1, <2>2, <2>3, <2>5, <2>6 DEF TypeInv, TypeOK
<1>15. ASSUME NEW c \in Callers, Save(c) PROVE TypeInv'
  <2>1. PICK p \in Proposals : p = call[c].proposal
    BY <1>15, CallTypes DEF Save
  <2>2. PICK row \in Rows : row = call[c].row
    BY <1>15, CallTypes DEF Save
  <2>3. /\ proposal' = [proposal EXCEPT ![p] = row] /\ call' = [call EXCEPT ![c] = Returned]
        /\ phase' = phase /\ ballots' = ballots /\ over' = over /\ stale' \subseteq Proposals
    BY <1>1, <1>15, <2>1, <2>2 DEF Save
  <2>4. /\ row.status # "absent" /\ (row.status = "vetoed" => row.kind = "constitutional")
    BY <1>15, <2>1, <2>2 DEF Save, CallInv, Saving
  <2>5. proposal' \in [Proposals -> Rows] /\ proposal'[p] = row /\ \A q \in Proposals : q # p => proposal'[q] = proposal[q]
    BY <1>1, <2>3
  <2>6. call' \in [Callers -> Calls] /\ call'[c].at = "idle" /\ \A d \in Callers : d # c => call'[d] = call[d]
    <3> HIDE DEF Returned, Calls
    <3> QED BY <1>1, <1>4, <2>3
  <2>7. \A d \in Callers : Held(d)'
    BY <1>3, <2>6
  <2>8. \A q \in Proposals :
          /\ proposal'[q].status = "vetoed" => proposal'[q].kind = "constitutional"
          /\ proposal'[q].status = "absent" => \A v \in Voters : ballots[q][v] = "none"
    BY <1>2, <2>4, <2>5
  <2> QED BY <1>1, <2>3, <2>5, <2>6, <2>7, <2>8 DEF TypeInv, TypeOK
<1> QED BY <1>5, <1>6, <1>7, <1>8, <1>9, <1>10, <1>12, <1>13, <1>14, <1>15, Cases


\* Where the row of a proposal comes from.
LEMMA RowOrigin ==
  ASSUME TypeInv, [Next]_vars, NEW p \in Proposals
  PROVE  /\ p \in stale => p \in stale'
         /\ \/ ballots'[p] = ballots[p] /\ proposal'[p] = proposal[p]
            \/ /\ ballots'[p] = ballots[p] /\ proposal'[p].votes = proposal[p].votes
               /\ proposal[p].status = "absent" /\ proposal'[p].status \in {"draft", "active"}
            \/ /\ ballots'[p] = ballots[p]
               /\ \E c \in Saving : Save(c) /\ call[c].proposal = p /\ proposal'[p] = call[c].row
               /\ proposal'[p].votes # proposal[p].votes => p \in stale'
            \/ \E c \in Callers : Vote(c) /\ call[c].proposal = p
<1>1. proposal \in [Proposals -> Rows] /\ proposal[p] \in Rows
  BY DEF TypeInv, TypeOK
<1>2. Advance \/ Crash \/ UNCHANGED vars => proposal' = proposal /\ ballots' = ballots /\ stale' = stale
  BY DEF Advance, Crash, vars
<1>3. ASSUME NEW q \in Proposals, EndVoting(q) PROVE proposal' = proposal /\ ballots' = ballots /\ stale' = stale
  BY <1>3 DEF EndVoting
<1>4. ASSUME NEW c \in Callers, NEW q \in Proposals, NEW v \in Voters, NEW choice \in VoteChoices,
             ReadForVote(c, q, v, choice)
      PROVE  proposal' = proposal /\ ballots' = ballots /\ stale' = stale
  BY <1>4 DEF ReadForVote
<1>5. ASSUME NEW c \in Callers, NEW q \in Proposals, NEW override \in Overrides, Finalize(c, q, override)
      PROVE  proposal' = proposal /\ ballots' = ballots /\ stale' = stale
  BY <1>5 DEF Finalize, ReadToSave
<1>6. ASSUME NEW c \in Callers, NEW q \in Proposals, Veto(c, q)
      PROVE  proposal' = proposal /\ ballots' = ballots /\ stale' = stale
  BY <1>6 DEF Veto, ReadToSave
<1>7. ASSUME NEW q \in Proposals, NEW kind \in Kinds, Create(q, kind)
      PROVE  /\ ballots' = ballots /\ stale' = stale
             /\ \/ proposal'[p] = proposal[p]
                \/ /\ proposal'[p].votes = proposal[p].votes
                   /\ proposal[p].status = "absent" /\ proposal'[p].status \in {"draft", "active"}
  <2> DEFINE status == IF phase = 1 THEN "draft" ELSE "active"
  <2>1. /\ proposal' = [proposal EXCEPT ![q].kind = kind, ![q].status = status]
        /\ proposal[q].status = "absent" /\ ballots' = ballots /\ stale' = stale
    BY <1>7 DEF Create
  <2>2. status \in {"draft", "active"}
    OBVIOUS
  <2> HIDE DEF status
  <2>3. p # q => proposal'[p] = proposal[p]
    BY <1>1, <2>1
  <2>4. p = q => proposal'[p] = [proposal[p] EXCEPT !.kind = kind, !.status = status]
    BY <1>1, <2>1
  <2>5. p = q => proposal'[p].votes = proposal[p].votes /\ proposal'[p].status = status
    BY <1>1, <2>4 DEF Rows
  <2> QED BY <2>1, <2>2, <2>3, <2>5
<1>8. ASSUME NEW c \in Callers, Vote(c)
      PROVE  stale' = stale /\ (call[c].proposal # p => ballots'[p] = ballots[p] /\ proposal'[p] = proposal[p])
  <2>1. PICK q, v, choice : q = call[c].proposal /\ v = call[c].voter /\ choice = call[c].choice
    OBVIOUS
  <2> QED BY <1>8, <2>1, VoteEffect
<1>9. ASSUME NEW c \in Callers, Save(c)
      PROVE  /\ c \in Saving /\ ballots' = ballots
             /\ p \in stale => p \in stale'
             /\ call[c].proposal # p => proposal'[p] = proposal[p]
             /\ call[c].proposal = p =>
                  /\ proposal'[p] = call[c].row
                  /\ proposal'[p].votes # proposal[p].votes => p \in stale'
  <2>1. PICK q \in Proposals : q = call[c].proposal
    BY <1>9, CallTypes DEF Save
  <2>2. /\ call[c].at = "save" /\ ballots' = ballots
        /\ proposal' = [proposal EXCEPT ![q] = call[c].row]
        /\ stale' = IF call[c].row.votes = proposal[q].votes THEN stale ELSE stale \cup {q}
    BY <1>9, <2>1 DEF Save
  <2> QED BY <1>1, <2>1, <2>2 DEF Saving
<1> QED BY <1>2, <1>3, <1>4, <1>5, <1>6, <1>7, <1>8, <1>9, Cases

\* What a caller is about to save it was about to save before, or it has just
\* read it and changed nothing but its status and decision.
LEMMA SavingOrigin ==
  ASSUME TypeInv, [Next]_vars, NEW c \in Callers, call'[c].at # "idle"
  PROVE  \/ call'[c] = call[c]
         \/ /\ call'[c].proposal \in Proposals /\ proposal[call'[c].proposal].status # "absent"
            /\ proposal' = proposal
            /\ call'[c].at = "save" =>
                 /\ call'[c].row.status # "absent"
                 /\ call'[c].row.kind = proposal[call'[c].proposal].kind
                 /\ call'[c].row.votes = proposal[call'[c].proposal].votes
                 /\ call'[c].row.status = "vetoed" => call'[c].row.kind = "constitutional"
                 /\ call'[c].row.status = "passed" =>
                      \/ call'[c].row.decision = "approved"
                      \/ Carried(call'[c].row.kind, call'[c].row.votes)
<1>1. call \in [Callers -> Calls] /\ \A p \in Proposals : proposal[p] \in Rows
  BY DEF TypeInv, TypeOK
<1>2. Returned.at = "idle"
  BY DEF Returned
<1>3. Advance \/ UNCHANGED vars => call' = call
  BY DEF Advance, vars
<1>4. ~Crash
  <2>1. Crash => call'[c] = Returned
    BY DEF Crash
  <2> QED BY <1>2, <2>1
<1>5. ASSUME NEW p \in Proposals, EndVoting(p) PROVE call' = call
  BY <1>5 DEF EndVoting
<1>6. ASSUME NEW p \in Proposals, NEW kind \in Kinds, Create(p, kind) PROVE call' = call
  BY <1>6 DEF Create
<1>7. ASSUME NEW d \in Callers, Vote(d) PROVE call'[c] = call[c]
  <2>1. PICK q, v, choice : q = call[d].proposal /\ v = call[d].voter /\ choice = call[d].choice
    OBVIOUS
  <2>2. call'[d] = Returned /\ \A e \in Callers : e # d => call'[e] = call[e]
    BY <1>7, <2>1, VoteEffect
  <2> QED BY <1>2, <2>2
<1>8. ASSUME NEW d \in Callers, Save(d) PROVE call'[c] = call[c]
  <2>1. call' = [call EXCEPT ![d] = Returned]
    BY <1>8 DEF Save
  <2> HIDE DEF Returned
  <2> QED BY <1>1, <1>2, <2>1
<1>9. ASSUME NEW d \in Callers, NEW p \in Proposals, NEW v \in Voters, NEW choice \in VoteChoices,
             ReadForVote(d, p, v, choice)
      PROVE  \/ call'[c] = call[c]
             \/ /\ call'[c].at = "vote" /\ call'[c].proposal = p
                /\ proposal[p].status # "absent" /\ proposal' = proposal
  <2>1. /\ call' = [call EXCEPT ![d] = [Returned EXCEPT !.at = "vote", !.proposal = p, !.voter = v, !.choice = choice]]
        /\ proposal[p].status # "absent" /\ proposal' = proposal
    BY <1>9 DEF ReadForVote, MayVote
  <2>2. c # d => call'[c] = call[c]
    BY <1>1, <2>1
  <2>3. c = d => call'[c] = [Returned EXCEPT !.at = "vote", !.proposal = p, !.voter = v, !.choice = choice]
    BY <1>1, <2>1
  <2>4. c = d => call'[c].at = "vote" /\ call'[c].proposal = p
    BY <2>3 DEF Returned
  <2> QED BY <2>1, <2>2, <2>4
<1>10. ASSUME NEW d \in Callers, NEW p \in Proposals, NEW override \in Overrides, Finalize(d, p, override)
       PROVE  \/ call'[c] = call[c]
              \/ /\ call'[c].at = "save" /\ call'[c].proposal = p
                 /\ proposal[p].status # "absent" /\ proposal' = proposal
                 /\ call'[c].row.status \notin {"absent", "vetoed"}
                 /\ call'[c].row.kind = proposal[p].kind /\ call'[c].row.votes = proposal[p].votes
                 /\ call'[c].row.status = "passed" =>
                      \/ call'[c].row.decision = "approved"
                      \/ Carried(call'[c].row.kind, call'[c].row.votes)
  <2>1. proposal[p].status # "absent" /\ proposal[p] \in Rows
    BY <1>1, <1>10 DEF Finalize, ReadToSave
  <2>2. PICK row \in Rows : row = Finalized(proposal[p], override)
    BY <2>1, FinalizedRow
  <2>3. /\ row.status \notin {"absent", "vetoed"}
        /\ row.kind = proposal[p].kind /\ row.votes = proposal[p].votes
        /\ row.status = "passed" => row.decision = "approved" \/ Carried(row.kind, row.votes)
    BY <2>1, <2>2, FinalizedRow
  <2>4. /\ call'[d].at = "save" /\ call'[d].proposal = p /\ call'[d].row = row /\ proposal' = proposal
        /\ \A e \in Callers : e # d => call'[e] = call[e]
    BY <1>10, <2>2, ReadEffect DEF Finalize
  <2>5. CASE c = d
    BY <2>1, <2>3, <2>4, <2>5
  <2>6. CASE c # d
    BY <2>4, <2>6
  <2> QED BY <2>5, <2>6
<1>11. ASSUME NEW d \in Callers, NEW p \in Proposals, Veto(d, p)
       PROVE  \/ call'[c] = call[c]
              \/ /\ call'[c].at = "save" /\ call'[c].proposal = p
                 /\ proposal[p].status # "absent" /\ proposal' = proposal
                 /\ call'[c].row.status = "vetoed" /\ call'[c].row.kind = "constitutional"
                 /\ call'[c].row.kind = proposal[p].kind /\ call'[c].row.votes = proposal[p].votes
  <2>1. proposal[p].status # "absent" /\ proposal[p] \in Rows /\ proposal[p].kind = "constitutional"
    BY <1>1, <1>11 DEF Veto, Vetoable, ReadToSave
  <2>2. [proposal[p] EXCEPT !.status = "vetoed"] \in Rows
    BY <2>1 DEF Rows, Statuses
  <2>3. PICK row \in Rows : row = [proposal[p] EXCEPT !.status = "vetoed"]
    BY <2>2
  <2>4. row.status = "vetoed" /\ row.kind = proposal[p].kind /\ row.votes = proposal[p].votes
    BY <2>1, <2>3 DEF Rows
  <2>5. /\ call'[d].at = "save" /\ call'[d].proposal = p /\ call'[d].row = row /\ proposal' = proposal
        /\ \A e \in Callers : e # d => call'[e] = call[e]
    BY <1>11, <2>3, ReadEffect DEF Veto
  <2>6. CASE c = d
    BY <2>1, <2>4, <2>5, <2>6
  <2>7. CASE c # d
    BY <2>5, <2>7
  <2> QED BY <2>6, <2>7
<1>12. CASE \E d \in Callers, p \in Proposals, v \in Voters, choice \in VoteChoices : ReadForVote(d, p, v, choice)
  BY <1>9, <1>12
<1>13. CASE \E d \in Callers, p \in Proposals, override \in Overrides : Finalize(d, p, override)
  BY <1>10, <1>13
<1>14. CASE \E d \in Callers, p \in Proposals : Veto(d, p)
  BY <1>11, <1>14
<1>15. \/ call'[c] = call[c]
       \/ \E d \in Callers, p \in Proposals, v \in Voters, choice \in VoteChoices : ReadForVote(d, p, v, choice)
       \/ \E d \in Callers, p \in Proposals, override \in Overrides : Finalize(d, p, override)
       \/ \E d \in Callers, p \in Proposals : Veto(d, p)
  BY <1>3, <1>4, <1>5, <1>6, <1>7, <1>8, Cases
<1> QED BY <1>12, <1>13, <1>14, <1>15

----------------------------------------------------------------------------
(* The parts of the invariant, step by step *)

\* A proposal that exists goes on existing, and stays of its kind.
LEMMA RowsKept ==
  ASSUME TypeInv, CallInv, [Next]_vars, NEW p \in Proposals, proposal[p].status # "absent"
  PROVE  proposal'[p].status # "absent" /\ proposal'[p].kind = proposal[p].kind
<1>1. CASE proposal'[p] = proposal[p]
  BY <1>1
<1>2. CASE \E c \in Saving : Save(c) /\ call[c].proposal = p /\ proposal'[p] = call[c].row
  BY <1>2 DEF CallInv
<1>3. CASE \E c \in Callers : Vote(c) /\ call[c].proposal = p
  <2>1. PICK c \in Callers : Vote(c) /\ call[c].proposal = p
    BY <1>3
  <2>2. PICK v, choice : v = call[c].voter /\ choice = call[c].choice
    OBVIOUS
  <2>3. proposal'[p].status = proposal[p].status /\ proposal'[p].kind = proposal[p].kind
    BY <2>1, <2>2, VoteEffect
  <2> QED BY <2>3
<1> QED BY <1>1, <1>2, <1>3, RowOrigin

\* Callers name proposals that exist, and rows of the kind these have.
LEMMA StepCallInv ==
  ASSUME TypeInv, CallInv, TypeInv', [Next]_vars
  PROVE  CallInv'
<1>1. ASSUME NEW c \in Callers, call'[c].at # "idle"
      PROVE  /\ proposal'[call'[c].proposal].status # "absent"
             /\ call'[c].at = "save" =>
                  /\ call'[c].row.status # "absent"
                  /\ call'[c].row.kind = proposal'[call'[c].proposal].kind
                  /\ call'[c].row.status = "vetoed" => call'[c].row.kind = "constitutional"
  <2>1. CASE call'[c] = call[c]
    <3>1. PICK p \in Proposals : p = call[c].proposal
      BY <1>1, <2>1, CallTypes
    <3>2. proposal[p].status # "absent"
      BY <1>1, <2>1, <3>1 DEF CallInv
    <3>3. proposal'[p].status # "absent" /\ proposal'[p].kind = proposal[p].kind
      BY <3>2, RowsKept
    <3> QED BY <1>1, <2>1, <3>1, <3>3 DEF CallInv, Saving
  <2>2. CASE call'[c] # call[c]
    BY <1>1, <2>2, SavingOrigin
  <2> QED BY <2>1, <2>2
<1> QED BY <1>1 DEF CallInv, Saving

\* Every row has the tallies of votes on record, and all of them unless an older
\* row was written over a newer one.
LEMMA StepCountInv ==
  ASSUME TypeInv, CountInv, [Next]_vars
  PROVE  CountInv'
<1>1. ASSUME NEW p \in Proposals, NEW c \in Callers, Vote(c), call[c].proposal = p
      PROVE  /\ Backed(p, proposal[p].votes)'
             /\ p \notin stale' => proposal'[p].votes = Tally(p, Voters)'
  <2>1. PICK v, choice : v = call[c].voter /\ choice = call[c].choice
    OBVIOUS
  <2>2. /\ v \in Voters /\ choice \in VoteChoices /\ stale' = stale
        /\ \A w \in Voters : w # v => ballots'[p][w] = ballots[p][w]
        /\ ballots[p][v] # "none" => ballots' = ballots /\ proposal' = proposal
    BY <1>1, <2>1, VoteEffect
  <2>3. CASE ballots[p][v] # "none"
    <3>1. proposal'[p].votes = proposal[p].votes /\ ballots' = ballots
      BY <2>2, <2>3
    <3>2. PICK votes : votes = proposal[p].votes /\ votes = proposal'[p].votes
      BY <3>1
    <3>3. Backed(p, votes)'
      BY <3>2, BackedKept DEF CountInv
    <3>4. Tally(p, Voters)' = Tally(p, Voters)
      BY <3>1 DEF Tally, WeightFor
    <3> QED BY <2>2, <3>2, <3>3, <3>4 DEF CountInv
  <2>4. CASE ballots[p][v] = "none"
    <3>1. /\ ballots'[p][v] = choice
          /\ proposal'[p].votes = [proposal[p].votes EXCEPT ![choice] = @ + Weight[v]]
      BY <1>1, <2>1, <2>4, VoteCounted
    <3>2. PICK S \in SUBSET Voted(p) : proposal[p].votes = Tally(p, S)
      BY DEF CountInv, Backed
    <3>3. S \in SUBSET Voters /\ \A w \in S : ballots[p][w] # "none"
      BY <3>2 DEF Voted
    <3>4. v \notin S
      BY <2>4, <3>3
    <3>5. Tally(p, S \cup {v})' = [Tally(p, S) EXCEPT ![choice] = @ + Weight[v]]
      BY <2>2, <2>4, <3>1, <3>3, TallyGrows
    <3>6. proposal'[p].votes = Tally(p, S \cup {v})'
      BY <3>1, <3>2, <3>5
    <3>7. S \cup {v} \in SUBSET Voted(p)'
      <4>1. \A w \in S \cup {v} : w \in Voters /\ ballots'[p][w] # "none"
        BY <2>2, <3>1, <3>3 DEF VoteChoices
      <4> QED BY <4>1 DEF Voted
    <3>8. Tally(p, Voters \cup {v})' = [Tally(p, Voters) EXCEPT ![choice] = @ + Weight[v]]
      BY <2>2, <2>4, <3>1, TallyGrows
    <3>9. Voters \cup {v} = Voters
      BY <2>2
    <3>10. p \notin stale' => proposal'[p].votes = Tally(p, Voters)'
      BY <2>2, <3>1, <3>8, <3>9 DEF CountInv
    <3> QED BY <3>6, <3>7, <3>10 DEF Backed
  <2> QED BY <2>3, <2>4
<1>2. ASSUME NEW p \in Proposals
      PROVE  /\ Backed(p, proposal[p].votes)'
             /\ p \notin stale' => proposal'[p].votes = Tally(p, Voters)'
  <2>1. CASE \E c \in Callers : Vote(c) /\ call[c].proposal = p
    BY <1>1, <2>1
  <2>2. CASE /\ ballots'[p] = ballots[p]
             /\ \/ proposal'[p].votes = proposal[p].votes
                \/ /\ \E c \in Saving : Save(c) /\ call[c].proposal = p /\ proposal'[p] = call[c].row
                   /\ proposal'[p].votes # proposal[p].votes => p \in stale'
    <3>1. PICK votes : votes = proposal'[p].votes
      OBVIOUS
    <3>2. Backed(p, votes)
      BY <2>2, <3>1 DEF CountInv
    <3>3. Backed(p, votes)'
      BY <3>2, BackedKept
    <3>4. Tally(p, Voters)' = Tally(p, Voters)
      BY <2>2 DEF Tally, WeightFor
    <3>5. p \notin stale' => p \notin stale /\ proposal'[p].votes = proposal[p].votes
      BY <2>2, RowOrigin
    <3> QED BY <3>1, <3>3, <3>4, <3>5 DEF CountInv
  <2> QED BY <2>1, <2>2, RowOrigin
<1>3. ASSUME NEW c \in Callers, call'[c].at = "save" PROVE Backed(call[c].proposal, call[c].row.votes)'
  <2>1. CASE call'[c] = call[c]
    <3>1. PICK p \in Proposals : p = call[c].proposal /\ p = call'[c].proposal
      BY <1>3, <2>1, CallTypes
    <3>2. PICK votes : votes = call[c].row.votes /\ votes = call'[c].row.votes
      BY <2>1
    <3>3. Backed(p, votes)
      BY <1>3, <2>1, <3>1, <3>2 DEF CountInv, Saving
    <3>4. Backed(p, votes)'
      BY <3>3, BackedKept
    <3> QED BY <3>1, <3>2, <3>4
  <2>2. CASE call'[c] # call[c]
    <3>1. /\ call'[c].proposal \in Proposals
          /\ call'[c].row.votes = proposal[call'[c].proposal].votes
      BY <1>3, <2>2, SavingOrigin
    <3>2. PICK p \in Proposals : p = call'[c].proposal
      BY <3>1
    <3>3. PICK votes : votes = proposal[p].votes /\ votes = call'[c].row.votes
      BY <3>1, <3>2
    <3>4. Backed(p, votes)'
      BY <3>3, BackedKept DEF CountInv
    <3> QED BY <3>2, <3>3, <3>4
  <2> QED BY <2>1, <2>2
<1> QED BY <1>2, <1>3 DEF CountInv, Saving

\* A row that says passed has been decided so by the founder or by votes on record.
LEMMA StepMandateInv ==
  ASSUME TypeInv, CountInv, MandateInv, [Next]_vars
  PROVE  MandateInv'
<1>1. ASSUME NEW p \in Proposals PROVE Warranted(p, proposal[p])'
  <2>1. CASE proposal'[p] = proposal[p] \/ \E c \in Saving : call[c].proposal = p /\ proposal'[p] = call[c].row
    <3>1. PICK row : row = proposal'[p]
      OBVIOUS
    <3>2. Warranted(p, row)
      BY <2>1, <3>1 DEF MandateInv
    <3>3. Warranted(p, row)'
      BY <3>2, WarrantKept
    <3> QED BY <3>1, <3>3
  <2>2. CASE proposal'[p].status \in {"draft", "active"}
    BY <2>2 DEF Warranted
  <2>3. CASE \E c \in Callers : Vote(c) /\ call[c].proposal = p
    <3>1. PICK c \in Callers : Vote(c) /\ call[c].proposal = p
      BY <2>3
    <3>2. PICK v, choice : v = call[c].voter /\ choice = call[c].choice
      OBVIOUS
    <3>3. /\ proposal'[p].status = proposal[p].status /\ proposal'[p].kind = proposal[p].kind
          /\ proposal'[p].decision = proposal[p].decision
      BY <3>1, <3>2, VoteEffect
    <3>4. PICK row : row = proposal[p]
      OBVIOUS
    <3>5. Warranted(p, row)'
      BY <3>4, WarrantKept DEF MandateInv
    <3> QED BY <3>3, <3>4, <3>5 DEF Warranted
  <2> QED BY <2>1, <2>2, <2>3, RowOrigin
<1>2. ASSUME NEW c \in Callers, call'[c].at = "save" PROVE Warranted(call[c].proposal, call[c].row)'
  <2>1. CASE call'[c] = call[c]
    <3>1. PICK p \in Proposals : p = call[c].proposal /\ p = call'[c].proposal
      BY <1>2, <2>1, CallTypes
    <3>2. PICK row : row = call[c].row /\ row = call'[c].row
      BY <2>1
    <3>3. Warranted(p, row)
      BY <1>2, <2>1, <3>1, <3>2 DEF MandateInv, Saving
    <3>4. Warranted(p, row)'
      BY <3>3, WarrantKept
    <3> QED BY <3>1, <3>2, <3>4
  <2>2. CASE call'[c] # call[c]
    <3>1. PICK p \in Proposals : p = call'[c].proposal
      BY <1>2, <2>2, SavingOrigin
    <3>2. PICK row : row = call'[c].row
      OBVIOUS
    <3>3. /\ row.votes = proposal[p].votes
          /\ row.status = "passed" => row.decision = "approved" \/ Carried(row.kind, row.votes)
      BY <1>2, <2>2, <3>1, <3>2, SavingOrigin
    <3>4. PICK S \in SUBSET Voted(p) : row.votes = Tally(p, S)
      BY <3>3 DEF CountInv, Backed
    <3>5. Warranted(p, row)
      BY <3>3, <3>4 DEF Warranted
    <3>6. Warranted(p, row)'
      BY <3>5, WarrantKept
    <3> QED BY <3>1, <3>2, <3>6
  <2> QED BY <2>1, <2>2
<1> QED BY <1>1, <1>2 DEF MandateInv, Saving

\* Every step keeps the whole invariant.
LEMMA StepIInv == IInv /\ [Next]_vars => IInv'
<1> SUFFICES ASSUME IInv, [Next]_vars PROVE IInv'
  OBVIOUS
<1>1. TypeInv'
  BY StepTypeInv DEF IInv
<1>2. CallInv'
  BY <1>1, StepCallInv DEF IInv
<1>3. CountInv'
  BY StepCountInv DEF IInv
<1>4. MandateInv'
  BY StepMandateInv DEF IInv
<1> QED BY <1>1, <1>2, <1>3, <1>4 DEF IInv
----------------------------------------------------------------------------
(* Theorems *)

\* The invariant holds of every behaviour.
THEOREM Inductive == Spec => []IInv
BY InitIInv, StepIInv, PTL DEF Spec

\* Types: rows and calls keep their shape, nobody votes on what does not exist,
\* and a veto is written only over a constitutional proposal, although the row is
\* read long before it is written.
THEOREM TypeCorrect == Spec => []TypeOK
<1>1. IInv => TypeOK
  BY DEF IInv, TypeInv
<1> QED BY <1>1, Inductive, PTL

\* Tallies: no interleaving of votes, finalizations and vetoes counts a vote
\* twice, and only an older row written over a newer one loses any.
THEOREM TalliesFollow == Spec => []TallyFollowsBallots
<1>1. IInv => TallyFollowsBallots
  <2> SUFFICES ASSUME IInv, NEW p \in Proposals, NEW choice \in VoteChoices
               PROVE  /\ proposal[p].votes[choice] <= WeightFor(p, choice, Voters)
                      /\ proposal[p].votes[choice] < WeightFor(p, choice, Voters) => p \in stale
    BY DEF TallyFollowsBallots
  <2>1. PICK S \in SUBSET Voted(p) : proposal[p].votes = Tally(p, S)
    BY DEF IInv, CountInv, Backed
  <2>2. S \in SUBSET Voters
    BY <2>1 DEF Voted
  <2>3. proposal[p].votes[choice] = WeightFor(p, choice, S)
    BY <2>1 DEF Tally
  <2>4. /\ WeightFor(p, choice, S) <= WeightFor(p, choice, Voters)
        /\ WeightFor(p, choice, S) \in Nat /\ WeightFor(p, choice, Voters) \in Nat
    BY <2>2, Weights
  <2>5. p \notin stale => proposal[p].votes[choice] = WeightFor(p, choice, Voters)
    BY DEF IInv, CountInv, Tally
  <2> QED BY <2>3, <2>4, <2>5
<1> QED BY <1>1, Inductive, PTL

\* Mandates: whatever has passed was approved by the founder, or by a set of
\* votes on record that meets the quorum and the approval its kind asks for.
THEOREM PassedWithMandate == Spec => []PassedHasMandate
<1>1. IInv => PassedHasMandate
  <2> SUFFICES ASSUME IInv, NEW p \in Proposals, proposal[p].status = "passed",
                      proposal[p].decision # "approved"
               PROVE  \E S \in SUBSET Voters : Mandate(p, S)
    BY DEF PassedHasMandate
  <2>1. PICK S \in SUBSET Voted(p) : Carried(proposal[p].kind, Tally(p, S))
    BY DEF IInv, MandateInv, Warranted
  <2>2. S \in SUBSET Voters /\ proposal[p] \in Rows
    BY <2>1 DEF Voted, IInv, TypeInv, TypeOK
  <2>3. Mandate(p, S)
    BY <2>1, <2>2, CarriedIsMandate
  <2> QED BY <2>2, <2>3
<1> QED BY <1>1, Inductive, PTL
=============================================================================
