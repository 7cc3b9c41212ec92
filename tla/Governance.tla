---------------------------- MODULE Governance ----------------------------
(***************************************************************************)
(* node/governance.py: proposals, votes, finalization and veto.            *)
(*                                                                         *)
(* Every operation reads the proposal's row in one connection and writes   *)
(* in another, without the engine's lock: a vote adds to the tallies in    *)
(* place, finalize and veto replace the whole row by the one they read,    *)
(* with what they decided.  Any number of calls may be between the two.    *)
(*                                                                         *)
(* The votes' weights and the circulating supply are what the callers give *)
(* the engine; they are constants here.  Proposals are never deleted, and  *)
(* steering_committee, governance_log and NIP numbers decide nothing.      *)
(***************************************************************************)
EXTENDS Integers, FiniteSets, FiniteSetsExt, Functions

CONSTANTS
  Proposals, Nil,
  Voters, Weight,  \* who votes, and the OBY each of them votes with
  Callers,         \* threads that call the engine
  Supply           \* circulating OBY

ASSUME GovernanceAssumption ==
  /\ Weight \in [Voters -> Nat \ {0}] /\ Supply \in Nat \ {0}
  /\ Nil \notin Proposals /\ IsFiniteSet(Voters)

VARIABLES
  phase,    \* of the network's age: founder, community, committee
  proposal, \* the table of proposals
  ballots,  \* the table of votes: who voted for what
  over,     \* the proposals whose voting period has ended
  call,     \* what each caller has read and is about to write
  stale     \* for the properties: proposals that lost votes to an older row

vars == <<phase, proposal, ballots, over, call, stale>>

\* quorum_required and approval_required, in percent; a proposal that touches
\* the constitutional parameters is constitutional whatever its type
QuorumPct == [constitutional |-> 90, treasury |-> 25, steering |-> 15, routine |-> 15]
ApprovalPct == [constitutional |-> 90, treasury |-> 60, steering |-> 67, routine |-> 50]
Kinds == DOMAIN QuorumPct

VoteChoices == {"for", "against", "abstain"}
Overrides == {"none", "approved", "rejected"}
Absent == [status |-> "absent", kind |-> "routine", decision |-> "none",
           votes |-> [choice \in VoteChoices |-> 0]]
Returned == [at |-> "idle", proposal |-> Nil, voter |-> Nil, choice |-> Nil, row |-> Nil]

\* current_phase: after one year, and after two
Advance ==
  /\ phase < 3
  /\ phase' = phase + 1
  /\ UNCHANGED <<proposal, ballots, over, call, stale>>

EndVoting(p) ==
  /\ proposal[p].status # "absent" /\ p \notin over
  /\ over' = over \cup {p}
  /\ UNCHANGED <<phase, proposal, ballots, call, stale>>

\* create_proposal: what the founder decides alone is a draft, and stays one
Create(p, kind) ==
  /\ proposal[p].status = "absent"
  /\ proposal' = [proposal EXCEPT ![p].kind = kind,
       ![p].status = IF phase = 1 THEN "draft" ELSE "active"]
  /\ UNCHANGED <<phase, ballots, over, call, stale>>
---------------------------------------------------------------------------
(* cast_vote *)
MayVote(p, v) ==
  /\ proposal[p].status = "active" /\ p \notin over /\ phase # 1
  /\ ballots[p][v] = "none"

ReadForVote(c, p, v, choice) ==
  /\ call[c] = Returned
  /\ MayVote(p, v)
  /\ call' = [call EXCEPT ![c] = [Returned EXCEPT
       !.at = "vote", !.proposal = p, !.voter = v, !.choice = choice]]
  /\ UNCHANGED <<phase, proposal, ballots, over, stale>>

\* one transaction, which the UNIQUE constraint undoes for who has voted
NotYetAnything(p, v) == p \in Proposals /\ v \in Voters
NotYet(p, v) == ballots[p][v] = "none"

Vote(c) ==
  LET p == call[c].proposal
      v == call[c].voter
      choice == call[c].choice
  IN /\ call[c].at = "vote"
     /\ IF NotYet(p, v)
        THEN /\ ballots' = [ballots EXCEPT ![p][v] = choice]
             /\ proposal' = [proposal EXCEPT ![p].votes[choice] = @ + Weight[v]]
        ELSE UNCHANGED <<ballots, proposal>>
     /\ call' = [call EXCEPT ![c] = Returned]
     /\ UNCHANGED <<phase, over, stale>>
---------------------------------------------------------------------------
(* finalize_proposal: nothing asks for the status, or for the end of the vote *)
TotalVotes(row) == SumFunction(row.votes)

QuorumMetAny(row) == TotalVotes(row) > 0
QuorumMet(row) == 100 * TotalVotes(row) >= QuorumPct[row.kind] * Supply

\* abstentions count for the quorum only
Approved(row) ==
  LET cast == row.votes["for"] + row.votes["against"]
  IN cast > 0 /\ 100 * row.votes["for"] >= ApprovalPct[row.kind] * cast

ByFounder(row, override, otherwise) ==
  CASE override = "approved" -> [row EXCEPT !.status = "passed", !.decision = override]
    [] override = "rejected" -> [row EXCEPT !.status = "failed", !.decision = override]
    [] OTHER -> [row EXCEPT !.status = otherwise]

Finalized(row, override) ==
  IF phase = 1 THEN ByFounder(row, override, "draft")
  ELSE IF ~QuorumMet(row) THEN ByFounder(row, override, "no_quorum")
  ELSE [row EXCEPT !.status = IF Approved(row) THEN "passed" ELSE "failed"]

ReadToSave(c, p, row) ==
  /\ call[c] = Returned
  /\ proposal[p].status # "absent"
  /\ call' = [call EXCEPT ![c] = [Returned EXCEPT !.at = "save", !.proposal = p, !.row = row]]
  /\ UNCHANGED <<phase, proposal, ballots, over, stale>>

Finalize(c, p, override) == ReadToSave(c, p, Finalized(proposal[p], override))

\* apply_veto
VetoableAny(row) == row.status # "absent"
Vetoable(row) == row.kind = "constitutional"

Veto(c, p) ==
  /\ Vetoable(proposal[p])
  /\ ReadToSave(c, p, [proposal[p] EXCEPT !.status = "vetoed"])

\* _save_proposal: INSERT OR REPLACE
Save(c) ==
  LET p == call[c].proposal IN
  /\ call[c].at = "save"
  /\ proposal' = [proposal EXCEPT ![p] = call[c].row]
  /\ stale' = IF call[c].row.votes = proposal[p].votes THEN stale ELSE stale \cup {p}
  /\ call' = [call EXCEPT ![c] = Returned]
  /\ UNCHANGED <<phase, ballots, over>>
---------------------------------------------------------------------------
\* the process dies with its calls; both tables are on disk
Crash ==
  /\ \E c \in Callers : call[c] # Returned
  /\ call' = [c \in Callers |-> Returned]
  /\ UNCHANGED <<phase, proposal, ballots, over, stale>>

Init ==
  /\ phase = 1
  /\ proposal = [p \in Proposals |-> Absent]
  /\ ballots = [p \in Proposals |-> [v \in Voters |-> "none"]]
  /\ over = {} /\ stale = {}
  /\ call = [c \in Callers |-> Returned]

Next ==
  \/ Advance \/ Crash
  \/ \E p \in Proposals : EndVoting(p) \/ \E kind \in Kinds : Create(p, kind)
  \/ \E c \in Callers :
       \/ Vote(c) \/ Save(c)
       \/ \E p \in Proposals :
            \/ Veto(c, p)
            \/ \E v \in Voters, choice \in VoteChoices : ReadForVote(c, p, v, choice)
            \/ \E override \in Overrides : Finalize(c, p, override)

Spec == Init /\ [][Next]_vars
---------------------------------------------------------------------------
(***************************************************************************)
(* Properties                                                              *)
(***************************************************************************)
Statuses == {"absent", "draft", "active", "passed", "failed", "no_quorum", "vetoed"}
Rows == [status : Statuses, kind : Kinds, votes : [VoteChoices -> Nat], decision : Overrides]

\* Rows and calls have their shape, a proposal that was never created has no
\* votes, and only one that changes constitutional parameters is ever vetoed.
TypeOK ==
  /\ phase \in 1..3
  /\ proposal \in [Proposals -> Rows]
  /\ ballots \in [Proposals -> [Voters -> VoteChoices \cup {"none"}]]
  /\ over \subseteq Proposals /\ stale \subseteq Proposals
  /\ \A p \in Proposals :
       /\ proposal[p].status = "vetoed" => proposal[p].kind = "constitutional"
       /\ proposal[p].status = "absent" => \A v \in Voters : ballots[p][v] = "none"
  /\ \A c \in Callers :
       /\ call[c].at \in {"idle", "vote", "save"}
       /\ call[c].at = "vote" => call[c].voter \in Voters /\ call[c].choice \in VoteChoices
       /\ call[c].at = "save" => call[c].row \in Rows
       /\ call[c].at # "idle" => call[c].proposal \in Proposals

WeightFor(p, choice, S) ==
  SumFunctionOnSet(Weight, {v \in S : ballots[p][v] = choice})

\* The tallies are those of the votes on record, however many calls are on
\* their way.  Whatever a finalization or a veto of an older row takes away,
\* no vote is ever counted twice.
TallyFollowsBallots ==
  \A p \in Proposals : \A choice \in VoteChoices :
    LET counted == proposal[p].votes[choice]
        recorded == WeightFor(p, choice, Voters)
    IN counted <= recorded /\ (counted < recorded => p \in stale)

\* votes of S that meet quorum and approval
Mandate(p, S) ==
  LET row == [proposal[p] EXCEPT !.votes =
                [choice \in VoteChoices |-> WeightFor(p, choice, S)]]
  IN QuorumPct[row.kind] * Supply <= 100 * TotalVotes(row) /\ Approved(row)

\* A proposal passes by the founder's decision or by votes on record that meet
\* both of its thresholds, whatever was lost, vetoed, finalized again or cast
\* in the meantime.  A draft, on which nobody can vote, passes by the founder's
\* decision alone, in every phase.
PassedHasMandate ==
  \A p \in Proposals : proposal[p].status = "passed" =>
    proposal[p].decision = "approved" \/ \E S \in SUBSET Voters : Mandate(p, S)
===========================================================================
