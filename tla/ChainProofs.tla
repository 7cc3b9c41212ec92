----------------------------- MODULE ChainProofs -----------------------------
(***************************************************************************)
(* Proofs about module Chain: type correctness, that the DAG is closed     *)
(* under parents, that the outputs follow the DAG, why two confirmed       *)
(* transactions can spend the same output, and that an account claims once *)
(* per life of the process.                                                *)
(*                                                                         *)
(* The inductive invariant follows blocks and transactions through the     *)
(* threads: what each thread is working on, which of a block's             *)
(* transactions are applied so far, and what a snapshot has of all that.   *)
(***************************************************************************)
EXTENDS Chain, FiniteSetTheorems, TLAPS

BlockSteps == {"validate", "add", "apply", "clear"}
TxSteps == {"offer", "append", "record"}
Outcomes == [Outputs -> {"none", "unspent", "spent"}]

TypeInv ==
  /\ tx \in [Txs -> Transaction] /\ mined \in [Blocks -> Block]
  /\ dag \in SUBSET AllBlocks /\ utxo \in Outcomes /\ pool \in SUBSET Txs
  /\ thread \in [Threads -> Thread]
  /\ saver \in [at: {"idle", "utxos", "write"}, dag: SUBSET AllBlocks, utxo: Outcomes, torn: BOOLEAN]
  /\ disk \in State
  /\ faucet \in [claimed: SUBSET Accounts, keys: Nat]
  /\ ghost \in [raced: SUBSET Blocks, torn: BOOLEAN, saves: 0..MaxSaves, crashes: 0..MaxCrashes]

Built(t) == tx[t].owner # "none"
AtBlock(th) == thread[th].at \in BlockSteps
AtTx(th) == thread[th].at \in TxSteps

\* What each thread is working on.
WorksOn(th) ==
  LET s == thread[th] IN
  /\ AtBlock(th) => /\ s.block \in Blocks
                    /\ mined[s.block].status = IF th = "peer" THEN "public" ELSE "draft"
                    /\ (s.block \in dag) = (s.at \in {"apply", "clear"})
  /\ s.at = "apply" => s.todo \subseteq mined[s.block].txs
  /\ AtTx(th) => /\ s.tx \in Txs /\ Built(s.tx) /\ th # "miner"
                 /\ tx[s.tx].owner = "node" \/ s.at = "record" => th = "rpc"
  /\ s.at = "record" => tx[s.tx].owner = "node"
ThreadInv ==
  /\ \A th \in Threads : WorksOn(th)
  /\ AtBlock("miner") /\ AtBlock("rpc") => thread["miner"].block # thread["rpc"].block

\* Transactions are built from other ones, and only those that are built get anywhere.
TxInv ==
  /\ \A t \in Txs :
       IF Built(t) THEN /\ tx[t].in \in Outputs \ {t} /\ (tx[t].in \in Txs => Built(tx[t].in))
                        /\ tx[t].owner = "user" => tx[t].for = Nil
                        /\ tx[t].owner = "node" => tx[t].for \in Accounts
                   ELSE tx[t] = Unbuilt
  /\ \A t \in pool \cup disk.pool : Built(t)
  /\ \A b \in Blocks : \A t \in mined[b].txs : Built(t)
  /\ \A u \in {utxo, saver.utxo, disk.utxo} : \A t \in Txs : u[t] # "none" => Built(t)
  /\ faucet.keys <= Cardinality({t \in Txs : tx[t].owner = "node"})

\* A block that may still come to nothing is in nobody's DAG and nobody's past.
Fleeting(b) ==
  mined[b].status = "none" \/ \E th \in Drafting : thread[th].block = b
BlockInv ==
  /\ \A b \in Blocks : mined[b].status = "none" => mined[b] = Unmined
  /\ \A b \in Blocks : Fleeting(b) =>
       /\ b \notin dag \cup saver.dag \cup disk.dag
       /\ \A c \in Blocks : b \notin mined[c].past

Closed(S) == \A b \in S \ {Genesis} : Parents(b) \subseteq S
DagInv ==
  /\ \A S \in {dag, saver.dag, disk.dag} : Closed(S)
  /\ \A th \in Threads : thread[th].at = "add" => Parents(thread[th].block) \subseteq dag

\* A snapshot that is not torn was taken while nothing was added.
SaverInv ==
  saver.at # "idle" =>
    /\ saver.dag \subseteq dag
    /\ saver.at = "utxos" /\ ~saver.torn /\ saver.dag = dag => ~InApply

\* What the outputs say is what the transactions applied so far say, and what a
\* block spends was there when it was let in.
Pending(b, t) ==
  \E th \in Threads : thread[th].at = "apply" /\ thread[th].block = b /\ t \in thread[th].todo
Done(t) == \E b \in Confirming(dag, t) : ~Pending(b, t)
Entered == (dag \ {Genesis}) \cup {thread[th].block : th \in {x \in Threads : thread[x].at = "add"}}
SpendsKnown(u, S) == \A b \in S : \A t \in mined[b].txs : u[tx[t].in] # "none"
Follows ==
  /\ \A t \in Txs : (utxo[t] # "none") = Done(t)
  /\ \A o \in Outputs : utxo[o] = "spent" => \E t \in Txs : Done(t) /\ tx[t].in = o
  /\ \A t \in Txs : Done(t) /\ utxo[tx[t].in] = "unspent" => Doubled(dag, tx[t].in)
  /\ SpendsKnown(utxo, Entered)
Whole(u, S) == Replays(u, S) /\ SpendsKnown(u, S \ {Genesis})
ReplayInv ==
  /\ ~ghost.torn => Follows
  /\ saver.at = "write" /\ ~saver.torn /\ ~ghost.torn => Whole(saver.utxo, saver.dag)
  /\ ~disk.torn => Whole(disk.utxo, disk.dag)

\* Two blocks that spend the same output were raced, or the output had come back.
Excused(S, b, c) ==
  \A t \in mined[b].txs, u \in mined[c].txs :
    t # u /\ tx[t].in = tx[u].in => {b, c} \subseteq ghost.raced \/ Doubled(S, tx[t].in)
AllExcused(B, S) == \A b, c \in B : b # c => Excused(S, b, c)
ConflictInv ==
  /\ ~ghost.torn => AllExcused(Entered, dag)
  /\ saver.at # "idle" /\ ~ghost.torn => AllExcused(saver.dag \ {Genesis}, saver.dag)
  /\ ~disk.torn => AllExcused(disk.dag \ {Genesis}, disk.dag)

\* The payments to an account that are or may still come into the mempool or a block.
Live(t) ==
  \/ t \in pool \cup disk.pool \/ \E b \in Blocks : t \in mined[b].txs
  \/ thread["rpc"].at \in {"append", "record"} /\ thread["rpc"].tx = t
Payments(a) == {t \in Txs : tx[t].for = a /\ Live(t)}
Paying(a) == thread["rpc"].at \in {"append", "record"} /\ tx[thread["rpc"].tx].for = a
ClaimInv ==
  /\ \A a \in Accounts :
       /\ Cardinality(Payments(a)) <=
            ghost.crashes + (IF a \in faucet.claimed \/ Paying(a) THEN 1 ELSE 0)
       /\ a \in faucet.claimed /\ ghost.crashes = 0 =>
            \E t \in Txs : tx[t].for = a /\ (t \in pool \/ Confirmed(dag, t))
  /\ AtTx("rpc") => tx[thread["rpc"].tx].for \notin faucet.claimed
  /\ thread["rpc"].at = "record" =>
       thread["rpc"].tx \in pool \/ Confirmed(dag, thread["rpc"].tx)

IInv ==
  /\ TypeInv /\ ThreadInv /\ TxInv /\ BlockInv /\ DagInv
  /\ SaverInv /\ ReplayInv /\ ConflictInv /\ ClaimInv
----------------------------------------------------------------------------

\* The inductive invariant holds of an empty node.
LEMMA InitIInv == Init => IInv
<1> SUFFICES ASSUME Init PROVE IInv
  OBVIOUS
<1> USE ChainAssumption
<1>1. TypeInv
  <2>1. Unbuilt \in Transaction /\ Unmined \in Block /\ Idle \in Thread
    BY DEF Unbuilt, Unmined, Idle, Transaction, Block, Thread
  <2>2. Fresh \in Outcomes /\ {Genesis} \in SUBSET AllBlocks
    BY DEF Fresh, Outcomes, AllBlocks
  <2>3. 0 \in 0..MaxSaves /\ 0 \in 0..MaxCrashes
    BY BoundAssumption
  <2> HIDE DEF Fresh
  <2>4. saver \in [at: {"idle", "utxos", "write"}, dag: SUBSET AllBlocks, utxo: Outcomes, torn: BOOLEAN]
    BY <2>2 DEF Init
  <2>5. disk \in State /\ faucet \in [claimed: SUBSET Accounts, keys: Nat]
    BY <2>2 DEF Init, State, Outcomes
  <2>6. ghost \in [raced: SUBSET Blocks, torn: BOOLEAN, saves: 0..MaxSaves, crashes: 0..MaxCrashes]
    BY <2>3 DEF Init
  <2> QED BY <2>1, <2>2, <2>4, <2>5, <2>6 DEF Init, TypeInv
<1>2. ThreadInv
  BY DEF Init, ThreadInv, WorksOn, AtBlock, AtTx, BlockSteps, TxSteps, Idle, Threads
<1>3. TxInv
  <2>1. \A t \in Txs : ~Built(t) /\ tx[t] = Unbuilt /\ Fresh[t] = "none"
    BY DEF Init, Built, Unbuilt, Fresh, Outputs, Coins
  <2>2. 0 <= Cardinality({t \in Txs : tx[t].owner = "node"})
    <3>1. IsFiniteSet({t \in Txs : tx[t].owner = "node"})
      BY FS_Subset
    <3> QED BY <3>1, FS_CardinalityType
  <2> QED BY <2>1, <2>2 DEF Init, TxInv, Unmined
<1>4. BlockInv /\ DagInv /\ SaverInv
  BY DEF Init, BlockInv, Fleeting, Drafting, Unmined, DagInv, Closed, SaverInv, Idle, Threads
<1>5. ReplayInv
  <2>1. \A t : Confirming({Genesis}, t) = {}
    BY DEF Confirming
  <2>2. \A t \in Txs : Fresh[t] = "none"
    BY DEF Fresh, Outputs, Coins
  <2>3. \A o \in Outputs : Fresh[o] # "spent"
    BY DEF Fresh
  <2>4. Entered = {}
    BY DEF Init, Entered, Idle
  <2>5. Follows
    BY <2>1, <2>2, <2>3, <2>4 DEF Init, Follows, Done, SpendsKnown
  <2>6. Whole(Fresh, {Genesis})
    BY <2>1, <2>2, <2>3 DEF Whole, Replays, SpendsKnown, Confirmed
  <2> QED BY <2>5, <2>6 DEF Init, ReplayInv
<1>6. ConflictInv
  BY DEF Init, ConflictInv, AllExcused, Entered, Idle
<1>7. ClaimInv
  <2>1. \A a \in Accounts : Payments(a) = {}
    BY DEF Init, Payments, Live, Unbuilt, Idle, Unmined
  <2>2. thread["rpc"].at = "idle"
    BY DEF Init, Idle, Threads
  <2>3. Cardinality({}) = 0 /\ ghost.crashes = 0 /\ faucet.claimed = {}
    BY FS_EmptySet DEF Init
  <2> QED BY <2>1, <2>2, <2>3 DEF ClaimInv, AtTx, TxSteps, Paying
<1> QED BY <1>1, <1>2, <1>3, <1>4, <1>5, <1>6, <1>7 DEF IInv

\* Every step keeps the shapes of the state.
LEMMA StepTypeInv ==
  ASSUME TypeInv, ThreadInv, TxInv, [Next]_vars
  PROVE  TypeInv'
<1>1. /\ Idle \in Thread /\ Unmined \in Block
      /\ \A b \in Blocks : Handling(b) \in Thread
      /\ \A t \in Txs : Offering(t) \in Thread
      /\ \A s \in Thread, S \in SUBSET Txs :
           /\ [s EXCEPT !.at = "append"] \in Thread /\ [s EXCEPT !.at = "record"] \in Thread
           /\ [s EXCEPT !.at = "add"] \in Thread /\ [s EXCEPT !.at = "clear"] \in Thread
           /\ [s EXCEPT !.at = "apply", !.todo = S] \in Thread
      /\ \A s \in Thread, t \in Txs : [s EXCEPT !.todo = @ \ {t}] \in Thread
  BY DEF Idle, Unmined, Handling, Offering, Thread, Block
<1>2. \A b \in Blocks : mined[b].txs \in SUBSET Txs /\ mined[b] \in Block
  BY DEF TypeInv, Block
<1>3. \A th \in Threads :
        /\ thread[th] \in Thread
        /\ thread[th].at \in {"offer", "append", "record"} => thread[th].tx \in Txs
        /\ thread[th].at \in {"validate", "add", "apply", "clear"} => thread[th].block \in Blocks
  BY DEF TypeInv, ThreadInv, WorksOn, AtTx, AtBlock, TxSteps, BlockSteps
<1>4. "miner" \in Threads /\ "rpc" \in Threads /\ "peer" \in Threads
  BY DEF Threads
<1>5. ASSUME NEW t \in Txs, UserBuilds(t) PROVE TypeInv'
  <2>1. PICK o \in Outputs : tx' = [tx EXCEPT ![t] = [Unbuilt EXCEPT !.owner = "user", !.in = o]]
    BY <1>5 DEF UserBuilds, Spendable
  <2>2. [Unbuilt EXCEPT !.owner = "user", !.in = o] \in Transaction
    BY DEF Unbuilt, Transaction
  <2>3. tx' \in [Txs -> Transaction]
    BY <2>1, <2>2 DEF TypeInv
  <2> QED BY <1>5, <2>3 DEF UserBuilds, TypeInv
<1>6. ASSUME NEW t \in Txs, NEW a \in Accounts, Claim(t, a) PROVE TypeInv'
  <2>1. PICK o \in Outputs :
          tx' = [tx EXCEPT ![t] = [owner |-> "node", in |-> o, key |-> faucet.keys + 1, for |-> a]]
    BY <1>6 DEF Claim, Spendable
  <2>2. faucet.keys + 1 \in Nat
    BY DEF TypeInv
  <2>3. [owner |-> "node", in |-> o, key |-> faucet.keys + 1, for |-> a] \in Transaction
    BY <2>2 DEF Transaction
  <2>4. tx' \in [Txs -> Transaction]
    BY <2>1, <2>3 DEF TypeInv
  <2>5. faucet' \in [claimed: SUBSET Accounts, keys: Nat]
    BY <1>6, <2>2 DEF Claim, TypeInv
  <2>6. thread' \in [Threads -> Thread]
    <3>1. thread' = [thread EXCEPT !["rpc"] = Offering(t)]
      BY <1>6 DEF Claim
    <3> QED BY <1>1, <3>1 DEF TypeInv
  <2> QED BY <1>6, <2>4, <2>5, <2>6 DEF Claim, TypeInv
<1>7. ASSUME NEW th \in Threads, NEW t \in Txs, Offer(th, t) PROVE TypeInv'
  <2>1. thread' \in [Threads -> Thread]
    BY <1>1, <1>7 DEF Offer, TypeInv
  <2> QED BY <1>7, <2>1 DEF Offer, TypeInv
<1>8. ASSUME NEW th \in Threads, CheckOffer(th) PROVE TypeInv'
  <2>1. thread' \in [Threads -> Thread]
    BY <1>1, <1>8 DEF CheckOffer, TypeInv
  <2> QED BY <1>8, <2>1 DEF CheckOffer, TypeInv
<1>9. ASSUME NEW th \in Threads, Append(th) PROVE TypeInv'
  <2>1. thread' \in [Threads -> Thread]
    BY <1>1, <1>9 DEF Append, TypeInv
  <2>2. pool' \in SUBSET Txs
    BY <1>3, <1>9 DEF Append, TypeInv
  <2> QED BY <1>9, <2>1, <2>2 DEF Append, TypeInv
<1>10. ASSUME Record PROVE TypeInv'
  <2>1. thread' \in [Threads -> Thread]
    BY <1>1, <1>10 DEF Record, TypeInv
  <2>2. tx[thread["rpc"].tx].for \in Accounts
    <3>1. LET t == thread["rpc"].tx IN t \in Txs /\ Built(t) /\ tx[t].owner = "node"
      BY <1>4, <1>10 DEF Record, ThreadInv, WorksOn, AtTx, TxSteps
    <3> QED BY <3>1 DEF TxInv
  <2>3. faucet' \in [claimed: SUBSET Accounts, keys: Nat]
    BY <1>10, <2>2 DEF Record, TypeInv
  <2> QED BY <1>10, <2>1, <2>3 DEF Record, TypeInv
<1>11. ASSUME NEW th \in Threads, NEW b \in Blocks, Mine(th, b) PROVE TypeInv'
  <2>1. thread' \in [Threads -> Thread]
    BY <1>1, <1>11 DEF Mine, TypeInv
  <2>2. [status |-> "draft", past |-> dag, txs |-> pool] \in Block
    BY DEF TypeInv, Block
  <2>3. mined' \in [Blocks -> Block]
    BY <1>11, <2>2 DEF Mine, TypeInv
  <2> QED BY <1>11, <2>1, <2>3 DEF Mine, TypeInv
<1>12. ASSUME NEW b \in Blocks, PeerMines(b) PROVE TypeInv'
  <2>1. PICK past \in SUBSET Blocks, txs \in SUBSET Txs :
          mined' = [mined EXCEPT ![b] =
                      [status |-> "public", past |-> past \cup {Genesis}, txs |-> txs]]
    BY <1>12 DEF PeerMines
  <2>2. [status |-> "public", past |-> past \cup {Genesis}, txs |-> txs] \in Block
    BY DEF Block, AllBlocks
  <2>3. mined' \in [Blocks -> Block]
    BY <2>1, <2>2 DEF TypeInv
  <2> QED BY <1>12, <2>3 DEF PeerMines, TypeInv
<1>13. ASSUME NEW b \in Blocks, Receive(b) PROVE TypeInv'
  <2>1. thread' \in [Threads -> Thread]
    BY <1>1, <1>13 DEF Receive, TypeInv
  <2> QED BY <1>13, <2>1 DEF Receive, TypeInv
<1>14. ASSUME NEW th \in Threads, Validate(th) PROVE TypeInv'
  <2>1. thread' \in [Threads -> Thread]
    <3>1. \/ thread' = [thread EXCEPT ![th] = [@ EXCEPT !.at = "add"]]
          \/ thread' = [thread EXCEPT ![th] = Idle]
      BY <1>14 DEF Validate
    <3>2. [thread[th] EXCEPT !.at = "add"] \in Thread
      BY <1>3 DEF Thread
    <3> QED BY <1>1, <3>1, <3>2 DEF TypeInv
  <2>2. mined' \in [Blocks -> Block]
    BY <1>1, <1>14 DEF Validate, TypeInv
  <2>3. ghost' \in [raced: SUBSET Blocks, torn: BOOLEAN, saves: 0..MaxSaves, crashes: 0..MaxCrashes]
    <3> DEFINE R == {thread[th].block} \cup {thread[x].block : x \in Overlapping(th)}
    <3>1. R \in SUBSET Blocks
      BY <1>3, <1>14 DEF Validate, Overlapping
    <3>2. ghost' = ghost \/ ghost' = [ghost EXCEPT !.raced = @ \cup R]
      BY <1>14 DEF Validate
    <3> HIDE DEF R
    <3> QED BY <3>1, <3>2 DEF TypeInv
  <2> QED BY <1>14, <2>1, <2>2, <2>3 DEF Validate, TypeInv
<1>15. ASSUME NEW th \in Threads, Add(th) PROVE TypeInv'
  <2>1. thread' \in [Threads -> Thread]
    BY <1>1, <1>2, <1>3, <1>15 DEF Add, TypeInv
  <2>2. dag' \in SUBSET AllBlocks
    BY <1>3, <1>15 DEF Add, TypeInv, AllBlocks
  <2> QED BY <1>15, <2>1, <2>2 DEF Add, TypeInv
<1>16. ASSUME NEW th \in Threads, NEW t \in Txs, Apply(th, t) PROVE TypeInv'
  <2>1. thread' \in [Threads -> Thread]
    BY <1>1, <1>16 DEF Apply, TypeInv
  <2>2. utxo' \in Outcomes
    BY <1>16 DEF Apply, Applied, TypeInv, Outcomes
  <2> QED BY <1>16, <2>1, <2>2 DEF Apply, TypeInv
<1>17. ASSUME NEW th \in Threads, Applies(th) PROVE TypeInv'
  <2>1. thread' \in [Threads -> Thread]
    BY <1>1, <1>17 DEF Applies, TypeInv
  <2> QED BY <1>17, <2>1 DEF Applies, TypeInv
<1>18. ASSUME NEW th \in Threads, Clear(th) PROVE TypeInv'
  <2>1. thread' \in [Threads -> Thread]
    BY <1>1, <1>18 DEF Clear, TypeInv
  <2>2. \A b \in Blocks : [mined[b] EXCEPT !.status = "public"] \in Block
    BY <1>2 DEF Block
  <2>3. mined' \in [Blocks -> Block]
    BY <1>3, <1>18, <2>2 DEF Clear, TypeInv
  <2>4. pool' \in SUBSET Txs
    BY <1>18 DEF Clear, Kept, TypeInv
  <2> QED BY <1>18, <2>1, <2>3, <2>4 DEF Clear, TypeInv
<1>19. CASE Saver
  <2> DEFINE SaverType ==
        [at: {"idle", "utxos", "write"}, dag: SUBSET AllBlocks, utxo: Outcomes, torn: BOOLEAN]
  <2>1. CASE SaveBlocks
    <3>1. ghost.saves + 1 \in 0..MaxSaves
      BY <2>1, BoundAssumption DEF SaveBlocks, TypeInv
    <3>2. ghost' \in [raced: SUBSET Blocks, torn: BOOLEAN, saves: 0..MaxSaves, crashes: 0..MaxCrashes]
      BY <2>1, <3>1 DEF SaveBlocks, TypeInv
    <3>3. saver' \in SaverType
      BY <2>1 DEF SaveBlocks, TypeInv, InApply
    <3> QED BY <2>1, <3>2, <3>3 DEF SaveBlocks, TypeInv
  <2>2. CASE SaveUtxos
    <3>1. (saver.torn \/ dag # saver.dag) \in BOOLEAN
      BY DEF TypeInv
    <3>2. saver' \in SaverType
      BY <2>2, <3>1 DEF SaveUtxos, TypeInv
    <3> QED BY <2>2, <3>2 DEF SaveUtxos, TypeInv
  <2>3. CASE SaveWrites
    <3>1. (saver.torn \/ ghost.torn) \in BOOLEAN
      BY DEF TypeInv
    <3>2. disk' \in State
      BY <2>3, <3>1 DEF SaveWrites, TypeInv, State, Outcomes
    <3>3. saver' \in SaverType
      BY <2>3 DEF SaveWrites, TypeInv
    <3> QED BY <2>3, <3>2, <3>3 DEF SaveWrites, TypeInv
  <2> QED BY <1>19, <2>1, <2>2, <2>3 DEF Saver
<1>20. CASE Crash
  <2>1. disk.dag \in SUBSET AllBlocks /\ disk.utxo \in Outcomes /\ disk.pool \in SUBSET Txs
    BY DEF TypeInv, State, Outcomes
  <2>2. thread' \in [Threads -> Thread]
    BY <1>1, <1>20 DEF Crash
  <2>3. mined' \in [Blocks -> Block]
    BY <1>1, <1>2, <1>20 DEF Crash
  <2>4. disk.torn \in BOOLEAN /\ ghost.crashes + 1 \in 0..MaxCrashes
    BY <1>20, BoundAssumption DEF Crash, TypeInv, State
  <2>5. ghost' \in [raced: SUBSET Blocks, torn: BOOLEAN, saves: 0..MaxSaves, crashes: 0..MaxCrashes]
    BY <1>20, <2>4 DEF Crash, TypeInv
  <2>6. saver' \in [at: {"idle", "utxos", "write"}, dag: SUBSET AllBlocks, utxo: Outcomes, torn: BOOLEAN]
    BY <1>20 DEF Crash, TypeInv
  <2>7. faucet' \in [claimed: SUBSET Accounts, keys: Nat]
    BY <1>20 DEF Crash, TypeInv
  <2> QED BY <1>20, <2>1, <2>2, <2>3, <2>5, <2>6, <2>7 DEF Crash, TypeInv
<1>21. CASE UNCHANGED vars
  BY <1>21 DEF vars, TypeInv
<1> QED
  BY <1>4, <1>5, <1>6, <1>7, <1>8, <1>9, <1>10, <1>11, <1>12, <1>13, <1>14, <1>15, <1>16, <1>17,
     <1>18, <1>19, <1>20, <1>21 DEF Next, Miner, Rpc, Peer, Others, AddBlock, OfferSteps
----------------------------------------------------------------------------
(***************************************************************************)
(* What the steps do, point by point.                                      *)
(***************************************************************************)
KeptTxs == \A t \in Txs : Built(t) => tx'[t] = tx[t]
Same(b) == mined'[b].past = mined[b].past /\ mined'[b].txs = mined[b].txs
Alone(th) == \A x \in Threads : x # th => thread'[x] = thread[x]
\* thread th goes on with what it has
GoesOn(th, step) ==
  /\ thread'[th].at = step /\ thread'[th].block = thread[th].block
  /\ thread'[th].tx = thread[th].tx /\ thread'[th].todo = thread[th].todo

\* The steps of the node, one disjunct for each kind.
LEMMA Cases ==
  ASSUME [Next]_vars
  PROVE  \/ \E t \in Txs : UserBuilds(t) \/ \E a \in Accounts : Claim(t, a)
         \/ \E th \in Threads, t \in Txs : Offer(th, t)
         \/ \E th \in Threads : CheckOffer(th) \/ Append(th)
         \/ Record
         \/ \E b \in Blocks : (\E th \in Threads : Mine(th, b)) \/ PeerMines(b)
         \/ \E b \in Blocks : Receive(b)
         \/ \E th \in Threads : Validate(th)
         \/ \E th \in Threads : Add(th)
         \/ \E th \in Threads, t \in Txs : Apply(th, t)
         \/ \E th \in Threads : Applies(th)
         \/ \E th \in Threads : Clear(th)
         \/ Saver \/ Crash \/ UNCHANGED vars
<1>1. "miner" \in Threads /\ "rpc" \in Threads /\ "peer" \in Threads
  BY DEF Threads
<1> QED BY <1>1 DEF Next, Miner, Rpc, Peer, Others, AddBlock, OfferSteps

\* Where a thread is when it is idle, holds a block, or holds a transaction.
LEMMA Forms ==
  /\ Idle.at = "idle"
  /\ \A b : Handling(b).at = "validate" /\ Handling(b).block = b
  /\ \A t : Offering(t).at = "offer" /\ Offering(t).tx = t
BY DEF Idle, Handling, Offering

\* A thread that moves to the next step keeps the block or transaction it holds.
LEMMA Goes ==
  ASSUME TypeInv, NEW th \in Threads, NEW step, thread'[th] = [thread[th] EXCEPT !.at = step]
  PROVE  GoesOn(th, step)
<1>1. thread[th] \in Thread
  BY DEF TypeInv
<1> QED BY <1>1 DEF GoesOn, Thread

\* Mempool.add checks an offer and moves nothing but its thread.
LEMMA CheckOfferEffect ==
  ASSUME TypeInv, NEW th \in Threads, CheckOffer(th)
  PROVE  /\ thread[th].at = "offer" /\ Alone(th)
         /\ GoesOn(th, "append") \/ thread'[th] = Idle
         /\ UNCHANGED <<tx, mined, dag, utxo, pool, saver, disk, faucet, ghost>>
<1>1. thread'[th] = [thread[th] EXCEPT !.at = "append"] \/ thread'[th] = Idle
  BY DEF CheckOffer, TypeInv
<1>2. Alone(th)
  BY DEF CheckOffer, TypeInv, Alone
<1> QED BY <1>1, <1>2, Goes DEF CheckOffer

\* Mempool.add appends: a faucet payment goes on to be recorded, others are through.
LEMMA AppendEffect ==
  ASSUME TypeInv, NEW th \in Threads, Append(th)
  PROVE  /\ thread[th].at = "append" /\ Alone(th)
         /\ \/ GoesOn(th, "record") /\ tx[thread[th].tx].owner = "node"
            \/ thread'[th] = Idle /\ tx[thread[th].tx].owner # "node"
         /\ pool' = pool \cup {thread[th].tx}
         /\ UNCHANGED <<tx, mined, dag, utxo, saver, disk, faucet, ghost>>
<1>1. \/ /\ thread'[th] = [thread[th] EXCEPT !.at = "record"]
         /\ tx[thread[th].tx].owner = "node"
      \/ thread'[th] = Idle /\ tx[thread[th].tx].owner # "node"
  BY DEF Append, Records, TypeInv
<1>2. Alone(th)
  BY DEF Append, TypeInv, Alone
<1> QED BY <1>1, <1>2, Goes DEF Append

\* DAG.add_block validates: the block goes on, and races with every block in flight,
\* or it is dropped; a draft that is dropped is mined no more.
LEMMA ValidateEffect ==
  ASSUME TypeInv, NEW th \in Threads, Validate(th)
  PROVE  /\ thread[th].at = "validate" /\ Alone(th)
         /\ UNCHANGED <<tx, dag, utxo, pool, saver, disk, faucet>>
         /\ \/ /\ ValidBlock(thread[th].block) /\ GoesOn(th, "add") /\ mined' = mined
               /\ ghost'.torn = ghost.torn /\ ghost'.crashes = ghost.crashes
               /\ ghost.raced \subseteq ghost'.raced
               /\ \A x \in Overlapping(th) : {thread[th].block, thread[x].block} \subseteq ghost'.raced
            \/ /\ thread'[th] = Idle /\ ghost' = ghost
               /\ mined' = IF mined[thread[th].block].status = "draft"
                           THEN [mined EXCEPT ![thread[th].block] = Unmined] ELSE mined
<1> DEFINE R == {thread[th].block} \cup {thread[x].block : x \in Overlapping(th)}
<1>2. Alone(th)
  BY DEF Validate, TypeInv, Alone
<1>3. CASE ValidBlock(thread[th].block)
  <2>1. thread'[th] = [thread[th] EXCEPT !.at = "add"] /\ mined' = mined
    BY <1>3 DEF Validate, TypeInv
  <2>2. \/ ghost' = ghost /\ Overlapping(th) = {}
        \/ ghost' = [ghost EXCEPT !.raced = @ \cup R]
    BY <1>3 DEF Validate
  <2>3. /\ ghost'.torn = ghost.torn /\ ghost'.crashes = ghost.crashes
        /\ ghost.raced \subseteq ghost'.raced
        /\ Overlapping(th) # {} => R \subseteq ghost'.raced
    <3> HIDE DEF R
    <3> QED BY <2>2 DEF TypeInv
  <2>4. GoesOn(th, "add")
    BY <2>1, Goes
  <2> QED BY <1>2, <1>3, <2>1, <2>3, <2>4 DEF Validate
<1>4. CASE ~ValidBlock(thread[th].block)
  BY <1>2, <1>4 DEF Validate, TypeInv
<1> QED BY <1>3, <1>4

\* A block enters the DAG and its transactions are still to be applied.
LEMMA AddEffect ==
  ASSUME TypeInv, NEW th \in Threads, Add(th)
  PROVE  /\ thread[th].at = "add" /\ Alone(th)
         /\ thread'[th].at = "apply" /\ thread'[th].block = thread[th].block
         /\ thread'[th].todo = mined[thread[th].block].txs
         /\ dag' = dag \cup {thread[th].block}
         /\ UNCHANGED <<tx, mined, utxo, pool, saver, disk, faucet, ghost>>
<1>1. thread'[th] = [thread[th] EXCEPT !.at = "apply", !.todo = mined[thread[th].block].txs]
  BY DEF Add, TypeInv
<1>2. thread[th] \in Thread
  BY DEF TypeInv
<1>3. Alone(th)
  BY DEF Add, TypeInv, Alone
<1>4. /\ thread'[th].at = "apply" /\ thread'[th].block = thread[th].block
      /\ thread'[th].todo = mined[thread[th].block].txs
  BY <1>1, <1>2 DEF Thread
<1> QED BY <1>3, <1>4 DEF Add

\* UTXOSet.apply_transaction makes one output and spends one.
LEMMA ApplyEffect ==
  ASSUME TypeInv, NEW th \in Threads, NEW t \in Txs, Apply(th, t)
  PROVE  /\ thread[th].at = "apply" /\ t \in thread[th].todo /\ Alone(th)
         /\ thread'[th].at = "apply" /\ thread'[th].block = thread[th].block
         /\ thread'[th].todo = thread[th].todo \ {t}
         /\ utxo'[t] = "unspent"
         /\ tx[t].in \in Outputs \ {t} => utxo'[tx[t].in] = "spent"
         /\ \A o \in Outputs : o # t /\ o # tx[t].in => utxo'[o] = utxo[o]
         /\ UNCHANGED <<tx, mined, dag, pool, saver, disk, faucet, ghost>>
<1>1. thread'[th] = [thread[th] EXCEPT !.todo = @ \ {t}]
  BY DEF Apply, TypeInv
<1>2. thread[th] \in Thread
  BY DEF TypeInv
<1>3. Alone(th)
  BY DEF Apply, TypeInv, Alone
<1>4. utxo \in Outcomes /\ t \in Outputs
  BY DEF TypeInv, Outputs
<1>5. utxo' = [[utxo EXCEPT ![tx[t].in] = "spent"] EXCEPT ![t] = "unspent"]
  BY DEF Apply, Applied
<1>6. /\ thread'[th].at = thread[th].at /\ thread'[th].block = thread[th].block
      /\ thread'[th].todo = thread[th].todo \ {t}
  BY <1>1, <1>2 DEF Thread
<1>7. /\ utxo'[t] = "unspent"
      /\ tx[t].in \in Outputs \ {t} => utxo'[tx[t].in] = "spent"
      /\ \A o \in Outputs : o # t /\ o # tx[t].in => utxo'[o] = utxo[o]
  BY <1>4, <1>5 DEF Outcomes
<1> QED BY <1>3, <1>6, <1>7 DEF Apply

\* When every transaction is applied the thread turns to the mempool.
LEMMA AppliesEffect ==
  ASSUME TypeInv, NEW th \in Threads, Applies(th)
  PROVE  /\ thread[th].at = "apply" /\ thread[th].todo = {} /\ Alone(th) /\ GoesOn(th, "clear")
         /\ UNCHANGED <<tx, mined, dag, utxo, pool, saver, disk, faucet, ghost>>
<1>1. thread'[th] = [thread[th] EXCEPT !.at = "clear"]
  BY DEF Applies, TypeInv
<1>2. Alone(th)
  BY DEF Applies, TypeInv, Alone
<1> QED BY <1>1, <1>2, Goes DEF Applies

\* Mempool.remove takes the block's transactions out, and the thread is through.
LEMMA ClearEffect ==
  ASSUME TypeInv, NEW th \in Threads, Clear(th), thread[th].block \in Blocks
  PROVE  /\ thread[th].at = "clear" /\ Alone(th) /\ thread'[th] = Idle
         /\ pool' = pool \ mined[thread[th].block].txs
         /\ \A b \in Blocks : /\ b # thread[th].block => mined'[b] = mined[b]
                              /\ Same(b)
         /\ mined'[thread[th].block].status = "public"
         /\ UNCHANGED <<tx, dag, utxo, saver, disk, faucet, ghost>>
<1>1. Alone(th) /\ thread'[th] = Idle
  BY DEF Clear, TypeInv, Alone
<1>2. \A b \in Blocks : mined[b] \in Block
  BY DEF TypeInv
<1>3. mined' = [mined EXCEPT ![thread[th].block].status = "public"]
  BY DEF Clear
<1>4. mined'[thread[th].block] = [mined[thread[th].block] EXCEPT !.status = "public"]
  BY <1>3 DEF TypeInv
<1>5. \A b \in Blocks : b # thread[th].block => mined'[b] = mined[b]
  BY <1>3 DEF TypeInv
<1>6. Same(thread[th].block) /\ mined'[thread[th].block].status = "public"
  BY <1>2, <1>4 DEF Same, Block
<1>7. \A b \in Blocks : Same(b)
  BY <1>5, <1>6 DEF Same
<1> QED BY <1>1, <1>5, <1>6, <1>7 DEF Clear, Kept

\* mining makes a block of what the miner has
LEMMA MinesEffect ==
  ASSUME TypeInv, NEW b \in Blocks
  PROVE  /\ \A th \in Threads : Mine(th, b) =>
              /\ thread[th].at = "idle" /\ th # "peer" /\ Alone(th) /\ thread'[th] = Handling(b)
              /\ mined'[b] = [status |-> "draft", past |-> dag, txs |-> pool]
         /\ PeerMines(b) =>
              /\ thread' = thread
              /\ mined'[b].status = "public"
              /\ \A c \in mined'[b].past \ {Genesis} : c \in Blocks /\ mined[c].status = "public"
              /\ mined'[b].txs \subseteq {t \in Txs : tx[t].owner = "user"}
         /\ (\E th \in Threads : Mine(th, b)) \/ PeerMines(b) =>
              /\ mined[b].status = "none" /\ \A c \in Blocks : c # b => mined'[c] = mined[c]
              /\ UNCHANGED <<tx, dag, utxo, pool, saver, disk, faucet, ghost>>
<1>1. ASSUME NEW th \in Threads, Mine(th, b)
      PROVE  /\ thread[th].at = "idle" /\ th # "peer" /\ Alone(th) /\ thread'[th] = Handling(b)
             /\ mined'[b] = [status |-> "draft", past |-> dag, txs |-> pool]
             /\ mined[b].status = "none" /\ \A c \in Blocks : c # b => mined'[c] = mined[c]
             /\ UNCHANGED <<tx, dag, utxo, pool, saver, disk, faucet, ghost>>
  BY <1>1 DEF Mine, TypeInv, Alone
<1>2. ASSUME PeerMines(b)
      PROVE  /\ thread' = thread
             /\ mined'[b].status = "public"
             /\ \A c \in mined'[b].past \ {Genesis} : c \in Blocks /\ mined[c].status = "public"
             /\ mined'[b].txs \subseteq {t \in Txs : tx[t].owner = "user"}
             /\ mined[b].status = "none" /\ \A c \in Blocks : c # b => mined'[c] = mined[c]
             /\ UNCHANGED <<tx, dag, utxo, pool, saver, disk, faucet, ghost>>
  <2>1. PICK past \in SUBSET {c \in Blocks : mined[c].status = "public"},
             txs \in SUBSET {t \in Txs : tx[t].owner = "user"} :
          mined' = [mined EXCEPT ![b] =
                      [status |-> "public", past |-> past \cup {Genesis}, txs |-> txs]]
    BY <1>2 DEF PeerMines
  <2>2. /\ mined'[b] = [status |-> "public", past |-> past \cup {Genesis}, txs |-> txs]
        /\ \A c \in Blocks : c # b => mined'[c] = mined[c]
    BY <2>1 DEF TypeInv
  <2> QED BY <1>2, <2>2 DEF PeerMines
<1> QED BY <1>1, <1>2

\* building fills in a transaction that was not there, from an unspent output
LEMMA BuildsEffect ==
  ASSUME TypeInv, NEW t \in Txs, UserBuilds(t) \/ \E a \in Accounts : Claim(t, a)
  PROVE  /\ tx[t].owner = "none" /\ \A u \in Txs : u # t => tx'[u] = tx[u]
         /\ tx'[t].in \in Outputs /\ utxo[tx'[t].in] = "unspent"
         /\ UNCHANGED <<mined, dag, utxo, pool, saver, disk, ghost>>
         /\ \/ /\ tx'[t].owner = "user" /\ tx'[t].for = Nil /\ thread' = thread
               /\ faucet' = faucet
            \/ /\ tx'[t].owner = "node" /\ tx'[t].for \in Accounts \ faucet.claimed
               /\ thread["rpc"].at = "idle" /\ Alone("rpc") /\ thread'["rpc"] = Offering(t)
               /\ faucet'.claimed = faucet.claimed /\ faucet'.keys = faucet.keys + 1
<1>1. CASE UserBuilds(t)
  <2>1. PICK o \in Outputs : /\ utxo[o] = "unspent"
                             /\ tx' = [tx EXCEPT ![t] = [Unbuilt EXCEPT !.owner = "user", !.in = o]]
    BY <1>1 DEF UserBuilds, Spendable, Unspent
  <2>2. tx'[t] = [Unbuilt EXCEPT !.owner = "user", !.in = o] /\ \A u \in Txs : u # t => tx'[u] = tx[u]
    BY <2>1 DEF TypeInv
  <2>3. tx'[t].owner = "user" /\ tx'[t].for = Nil /\ tx'[t].in = o
    BY <2>2 DEF Unbuilt
  <2>4. /\ tx[t].owner = "none"
        /\ UNCHANGED <<mined, dag, utxo, pool, thread, saver, disk, faucet, ghost>>
    BY <1>1 DEF UserBuilds
  <2> QED BY <2>1, <2>2, <2>3, <2>4
<1>2. CASE \E a \in Accounts : Claim(t, a)
  <2>1. PICK a \in Accounts, o \in Outputs :
          /\ Claim(t, a) /\ utxo[o] = "unspent"
          /\ tx' = [tx EXCEPT ![t] =
                      [owner |-> "node", in |-> o, key |-> faucet.keys + 1, for |-> a]]
    BY <1>2 DEF Claim, Spendable, Unspent
  <2>2. /\ tx'[t] = [owner |-> "node", in |-> o, key |-> faucet.keys + 1, for |-> a]
        /\ \A u \in Txs : u # t => tx'[u] = tx[u]
    BY <2>1 DEF TypeInv
  <2>3. thread'["rpc"] = Offering(t) /\ Alone("rpc")
    BY <2>1 DEF Claim, TypeInv, Threads, Alone
  <2>4. faucet'.claimed = faucet.claimed /\ faucet'.keys = faucet.keys + 1
    BY <2>1 DEF Claim, TypeInv
  <2>5. /\ tx[t].owner = "none" /\ thread["rpc"].at = "idle" /\ a \notin faucet.claimed
        /\ UNCHANGED <<mined, dag, utxo, pool, saver, disk, ghost>>
    BY <2>1 DEF Claim, MayClaim
  <2>6. tx'[t].owner = "node" /\ tx'[t].in = o /\ tx'[t].for = a
    BY <2>2
  <2> QED BY <2>1, <2>2, <2>3, <2>4, <2>5, <2>6
<1> QED BY <1>1, <1>2

\* the other steps of the threads
LEMMA BeginEffect ==
  ASSUME TypeInv
  PROVE  /\ \A th \in Threads, t \in Txs : Offer(th, t) =>
              /\ thread[th].at = "idle" /\ th # "miner" /\ tx[t].owner = "user"
              /\ Alone(th) /\ thread'[th] = Offering(t)
              /\ UNCHANGED <<tx, mined, dag, utxo, pool, saver, disk, faucet, ghost>>
         /\ \A b \in Blocks : Receive(b) =>
              /\ thread["peer"].at = "idle" /\ mined[b].status = "public" /\ b \notin dag
              /\ Alone("peer") /\ thread'["peer"] = Handling(b)
              /\ UNCHANGED <<tx, mined, dag, utxo, pool, saver, disk, faucet, ghost>>
         /\ Record =>
              /\ thread["rpc"].at = "record" /\ Alone("rpc") /\ thread'["rpc"] = Idle
              /\ faucet'.claimed = faucet.claimed \cup {tx[thread["rpc"].tx].for}
              /\ faucet'.keys = faucet.keys
              /\ UNCHANGED <<tx, mined, dag, utxo, pool, saver, disk, ghost>>
<1>1. ASSUME NEW th \in Threads, NEW t \in Txs, Offer(th, t)
      PROVE  /\ thread[th].at = "idle" /\ th # "miner" /\ tx[t].owner = "user"
             /\ Alone(th) /\ thread'[th] = Offering(t)
             /\ UNCHANGED <<tx, mined, dag, utxo, pool, saver, disk, faucet, ghost>>
  BY <1>1 DEF Offer, TypeInv, Alone
<1>2. ASSUME NEW b \in Blocks, Receive(b)
      PROVE  /\ thread["peer"].at = "idle" /\ mined[b].status = "public" /\ b \notin dag
             /\ Alone("peer") /\ thread'["peer"] = Handling(b)
             /\ UNCHANGED <<tx, mined, dag, utxo, pool, saver, disk, faucet, ghost>>
  BY <1>2 DEF Receive, TypeInv, Alone, Threads
<1>3. ASSUME Record
      PROVE  /\ thread["rpc"].at = "record" /\ Alone("rpc") /\ thread'["rpc"] = Idle
             /\ faucet'.claimed = faucet.claimed \cup {tx[thread["rpc"].tx].for}
             /\ faucet'.keys = faucet.keys
             /\ UNCHANGED <<tx, mined, dag, utxo, pool, saver, disk, ghost>>
  BY <1>3 DEF Record, TypeInv, Alone, Threads
<1> QED BY <1>1, <1>2, <1>3

\* A crash: what was saved is loaded, every thread is idle, a block in flight is lost.
LEMMA CrashEffect ==
  ASSUME Crash, TypeInv
  PROVE  /\ dag' = disk.dag /\ utxo' = disk.utxo /\ pool' = disk.pool
         /\ \A th \in Threads : thread'[th] = Idle
         /\ saver'.at = "idle" /\ saver'.dag = saver.dag /\ saver'.utxo = saver.utxo
         /\ faucet'.keys = 0 /\ faucet'.claimed = faucet.claimed
         /\ \A b \in Blocks : mined'[b] = IF \E th \in Drafting : thread[th].block = b
                                         THEN Unmined ELSE mined[b]
         /\ ghost'.torn = disk.torn /\ ghost'.raced = ghost.raced
         /\ ghost'.crashes = ghost.crashes + 1
         /\ tx' = tx /\ disk' = disk
BY DEF Crash, TypeInv

\* The three steps of a save: the blocks, the outputs, the file.
LEMMA SaveEffect ==
  ASSUME TypeInv
  PROVE  /\ SaveBlocks =>
              /\ saver.at = "idle" /\ saver'.at = "utxos" /\ saver'.dag = dag /\ saver'.utxo = utxo
              /\ saver'.torn = InApply /\ disk' = disk
         /\ SaveUtxos =>
              /\ saver.at = "utxos" /\ saver'.at = "write" /\ saver'.dag = saver.dag /\ saver'.utxo = utxo
              /\ saver'.torn = (saver.torn \/ dag # saver.dag) /\ disk' = disk
         /\ SaveWrites =>
              /\ saver.at = "write" /\ saver'.at = "idle"
              /\ saver'.dag = saver.dag /\ saver'.utxo = saver.utxo
              /\ disk' = [dag |-> saver.dag, utxo |-> saver.utxo, pool |-> pool,
                          torn |-> saver.torn \/ ghost.torn]
         /\ Saver => /\ UNCHANGED <<tx, mined, dag, utxo, pool, thread, faucet>>
                     /\ ghost'.raced = ghost.raced /\ ghost'.torn = ghost.torn
                     /\ ghost'.crashes = ghost.crashes
                     /\ saver'.dag \in {saver.dag, dag} /\ disk'.dag \in {disk.dag, saver.dag}
<1>1. SaveBlocks => /\ saver'.at = "utxos" /\ saver'.dag = dag /\ saver'.utxo = utxo
                   /\ saver'.torn = InApply
                   /\ ghost'.raced = ghost.raced /\ ghost'.torn = ghost.torn
                   /\ ghost'.crashes = ghost.crashes
  BY DEF SaveBlocks, TypeInv
<1>2. SaveUtxos => /\ saver'.at = "write" /\ saver'.dag = saver.dag /\ saver'.utxo = utxo
                  /\ saver'.torn = (saver.torn \/ dag # saver.dag)
  BY DEF SaveUtxos, TypeInv
<1>3. SaveWrites => saver'.at = "idle" /\ saver'.dag = saver.dag /\ saver'.utxo = saver.utxo
  BY DEF SaveWrites, TypeInv
<1>4. SaveWrites => disk'.dag = saver.dag
  BY DEF SaveWrites
<1> QED BY <1>1, <1>2, <1>3, <1>4 DEF Saver, SaveBlocks, SaveUtxos, SaveWrites

\* No two threads work on the same block.
LEMMA Apart ==
  ASSUME ThreadInv, NEW x \in Threads, NEW y \in Threads, x # y, AtBlock(x), AtBlock(y)
  PROVE  thread[x].block # thread[y].block
BY DEF ThreadInv, WorksOn, Threads

\* A thread that does not move goes on with what it works on, whatever the others do.
LEMMA StillWorksOn ==
  ASSUME NEW x \in Threads, WorksOn(x), thread'[x] = thread[x],
         AtTx(x) => tx'[thread[x].tx] = tx[thread[x].tx],
         AtBlock(x) => LET b == thread[x].block IN
           /\ mined'[b].status = mined[b].status /\ mined'[b].txs = mined[b].txs
           /\ b \in dag' <=> b \in dag
  PROVE  WorksOn(x)'
<1>1. AtBlock(x)' = AtBlock(x) /\ AtTx(x)' = AtTx(x)
  BY DEF AtBlock, AtTx
<1>2. AtTx(x) => Built(thread[x].tx)' = Built(thread[x].tx)
  BY DEF Built
<1>3. thread[x].at = "apply" => AtBlock(x)
  BY DEF AtBlock, BlockSteps
<1>4. thread[x].at = "record" => AtTx(x)
  BY DEF AtTx, TxSteps
<1> QED BY <1>1, <1>2, <1>3, <1>4 DEF WorksOn

\* Every thread goes on holding what its place says it holds.
LEMMA StepThreadInv ==
  ASSUME TypeInv, ThreadInv, TxInv, BlockInv, [Next]_vars
  PROVE  ThreadInv'
<1> USE DEF AtBlock, AtTx, BlockSteps, TxSteps
<1>1. /\ "miner" \in Threads /\ "rpc" \in Threads /\ "peer" \in Threads
      /\ \A x \in Threads : x \in {"miner", "rpc", "peer"}
  BY DEF Threads
<1>2. \A x \in Threads : WorksOn(x)
  BY DEF ThreadInv
\* steps that move one thread and touch no block that another works on
<1>3. ASSUME NEW th \in Threads, Alone(th), WorksOn(th)',
             \A x \in Threads : x # th /\ AtTx(x) => tx'[thread[x].tx] = tx[thread[x].tx],
             \A x \in Threads : x # th /\ AtBlock(x) => LET b == thread[x].block IN
               /\ mined'[b].status = mined[b].status /\ mined'[b].txs = mined[b].txs
               /\ b \in dag' <=> b \in dag,
             \/ thread'[th].block = thread[th].block /\ AtBlock(th)
             \/ ~AtBlock(th)'
             \/ th = "peer"
             \/ mined[thread'[th].block].status = "none"
      PROVE  ThreadInv'
  <2>1. \A x \in Threads : WorksOn(x)'
    <3> SUFFICES ASSUME NEW x \in Threads, x # th PROVE WorksOn(x)'
      BY <1>3
    <3>1. thread'[x] = thread[x]
      BY <1>3 DEF Alone
    <3> HIDE DEF AtBlock, AtTx
    <3> QED BY <1>2, <1>3, <3>1, StillWorksOn
  <2>2. AtBlock("miner")' /\ AtBlock("rpc")' => thread'["miner"].block # thread'["rpc"].block
    <3>1. \A x \in Threads : x # th => thread'[x] = thread[x]
      BY <1>3 DEF Alone
    <3>2. \A x \in Threads : AtBlock(x) /\ x # "peer" => mined[thread[x].block].status = "draft"
      BY <1>2 DEF WorksOn
    <3> QED BY <1>1, <1>3, <3>1, <3>2 DEF ThreadInv
  <2> QED BY <2>1, <2>2 DEF ThreadInv
<1>4. ASSUME NEW t \in Txs, UserBuilds(t) \/ \E a \in Accounts : Claim(t, a) PROVE ThreadInv'
  <2>1. /\ tx[t].owner = "none" /\ \A u \in Txs : u # t => tx'[u] = tx[u]
        /\ UNCHANGED <<mined, dag>>
    BY <1>4, BuildsEffect
  <2>2. \A x \in Threads : AtTx(x) => tx'[thread[x].tx] = tx[thread[x].tx]
    BY <1>2, <2>1 DEF WorksOn, Built
  <2>3. CASE thread' = thread
    <3>1. \A x \in Threads : WorksOn(x)'
      <4> HIDE DEF AtBlock, AtTx
      <4> QED BY <1>2, <2>1, <2>2, <2>3, StillWorksOn
    <3> QED BY <2>3, <3>1 DEF ThreadInv
  <2>4. CASE /\ tx'[t].owner = "node" /\ thread["rpc"].at = "idle"
             /\ Alone("rpc") /\ thread'["rpc"] = Offering(t)
    <3>1. WorksOn("rpc")'
      BY <2>4, Forms DEF WorksOn, Built
    <3> QED BY <1>1, <1>3, <2>1, <2>2, <2>4, <3>1, Forms
  <2> QED BY <1>4, <2>3, <2>4, BuildsEffect
<1>5. ASSUME NEW th \in Threads, NEW t \in Txs, Offer(th, t) PROVE ThreadInv'
  <2>1. /\ th # "miner" /\ tx[t].owner = "user" /\ Alone(th) /\ thread'[th] = Offering(t)
        /\ UNCHANGED <<tx, mined, dag>>
    BY <1>5, BeginEffect
  <2>2. WorksOn(th)'
    BY <2>1, Forms DEF WorksOn, Built
  <2> QED BY <1>3, <2>1, <2>2, Forms
<1>6. ASSUME NEW th \in Threads, CheckOffer(th) \/ Append(th) PROVE ThreadInv'
  <2>1. /\ thread[th].at \in {"offer", "append"} /\ Alone(th)
        /\ \/ GoesOn(th, "append")
           \/ GoesOn(th, "record") /\ tx[thread[th].tx].owner = "node"
           \/ thread'[th] = Idle
        /\ UNCHANGED <<tx, mined, dag>>
    BY <1>6, CheckOfferEffect, AppendEffect
  <2>2. WorksOn(th)'
    BY <1>2, <2>1, Forms DEF WorksOn, GoesOn, Built
  <2> QED BY <1>3, <2>1, <2>2, Forms DEF GoesOn
<1>7. ASSUME Record PROVE ThreadInv'
  <2>1. Alone("rpc") /\ thread'["rpc"] = Idle /\ UNCHANGED <<tx, mined, dag>>
    BY <1>7, BeginEffect
  <2>2. WorksOn("rpc")'
    BY <2>1, Forms DEF WorksOn
  <2> QED BY <1>1, <1>3, <2>1, <2>2, Forms
<1>8. ASSUME NEW th \in Threads, NEW b \in Blocks, Mine(th, b) PROVE ThreadInv'
  <2>1. /\ th # "peer" /\ Alone(th) /\ thread'[th] = Handling(b)
        /\ mined'[b].status = "draft" /\ mined[b].status = "none"
        /\ \A c \in Blocks : c # b => mined'[c] = mined[c]
        /\ UNCHANGED <<tx, dag>>
    BY <1>8, MinesEffect
  <2>2. b \notin dag
    BY <2>1 DEF BlockInv, Fleeting
  <2>3. WorksOn(th)'
    BY <2>1, <2>2, Forms DEF WorksOn
  <2>4. \A x \in Threads : AtBlock(x) => thread[x].block \in Blocks \ {b}
    BY <1>2, <2>1 DEF WorksOn
  <2> QED BY <1>3, <2>1, <2>3, <2>4, Forms
<1>9. ASSUME NEW b \in Blocks, PeerMines(b) PROVE ThreadInv'
  <2>1. /\ thread' = thread /\ mined[b].status = "none" /\ UNCHANGED <<tx, dag>>
        /\ \A c \in Blocks : c # b => mined'[c] = mined[c]
    BY <1>9, MinesEffect
  <2>2. \A x \in Threads : AtBlock(x) => thread[x].block \in Blocks \ {b}
    BY <1>2, <2>1 DEF WorksOn
  <2>3. \A x \in Threads : WorksOn(x)'
    <3> HIDE DEF AtBlock, AtTx
    <3> QED BY <1>2, <2>1, <2>2, StillWorksOn
  <2> QED BY <2>1, <2>3 DEF ThreadInv
<1>10. ASSUME NEW b \in Blocks, Receive(b) PROVE ThreadInv'
  <2>1. /\ Alone("peer") /\ thread'["peer"] = Handling(b) /\ UNCHANGED <<tx, mined, dag>>
        /\ mined[b].status = "public" /\ b \notin dag
    BY <1>10, BeginEffect
  <2>2. WorksOn("peer")'
    BY <2>1, Forms DEF WorksOn
  <2> QED BY <1>1, <1>3, <2>1, <2>2
<1>11. ASSUME NEW th \in Threads, Validate(th) PROVE ThreadInv'
  <2> DEFINE b == thread[th].block
  <2>1. thread[th].at = "validate" /\ Alone(th) /\ UNCHANGED <<tx, dag>>
    BY <1>11, ValidateEffect
  <2>2. b \in Blocks /\ \A x \in Threads : x # th /\ AtBlock(x) => thread[x].block \in Blocks \ {b}
    <3>1. AtBlock(th)
      BY <2>1
    <3>2. \A x \in Threads : AtBlock(x) => thread[x].block \in Blocks
      BY <1>2 DEF WorksOn
    <3> HIDE DEF AtBlock
    <3> QED BY <3>1, <3>2, Apart
  <2>3. CASE GoesOn(th, "add") /\ mined' = mined
    <3>1. WorksOn(th)'
      BY <1>2, <2>1, <2>3 DEF WorksOn, GoesOn
    <3> QED BY <1>3, <2>1, <2>3, <3>1 DEF GoesOn
  <2>4. CASE thread'[th] = Idle /\ \A c \in Blocks : c # b => mined'[c] = mined[c]
    <3>1. WorksOn(th)'
      BY <2>4, Forms DEF WorksOn
    <3> QED BY <1>3, <2>1, <2>2, <2>4, <3>1, Forms
  <2>5. \/ GoesOn(th, "add") /\ mined' = mined
        \/ thread'[th] = Idle /\ \A c \in Blocks : c # b => mined'[c] = mined[c]
    <3>1. \/ GoesOn(th, "add") /\ mined' = mined
          \/ thread'[th] = Idle /\ mined' \in {mined, [mined EXCEPT ![b] = Unmined]}
      BY <1>11, ValidateEffect
    <3> HIDE DEF b
    <3> QED BY <3>1 DEF TypeInv
  <2> QED BY <2>3, <2>4, <2>5
<1>12. ASSUME NEW th \in Threads, Add(th) PROVE ThreadInv'
  <2> DEFINE b == thread[th].block
  <2>1. /\ thread[th].at = "add" /\ Alone(th) /\ thread'[th].at = "apply"
        /\ thread'[th].block = b /\ thread'[th].todo = mined[b].txs
        /\ dag' = dag \cup {b} /\ UNCHANGED <<tx, mined>>
    BY <1>12, AddEffect
  <2>2. \A x \in Threads : x # th /\ AtBlock(x) => thread[x].block # b
    <3>1. AtBlock(th)
      BY <2>1
    <3> HIDE DEF AtBlock
    <3> QED BY <3>1, Apart
  <2>3. WorksOn(th)'
    BY <1>2, <2>1 DEF WorksOn
  <2> HIDE DEF b
  <2> QED BY <1>3, <2>1, <2>2, <2>3 DEF b
<1>13. ASSUME NEW th \in Threads, Applies(th) \/ \E t \in Txs : Apply(th, t) PROVE ThreadInv'
  <2>1. /\ thread[th].at = "apply" /\ Alone(th) /\ thread'[th].at \in {"apply", "clear"}
        /\ thread'[th].block = thread[th].block /\ thread'[th].todo \subseteq thread[th].todo
        /\ UNCHANGED <<tx, mined, dag>>
    BY <1>13, AppliesEffect, ApplyEffect DEF GoesOn
  <2>2. WorksOn(th)'
    BY <1>2, <2>1 DEF WorksOn
  <2> QED BY <1>3, <2>1, <2>2
<1>14. ASSUME NEW th \in Threads, Clear(th) PROVE ThreadInv'
  <2> DEFINE b == thread[th].block
  <2>1. thread[th].at = "clear" /\ AtBlock(th) /\ b \in Blocks
    BY <1>2, <1>14 DEF WorksOn, Clear
  <2>2. /\ Alone(th) /\ thread'[th] = Idle /\ UNCHANGED <<tx, dag>>
        /\ \A c \in Blocks : c # b => mined'[c] = mined[c]
    BY <1>14, <2>1, ClearEffect
  <2>3. \A x \in Threads : x # th /\ AtBlock(x) => thread[x].block \in Blocks \ {b}
    <3>1. \A x \in Threads : AtBlock(x) => thread[x].block \in Blocks
      BY <1>2 DEF WorksOn
    <3> HIDE DEF AtBlock
    <3> QED BY <2>1, <3>1, Apart
  <2>4. WorksOn(th)'
    BY <2>2, Forms DEF WorksOn
  <2> QED BY <1>3, <2>2, <2>3, <2>4, Forms
<1>15. CASE Crash
  <2>1. \A x \in Threads : thread'[x].at = "idle"
    BY <1>15, CrashEffect, Forms
  <2> QED BY <1>1, <2>1 DEF ThreadInv, WorksOn
<1>16. CASE UNCHANGED <<tx, mined, dag, thread>>
  <2>1. \A x \in Threads : WorksOn(x)'
    BY <1>2, <1>16, StillWorksOn
  <2> QED BY <1>16, <2>1 DEF ThreadInv
<1>17. Saver \/ UNCHANGED vars => UNCHANGED <<tx, mined, dag, thread>>
  BY DEF Saver, SaveBlocks, SaveUtxos, SaveWrites, vars
<1> QED
  BY <1>1, <1>4, <1>5, <1>6, <1>7, <1>8, <1>9, <1>10, <1>11, <1>12, <1>13, <1>14, <1>15, <1>16,
     <1>17, Cases

\* A transaction is built once.
LEMMA StepKeepsTxs == ASSUME TypeInv, [Next]_vars PROVE KeptTxs
<1>1. ASSUME NEW t \in Txs, UserBuilds(t) \/ \E a \in Accounts : Claim(t, a) PROVE KeptTxs
  BY <1>1, BuildsEffect DEF KeptTxs, Built
<1>2. (\E t \in Txs : UserBuilds(t) \/ \E a \in Accounts : Claim(t, a)) \/ tx' = tx
  BY Cases DEF Validate, Add, Apply, Applies, Clear, CheckOffer, Append, Offer, Mine, Receive, PeerMines,
               Record, Saver, SaveBlocks, SaveUtxos, SaveWrites, Crash, vars
<1> QED BY <1>1, <1>2 DEF KeptTxs

\* No block is lost, and none changes, unless it may come to nothing; and no block is
\* put on top of one that may.
KeepsBlocks ==
  /\ \A b \in Blocks : Fleeting(b)' => Fleeting(b)
  /\ \A b \in Blocks : ~Fleeting(b) => Same(b)
  /\ \A th \in Threads : thread[th].at = "add" /\ thread'[th].at \in {"add", "apply"} =>
       Same(thread[th].block)
  /\ \A b, c \in Blocks : Fleeting(b) => b \notin mined'[c].past
  /\ \A b \in Blocks : mined'[b].status = "none" => mined'[b] = Unmined

\* A block that has left the thread that drafted it is what it was for ever.
LEMMA StepKeepsBlocks ==
  ASSUME TypeInv, ThreadInv, BlockInv, [Next]_vars
  PROVE  KeepsBlocks
<1> USE DEF KeepsBlocks
<1>1. /\ "miner" \in Threads /\ "rpc" \in Threads /\ "peer" \in Threads
      /\ Drafting = {th \in Threads \ {"peer"} : thread[th].at \in {"validate", "add"}}
      /\ Drafting' = {th \in Threads \ {"peer"} : thread'[th].at \in {"validate", "add"}}
  BY DEF Threads, Drafting
<1>2. /\ \A b, c \in Blocks : Fleeting(b) => b \notin mined[c].past /\ b \notin dag
      /\ \A b \in Blocks : mined[b].status = "none" => mined[b] = Unmined
  BY DEF BlockInv
<1>3. \A th \in Threads : thread[th].at \in {"validate", "add", "apply", "clear"} =>
        thread[th].block \in Blocks /\ mined[thread[th].block].status =
          IF th = "peer" THEN "public" ELSE "draft"
  BY DEF ThreadInv, WorksOn, AtBlock, BlockSteps
<1>4. \A b \in Blocks : Fleeting(b) => mined[b].status # "public"
  BY <1>1, <1>3 DEF Fleeting
\* steps that leave the blocks alone
<1>5. ASSUME mined' = mined,
             \A x \in Threads \ {"peer"} : thread'[x].at \in {"validate", "add"} =>
               thread[x].at \in {"validate", "add"} /\ thread'[x].block = thread[x].block
      PROVE  KeepsBlocks
  <2>1. \A b \in Blocks : Fleeting(b)' => Fleeting(b)
    BY <1>1, <1>5 DEF Fleeting
  <2> QED BY <1>2, <1>5, <2>1 DEF Same
<1>6. ASSUME NEW t \in Txs, UserBuilds(t) \/ \E a \in Accounts : Claim(t, a) PROVE KeepsBlocks
  BY <1>5, <1>6, BuildsEffect, Forms DEF Alone
<1>7. ASSUME NEW th \in Threads, CheckOffer(th) \/ Append(th) PROVE KeepsBlocks
  BY <1>5, <1>7, CheckOfferEffect, AppendEffect, Forms DEF Alone, GoesOn
<1>8. ASSUME NEW th \in Threads, NEW t \in Txs, Offer(th, t) PROVE KeepsBlocks
  BY <1>5, <1>8, BeginEffect, Forms DEF Alone
<1>9. ASSUME NEW b \in Blocks, Receive(b) PROVE KeepsBlocks
  BY <1>5, <1>9, BeginEffect DEF Alone
<1>10. ASSUME Record PROVE KeepsBlocks
  BY <1>5, <1>10, BeginEffect, Forms DEF Alone
<1>11. ASSUME NEW th \in Threads, Add(th) \/ Applies(th) \/ \E t \in Txs : Apply(th, t) PROVE KeepsBlocks
  BY <1>5, <1>11, AddEffect, ApplyEffect, AppliesEffect DEF Alone, GoesOn
<1>12. CASE Saver \/ UNCHANGED vars
  <2>1. mined' = mined /\ thread' = thread
    BY <1>12 DEF Saver, SaveBlocks, SaveUtxos, SaveWrites, vars
  <2> QED BY <1>5, <2>1
<1>13. ASSUME NEW th \in Threads, Validate(th) PROVE KeepsBlocks
  <2> DEFINE b == thread[th].block
  <2>1. thread[th].at = "validate" /\ Alone(th) /\ b \in Blocks
    BY <1>3, <1>13, ValidateEffect
  <2>2. CASE GoesOn(th, "add") /\ mined' = mined
    BY <1>5, <2>1, <2>2 DEF Alone, GoesOn
  <2>3. CASE thread'[th] = Idle /\ mined' = mined
    BY <1>5, <2>1, <2>3, Forms DEF Alone
  <2>4. CASE /\ thread'[th] = Idle /\ mined[b].status = "draft"
             /\ mined' = [mined EXCEPT ![b] = Unmined]
    <3>1. mined'[b] = Unmined /\ \A c \in Blocks : c # b => mined'[c] = mined[c]
      BY <2>1, <2>4 DEF TypeInv
    <3>2. Fleeting(b) /\ th # "peer"
      BY <1>1, <1>3, <2>1, <2>4 DEF Fleeting
    <3>3. \A c \in Blocks : Fleeting(c)' => Fleeting(c)
      BY <1>1, <2>1, <2>4, <3>1, <3>2, Forms DEF Fleeting, Alone
    <3>4. \A c \in Blocks : ~Fleeting(c) => Same(c)
      BY <3>1, <3>2 DEF Same
    <3>5. \A x \in Threads : thread[x].at = "add" => thread[x].block \in Blocks \ {b}
      BY <1>3, <2>1, Apart DEF AtBlock, BlockSteps
    <3>6. Unmined.past = {}
      BY DEF Unmined
    <3> HIDE DEF b
    <3> QED BY <1>2, <3>1, <3>3, <3>4, <3>5, <3>6 DEF Same
  <2> QED BY <1>13, <2>2, <2>3, <2>4, ValidateEffect
<1>14. ASSUME NEW th \in Threads, Clear(th) PROVE KeepsBlocks
  <2>1. thread[th].at = "clear" /\ thread[th].block \in Blocks
    BY <1>3, <1>14 DEF Clear
  <2>2. /\ Alone(th) /\ thread'[th] = Idle /\ \A c \in Blocks : Same(c)
        /\ mined'[thread[th].block].status = "public"
        /\ \A c \in Blocks : c # thread[th].block => mined'[c] = mined[c]
    BY <1>14, <2>1, ClearEffect
  <2>3. \A c \in Blocks : Fleeting(c)' => Fleeting(c)
    BY <1>1, <2>2, Forms DEF Fleeting, Alone
  <2> QED BY <1>2, <1>3, <2>2, <2>3 DEF Same
<1>15. ASSUME NEW b \in Blocks, (\E th \in Threads : Mine(th, b)) \/ PeerMines(b) PROVE KeepsBlocks
  <2>1. mined[b].status = "none" /\ \A c \in Blocks : c # b => mined'[c] = mined[c]
    BY <1>15, MinesEffect
  <2>2. mined'[b].status # "none" /\ \A c \in Blocks : Fleeting(c) => c \notin mined'[b].past
    <3>1. CASE \E th \in Threads : Mine(th, b)
      <4>1. mined'[b] = [status |-> "draft", past |-> dag, txs |-> pool]
        BY <3>1, MinesEffect
      <4> QED BY <1>2, <4>1
    <3>2. CASE PeerMines(b)
      <4>1. /\ mined'[b].status = "public"
            /\ \A c \in mined'[b].past \ {Genesis} : mined[c].status = "public"
        BY <3>2, MinesEffect
      <4> QED BY <1>4, <4>1, ChainAssumption
    <3> QED BY <1>15, <3>1, <3>2
  <2>3. \A c \in Blocks : Fleeting(c)' => Fleeting(c)
    <3>1. \A x \in Threads : thread'[x] = thread[x] \/ thread'[x] = Handling(b)
      BY <1>15, MinesEffect DEF Alone
    <3> QED BY <1>1, <2>1, <3>1, Forms DEF Fleeting
  <2>4. Fleeting(b)
    BY <2>1 DEF Fleeting
  <2>5. \A x \in Threads : thread[x].at = "add" => thread[x].block \in Blocks \ {b}
    BY <1>3, <2>1
  <2> QED BY <1>2, <2>1, <2>2, <2>3, <2>4, <2>5 DEF Same
<1>16. CASE Crash
  <2>1. /\ \A x \in Threads : thread'[x].at = "idle"
        /\ \A b \in Blocks : mined'[b] = IF \E th \in Drafting : thread[th].block = b
                                       THEN Unmined ELSE mined[b]
    BY <1>16, CrashEffect, Forms
  <2>2. \A b \in Blocks : Fleeting(b)' => Fleeting(b)
    BY <1>1, <2>1 DEF Fleeting, Unmined
  <2>3. \A b \in Blocks : ~Fleeting(b) => mined'[b] = mined[b]
    BY <2>1 DEF Fleeting
  <2>4. \A c \in Blocks : mined'[c] = Unmined \/ mined'[c] = mined[c]
    BY <2>1
  <2> QED BY <1>2, <2>1, <2>2, <2>3, <2>4 DEF Same, Unmined
<1> HIDE DEF KeepsBlocks
<1> QED
  BY <1>6, <1>7, <1>8, <1>9, <1>10, <1>11, <1>12, <1>13, <1>14, <1>15, <1>16, Cases

\* What is in a DAG or behind a block is no draft.
LEMMA StepBlockInv ==
  ASSUME TypeInv, ThreadInv, BlockInv, ThreadInv', [Next]_vars
  PROVE  BlockInv'
<1>1. /\ \A b \in Blocks : Fleeting(b)' => Fleeting(b)
      /\ \A b, c \in Blocks : Fleeting(b) => b \notin mined'[c].past
      /\ \A b \in Blocks : mined'[b].status = "none" => mined'[b] = Unmined
  BY StepKeepsBlocks DEF KeepsBlocks
<1>2. \/ UNCHANGED <<dag, saver, disk>>
      \/ \E th \in Threads : Add(th)
      \/ Saver \/ Crash
  BY Cases DEF Validate, Apply, Applies, Clear, CheckOffer, Append, Offer, Mine, Receive, PeerMines,
               Record, UserBuilds, Claim, vars
<1>3. ASSUME NEW b \in Blocks, Fleeting(b)' PROVE b \notin dag' \cup saver'.dag \cup disk'.dag
  <2>1. b \notin dag /\ b \notin saver.dag /\ b \notin disk.dag
    BY <1>1, <1>3 DEF BlockInv
  <2>2. CASE UNCHANGED <<dag, saver, disk>>
    BY <2>1, <2>2
  <2>3. ASSUME NEW th \in Threads, Add(th) PROVE b \notin dag' \cup saver'.dag \cup disk'.dag
    <3>1. /\ thread[th].at = "add" /\ thread'[th].at = "apply" /\ thread'[th].block = thread[th].block
          /\ dag' = dag \cup {thread[th].block} /\ Alone(th) /\ UNCHANGED <<saver, disk, mined>>
      BY <2>3, AddEffect
    <3>2. thread[th].block # b
      <4> SUFFICES ASSUME thread[th].block = b PROVE FALSE
        OBVIOUS
      <4>1. mined'[b].status # "none" /\ AtBlock(th)'
        BY <3>1 DEF ThreadInv, WorksOn, AtBlock, BlockSteps
      <4>2. PICK x \in Drafting' : thread'[x].block = b
        BY <1>3, <4>1 DEF Fleeting
      <4>3. x \in Threads /\ AtBlock(x)' /\ x # th
        BY <3>1, <4>2 DEF Drafting, Threads, AtBlock, BlockSteps
      <4>4. AtBlock(x) /\ AtBlock(th) /\ thread[x].block = b
        BY <3>1, <4>2, <4>3 DEF Alone, AtBlock, BlockSteps
      <4> QED BY <4>3, <4>4, Apart
    <3> QED BY <2>1, <3>1, <3>2
  <2>4. CASE Saver
    <3>1. dag' = dag /\ saver'.dag \in {saver.dag, dag} /\ disk'.dag \in {disk.dag, saver.dag}
      BY <2>4, SaveEffect
    <3> QED BY <2>1, <3>1
  <2>5. CASE Crash
    BY <2>1, <2>5, CrashEffect
  <2> QED BY <1>2, <2>2, <2>3, <2>4, <2>5
<1> QED BY <1>1, <1>3 DEF BlockInv

\* What is in the mempool, a block or a DAG has been built.
LEMMA StepTxInv ==
  ASSUME TypeInv, ThreadInv, TxInv, TypeInv', [Next]_vars
  PROVE  TxInv'
<1>0. \A t \in Txs : Built(t) => Built(t)'
  BY StepKeepsTxs DEF KeptTxs, Built
<1>1. \A th \in Threads : thread[th].at \in {"validate", "add", "apply", "clear"} =>
        thread[th].block \in Blocks
  BY DEF ThreadInv, WorksOn, AtBlock, BlockSteps
<1>2. /\ \A t \in pool \cup disk.pool : t \in Txs /\ Built(t)
      /\ \A b \in Blocks : \A t \in mined[b].txs : t \in Txs /\ Built(t)
      /\ \A u \in {utxo, saver.utxo, disk.utxo} : \A t \in Txs : u[t] # "none" => Built(t)
  <2>1. disk.pool \subseteq Txs /\ \A b \in Blocks : mined[b].txs \subseteq Txs
    BY DEF TypeInv, State, Block
  <2> QED BY <2>1 DEF TypeInv, TxInv
\* what is in the mempool, in blocks or in the UTXO set is built
<1>3. ASSUME \A t \in pool' : t \in pool \cup disk.pool \/ Built(t),
             disk'.pool \subseteq pool \cup disk.pool,
             \A b \in Blocks : \A t \in mined'[b].txs : t \in mined[b].txs \/ t \in pool \/ Built(t),
             \A t \in Txs : utxo'[t] # "none" => Built(t),
             \A t \in Txs : saver'.utxo[t] # "none" => Built(t),
             \A t \in Txs : disk'.utxo[t] # "none" => Built(t)
      PROVE  /\ \A t \in (pool \cup disk.pool)' : Built(t)'
             /\ \A b \in Blocks : \A t \in mined'[b].txs : Built(t)'
             /\ \A u \in {utxo', saver'.utxo, disk'.utxo} : \A t \in Txs : u[t] # "none" => Built(t)'
  <2>1. \A t \in (pool \cup disk.pool)' : t \in Txs
    BY DEF TypeInv, State
  <2>2. \A b \in Blocks : mined'[b].txs \subseteq Txs
    BY DEF TypeInv, Block
  <2> QED BY <1>0, <1>2, <1>3, <2>1, <2>2
<1>4. ASSUME tx' = tx, faucet'.keys \in {0, faucet.keys},
             \A t \in pool' : t \in pool \cup disk.pool \/ Built(t),
             disk'.pool \subseteq pool \cup disk.pool,
             \A b \in Blocks : \A t \in mined'[b].txs : t \in mined[b].txs \/ t \in pool \/ Built(t),
             \A t \in Txs : utxo'[t] # "none" => Built(t),
             \A t \in Txs : saver'.utxo[t] # "none" => Built(t),
             \A t \in Txs : disk'.utxo[t] # "none" => Built(t)
      PROVE  TxInv'
  <2>1. \A t \in Txs : Built(t)' = Built(t)
    BY <1>4 DEF Built
  <2>2. Cardinality({t \in Txs : tx[t].owner = "node"}) \in Nat
    BY ChainAssumption, FS_Subset, FS_CardinalityType
  <2>3. /\ \A t \in (pool \cup disk.pool)' : Built(t)'
        /\ \A b \in Blocks : \A t \in mined'[b].txs : Built(t)'
        /\ \A u \in {utxo', saver'.utxo, disk'.utxo} : \A t \in Txs : u[t] # "none" => Built(t)'
    BY <1>3, <1>4
  <2>4. \A t \in Txs :
          IF Built(t)' THEN /\ tx'[t].in \in Outputs \ {t} /\ (tx'[t].in \in Txs => Built(tx[t].in)')
                            /\ tx'[t].owner = "user" => tx'[t].for = Nil
                            /\ tx'[t].owner = "node" => tx'[t].for \in Accounts
                       ELSE tx'[t] = Unbuilt
    BY <1>4, <2>1 DEF TxInv
  <2>5. faucet'.keys <= Cardinality({t \in Txs : tx'[t].owner = "node"})
    BY <1>4, <2>2 DEF TxInv
  <2> QED BY <2>3, <2>4, <2>5 DEF TxInv
<1>5. ASSUME NEW t \in Txs, UserBuilds(t) \/ \E a \in Accounts : Claim(t, a) PROVE TxInv'
  <2>1. /\ tx[t].owner = "none" /\ \A u \in Txs : u # t => tx'[u] = tx[u]
        /\ tx'[t].in \in Outputs /\ utxo[tx'[t].in] = "unspent"
        /\ UNCHANGED <<mined, utxo, pool, saver, disk>>
        /\ \/ /\ tx'[t].owner = "user" /\ tx'[t].for = Nil /\ faucet'.keys = faucet.keys
           \/ /\ tx'[t].owner = "node" /\ tx'[t].for \in Accounts /\ faucet'.keys = faucet.keys + 1
    BY <1>5, BuildsEffect
  <2>2. ~Built(t) /\ utxo[t] = "none"
    BY <1>2, <2>1 DEF Built
  <2>3. tx'[t].in # t /\ (tx'[t].in \in Txs => Built(tx'[t].in))
    BY <1>2, <2>1, <2>2
  <2>4. tx'[t].in \in Txs => Built(tx[t].in)'
    BY <2>1, <2>2, <2>3 DEF Built
  <2>5. \A u \in Txs :
          IF Built(u)' THEN /\ tx'[u].in \in Outputs \ {u} /\ (tx'[u].in \in Txs => Built(tx[u].in)')
                            /\ tx'[u].owner = "user" => tx'[u].for = Nil
                            /\ tx'[u].owner = "node" => tx'[u].for \in Accounts
                       ELSE tx'[u] = Unbuilt
    <3> SUFFICES ASSUME NEW u \in Txs, u # t
                 PROVE  IF Built(u)' THEN /\ tx'[u].in \in Outputs \ {u} /\ (tx'[u].in \in Txs => Built(tx[u].in)')
                                          /\ tx'[u].owner = "user" => tx'[u].for = Nil
                                          /\ tx'[u].owner = "node" => tx'[u].for \in Accounts
                                     ELSE tx'[u] = Unbuilt
      BY <2>1, <2>3, <2>4 DEF Built
    <3>1. tx'[u] = tx[u] /\ Built(u)' = Built(u)
      BY <2>1 DEF Built
    <3>2. tx[u].in \in Txs /\ Built(tx[u].in) => tx'[tx[u].in].owner # "none"
      BY <1>0 DEF Built
    <3>3. Built(u) => /\ tx[u].in \in Outputs \ {u}
                      /\ tx[u].in \in Txs => tx'[tx'[u].in].owner # "none"
                      /\ tx[u].owner = "user" => tx[u].for = Nil
                      /\ tx[u].owner = "node" => tx[u].for \in Accounts
      BY <3>1, <3>2 DEF TxInv
    <3>4. ~Built(u) => tx[u] = Unbuilt
      BY DEF TxInv
    <3> QED BY <3>1, <3>3, <3>4 DEF Built
  <2>6. faucet'.keys <= Cardinality({u \in Txs : tx'[u].owner = "node"})
    <3> DEFINE N == {u \in Txs : tx[u].owner = "node"}
               M == {u \in Txs : tx'[u].owner = "node"}
    <3>1. IsFiniteSet(N) /\ Cardinality(N) \in Nat /\ t \notin N
      BY <2>1, ChainAssumption, FS_Subset, FS_CardinalityType
    <3>2. CASE tx'[t].owner = "user"
      <4>1. \A u \in Txs : (tx'[u].owner = "node") = (tx[u].owner = "node")
        BY <2>1, <3>2
      <4>2. M = N
        BY <4>1
      <4>3. faucet'.keys = faucet.keys
        BY <2>1, <3>2
      <4> QED BY <4>2, <4>3 DEF TxInv
    <3>3. CASE tx'[t].owner = "node"
      <4>1. M = N \cup {t}
        BY <2>1, <3>3
      <4>2. Cardinality(N \cup {t}) = Cardinality(N) + 1
        <5> HIDE DEF N
        <5> QED BY <3>1, FS_AddElement
      <4>3. faucet'.keys = faucet.keys + 1 /\ faucet.keys <= Cardinality(N) /\ faucet.keys \in Nat
        BY <2>1, <3>3 DEF TxInv, TypeInv
      <4>4. faucet'.keys <= Cardinality(M)
        <5> HIDE DEF N, M
        <5> QED BY <3>1, <4>1, <4>2, <4>3
      <4> QED BY <4>4
    <3> QED BY <2>1, <3>2, <3>3
  <2>7. /\ \A u \in (pool \cup disk.pool)' : Built(u)'
        /\ \A b \in Blocks : \A u \in mined'[b].txs : Built(u)'
        /\ \A u \in {utxo', saver'.utxo, disk'.utxo} : \A v \in Txs : u[v] # "none" => Built(v)'
    <3>1. /\ utxo' = utxo /\ saver'.utxo = saver.utxo /\ disk'.utxo = disk.utxo /\ mined' = mined
          /\ pool' = pool /\ disk'.pool = disk.pool
      BY <2>1
    <3> QED BY <1>2, <1>3, <3>1
  <2> QED BY <2>5, <2>6, <2>7 DEF TxInv
<1>6. CASE UNCHANGED <<tx, mined, utxo, saver, disk>> /\ faucet'.keys = faucet.keys
           /\ \A t \in pool' : t \in pool \cup disk.pool \/ Built(t)
  BY <1>2, <1>4, <1>6
<1>7. ASSUME NEW b \in Blocks, (\E th \in Threads : Mine(th, b)) \/ PeerMines(b) PROVE TxInv'
  <2>1. /\ \A c \in Blocks : c # b => mined'[c] = mined[c]
        /\ UNCHANGED <<tx, utxo, pool, saver, disk, faucet>>
    BY <1>7, MinesEffect
  <2>2. CASE \E th \in Threads : Mine(th, b)
    <3>1. mined'[b] = [status |-> "draft", past |-> dag, txs |-> pool]
      BY <2>2, MinesEffect
    <3> QED BY <1>2, <1>4, <2>1, <3>1
  <2>3. CASE PeerMines(b)
    <3>1. \A t \in mined'[b].txs : tx[t].owner = "user"
      BY <2>3, MinesEffect
    <3>2. \A t \in mined'[b].txs : Built(t)
      BY <3>1 DEF Built
    <3> QED BY <1>2, <1>4, <2>1, <3>2
  <2> QED BY <1>7, <2>2, <2>3
<1>8. ASSUME NEW th \in Threads, Validate(th) PROVE TxInv'
  <2>1. UNCHANGED <<tx, utxo, pool, saver, disk, faucet>> /\ thread[th].block \in Blocks
    BY <1>1, <1>8, ValidateEffect
  <2>2. mined' \in {mined, [mined EXCEPT ![thread[th].block] = Unmined]}
    BY <1>8, ValidateEffect
  <2>3. \A c \in Blocks : mined'[c] \in {mined[c], Unmined}
    BY <2>1, <2>2 DEF TypeInv
  <2>4. Unmined.txs = {}
    BY DEF Unmined
  <2> QED BY <1>2, <1>4, <2>1, <2>3, <2>4
<1>9. ASSUME NEW th \in Threads, NEW t \in Txs, Apply(th, t) PROVE TxInv'
  <2>1. /\ t \in thread[th].todo /\ thread[th].at = "apply"
        /\ \A o \in Outputs : o # t /\ o # tx[t].in => utxo'[o] = utxo[o]
        /\ UNCHANGED <<tx, mined, pool, saver, disk, faucet>>
    BY <1>9, ApplyEffect
  <2>2. Built(t)
    <3>1. t \in mined[thread[th].block].txs /\ thread[th].block \in Blocks
      BY <1>1, <2>1 DEF ThreadInv, WorksOn
    <3> QED BY <1>2, <3>1
  <2>3. tx[t].in \in Txs => Built(tx[t].in)
    BY <2>2 DEF TxInv
  <2>4. \A u \in Txs : utxo'[u] # "none" => Built(u)
    BY <1>2, <2>1, <2>2, <2>3 DEF Outputs
  <2> QED BY <1>2, <1>4, <2>1, <2>4
<1>10. ASSUME NEW th \in Threads, Clear(th) PROVE TxInv'
  <2>1. thread[th].block \in Blocks
    BY <1>1, <1>10 DEF Clear
  <2>2. /\ \A b \in Blocks : mined'[b].txs = mined[b].txs
        /\ pool' \subseteq pool /\ UNCHANGED <<tx, utxo, saver, disk, faucet>>
    BY <1>10, <2>1, ClearEffect DEF Same
  <2> QED BY <1>2, <1>4, <2>2
<1>11. ASSUME Saver PROVE TxInv'
  <2>1. UNCHANGED <<tx, mined, utxo, pool, faucet>>
    BY <1>11, SaveEffect
  <2>2. CASE SaveWrites
    <3>1. /\ saver'.utxo = saver.utxo /\ disk'.utxo = saver.utxo /\ disk'.pool = pool
      BY <2>2, SaveEffect
    <3> QED BY <1>2, <1>4, <2>1, <3>1
  <2>3. CASE SaveBlocks \/ SaveUtxos
    <3>1. saver'.utxo = utxo /\ disk' = disk
      BY <2>3, SaveEffect
    <3> QED BY <1>2, <1>4, <2>1, <3>1
  <2> QED BY <1>11, <2>2, <2>3 DEF Saver
<1>12. CASE Crash
  <2>1. /\ utxo' = disk.utxo /\ pool' = disk.pool /\ faucet'.keys = 0 /\ tx' = tx /\ disk' = disk
        /\ saver'.utxo = saver.utxo
        /\ \A c \in Blocks : mined'[c] \in {mined[c], Unmined}
    BY <1>12, CrashEffect
  <2>2. Unmined.txs = {}
    BY DEF Unmined
  <2> QED BY <1>2, <1>4, <2>1, <2>2
<1>13. ASSUME NEW th \in Threads, CheckOffer(th) \/ Append(th) PROVE TxInv'
  <2>1. thread[th].at = "append" => Built(thread[th].tx)
    BY DEF ThreadInv, WorksOn, AtTx, TxSteps
  <2> QED BY <1>6, <1>13, <2>1, CheckOfferEffect, AppendEffect
<1>14. ASSUME NEW th \in Threads, Add(th) \/ Applies(th) \/ \E t \in Txs : Offer(th, t) PROVE TxInv'
  BY <1>6, <1>14, AddEffect, AppliesEffect, BeginEffect
<1>15. Record \/ UNCHANGED vars \/ (\E b \in Blocks : Receive(b)) => TxInv'
  BY <1>6, BeginEffect DEF vars
<1> QED BY <1>5, <1>7, <1>8, <1>9, <1>10, <1>11, <1>12, <1>13, <1>14, <1>15, Cases
----------------------------------------------------------------------------
(***************************************************************************)
(* The DAG and its snapshots.                                              *)
(***************************************************************************)
\* How the DAG, its snapshots and the outputs change.
LEMMA DagSteps ==
  ASSUME [Next]_vars
  PROVE  \/ UNCHANGED <<dag, saver, disk, utxo>>
         \/ \E th \in Threads : Add(th)
         \/ \E th \in Threads, t \in Txs : Apply(th, t)
         \/ Saver \/ Crash
BY Cases DEF Validate, Applies, Clear, CheckOffer, Append, Offer, Mine, Receive, PeerMines,
             Record, UserBuilds, Claim, vars

\* How a thread gets to adding a block and to applying its transactions.
LEMMA Moves ==
  ASSUME TypeInv, [Next]_vars, NEW x \in Threads, thread'[x].at \in {"add", "apply"}
  PROVE  \/ thread'[x] = thread[x]
         \/ /\ Validate(x) /\ ValidBlock(thread[x].block) /\ thread'[x].at = "add"
            /\ thread'[x].block = thread[x].block
         \/ Add(x) /\ thread'[x].at = "apply"
         \/ (\E t \in Txs : Apply(x, t)) /\ thread'[x].at = "apply"
<1>1. Saver \/ UNCHANGED vars => thread' = thread
  BY DEF Saver, SaveBlocks, SaveUtxos, SaveWrites, vars
<1>2. ASSUME NEW t \in Txs, UserBuilds(t) \/ \E a \in Accounts : Claim(t, a)
      PROVE  thread'[x] = thread[x] \/ thread'[x] = Offering(t)
  BY <1>2, BuildsEffect DEF Alone
<1>3. ASSUME NEW th \in Threads, CheckOffer(th) \/ Append(th)
      PROVE  thread'[x] = thread[x] \/ thread'[x].at \in {"append", "record", "idle"}
  BY <1>3, CheckOfferEffect, AppendEffect, Forms DEF Alone, GoesOn
<1>4. ASSUME NEW b \in Blocks, (\E th \in Threads : Mine(th, b)) \/ PeerMines(b) \/ Receive(b)
      PROVE  thread'[x] = thread[x] \/ thread'[x] = Handling(b)
  BY <1>4, MinesEffect, BeginEffect DEF Alone
<1>5. ASSUME NEW th \in Threads, Validate(th)
      PROVE  \/ thread'[x] = thread[x] \/ thread'[x] = Idle
             \/ th = x /\ ValidBlock(thread[x].block) /\ GoesOn(x, "add")
  BY <1>5, ValidateEffect DEF Alone
<1>6. ASSUME NEW th \in Threads, Add(th)
      PROVE  thread'[x] = thread[x] \/ (th = x /\ thread'[x].at = "apply")
  BY <1>6, AddEffect DEF Alone
<1>7. ASSUME NEW th \in Threads, NEW t \in Txs, Apply(th, t)
      PROVE  thread'[x] = thread[x] \/ (th = x /\ thread'[x].at = "apply")
  BY <1>7, ApplyEffect DEF Alone
<1>8. ASSUME NEW th \in Threads, Applies(th)
      PROVE  thread'[x] = thread[x] \/ thread'[x].at = "clear"
  BY <1>8, AppliesEffect DEF Alone, GoesOn
<1>9. ASSUME NEW th \in Threads, Clear(th) PROVE thread'[x] = thread[x] \/ thread'[x] = Idle
  BY <1>9 DEF Clear, TypeInv
<1>10. Record => thread'[x] = thread[x] \/ thread'[x] = Idle
  BY BeginEffect DEF Alone
<1>11. Crash => thread'[x] = Idle
  BY CrashEffect
<1>12. ASSUME NEW th \in Threads, NEW t \in Txs, Offer(th, t)
       PROVE  thread'[x] = thread[x] \/ thread'[x] = Offering(t)
  BY <1>12, BeginEffect DEF Alone
<1>13. /\ thread'[x] # Idle /\ \A t \in Txs : thread'[x] # Offering(t)
       /\ \A b \in Blocks : thread'[x] # Handling(b)
       /\ thread'[x].at \notin {"append", "record", "idle", "clear"}
  BY Forms
<1>14. \A y \in Threads : GoesOn(y, "add") => thread'[y].at = "add" /\ thread'[y].block = thread[y].block
  BY DEF GoesOn
<1> QED
  BY <1>1, <1>2, <1>3, <1>4, <1>5, <1>6, <1>7, <1>8, <1>9, <1>10, <1>11, <1>12, <1>13, <1>14, Cases

\* The parents a block names do not change.
LEMMA ParentsKept ==
  ASSUME TypeInv, BlockInv, KeepsBlocks, NEW b \in Blocks, Same(b)
  PROVE  Parents(b)' = Parents(b)
<1>1. \A c \in mined[b].past \ {Genesis} : c \in Blocks /\ mined'[c].past = mined[c].past
  <2>1. mined[b].past \subseteq AllBlocks
    BY DEF TypeInv, Block
  <2>2. \A c \in Blocks : c \in mined[b].past => ~Fleeting(c)
    BY DEF BlockInv
  <2> QED BY <2>1, <2>2 DEF AllBlocks, KeepsBlocks, Same
<1>2. mined'[b].past = mined[b].past
  BY DEF Same
<1> QED BY <1>1, <1>2 DEF Parents, Tips

\* Every DAG, in memory, in a snapshot or on disk, stays closed under parents.
LEMMA StepDagInv ==
  ASSUME TypeInv, ThreadInv, BlockInv, DagInv, [Next]_vars
  PROVE  DagInv'
<1>1. KeepsBlocks
  BY StepKeepsBlocks
<1>2. \A S \in {dag, saver.dag, disk.dag} : \A b \in S \ {Genesis} :
        b \in Blocks /\ ~Fleeting(b) /\ Same(b)
  <2>1. \A S \in {dag, saver.dag, disk.dag} : \A b \in S : b \in AllBlocks
    BY DEF TypeInv, State
  <2> QED BY <1>1, <2>1 DEF BlockInv, KeepsBlocks, AllBlocks
<1>3. \A S \in {dag, saver.dag, disk.dag} : \A b \in S \ {Genesis} : Parents(b)' \subseteq S
  BY <1>1, <1>2, ParentsKept DEF DagInv, Closed
<1>4. \A x \in Threads : thread[x].at = "add" => thread[x].block \in Blocks
  BY DEF ThreadInv, WorksOn, AtBlock, BlockSteps
<1>5. \A S \in {dag', saver'.dag, disk'.dag} : \A b \in S \ {Genesis} : Parents(b)' \subseteq S
  <2>1. CASE UNCHANGED <<dag, saver, disk>>
    BY <1>3, <2>1
  <2>2. ASSUME NEW th \in Threads, Add(th)
        PROVE  \A S \in {dag', saver'.dag, disk'.dag} : \A b \in S \ {Genesis} : Parents(b)' \subseteq S
    <3>1. PICK b : /\ b = thread[th].block /\ thread[th].at = "add" /\ dag' = dag \cup {b}
                   /\ UNCHANGED <<mined, saver, disk>>
      BY <2>2, AddEffect
    <3>2. b \in Blocks /\ Same(b) /\ Parents(b) \subseteq dag
      BY <1>4, <3>1 DEF DagInv, Same
    <3>3. Parents(b)' \subseteq dag
      BY <1>1, <3>2, ParentsKept
    <3> QED BY <1>3, <3>1, <3>3
  <2>3. CASE Saver
    <3>1. dag' = dag /\ saver'.dag \in {saver.dag, dag} /\ disk'.dag \in {disk.dag, saver.dag}
      BY <2>3, SaveEffect
    <3> QED BY <1>3, <3>1
  <2>4. CASE Crash
    <3>1. dag' = disk.dag /\ saver'.dag = saver.dag /\ disk' = disk
      BY <2>4, CrashEffect
    <3> QED BY <1>3, <3>1
  <2>5. ASSUME NEW th \in Threads, NEW t \in Txs, Apply(th, t) PROVE UNCHANGED <<dag, saver, disk>>
    BY <2>5 DEF Apply
  <2> QED BY <2>1, <2>2, <2>3, <2>4, <2>5, DagSteps
<1>6. ASSUME NEW x \in Threads, thread'[x].at = "add" PROVE Parents(thread[x].block)' \subseteq dag'
  <2>1. dag \subseteq dag'
    <3>1. ~Crash
      BY <1>6, CrashEffect, Forms
    <3>2. Saver => dag' = dag
      BY SaveEffect
    <3> QED BY <3>1, <3>2, DagSteps, AddEffect DEF Apply
  <2> DEFINE b == thread'[x].block
  <2>2. b \in Blocks /\ Same(b) /\ Parents(b) \subseteq dag
    <3>1. CASE thread'[x] = thread[x]
      BY <1>1, <1>4, <1>6, <3>1 DEF DagInv, KeepsBlocks
    <3>2. CASE Validate(x) /\ ValidBlock(thread[x].block) /\ b = thread[x].block
      <4>1. thread[x].at = "validate" /\ b \in Blocks
        BY <3>2 DEF Validate, ThreadInv, WorksOn, AtBlock, BlockSteps
      <4>2. mined' = mined
        BY <3>2 DEF Validate
      <4>3. Parents(b) \subseteq dag
        BY <3>2 DEF ValidBlock
      <4> QED BY <4>1, <4>2, <4>3 DEF Same
    <3> QED BY <1>6, <3>1, <3>2, Moves
  <2>3. PICK c \in Blocks : c = b
    BY <2>2
  <2>4. Parents(c)' = Parents(c) /\ Parents(c) \subseteq dag
    BY <1>1, <2>2, <2>3, ParentsKept
  <2> QED BY <2>1, <2>3, <2>4 DEF Parents
<1> QED BY <1>5, <1>6 DEF DagInv, Closed

\* Every step keeps SaverInv: no block enters a snapshot that is not marked torn while
\* its transactions are applied.
LEMMA StepSaverInv ==
  ASSUME TypeInv, ThreadInv, SaverInv, [Next]_vars
  PROVE  SaverInv'
<1>1. CASE UNCHANGED <<dag, saver>> \/ \E th \in Threads : Add(th)
  <2>1. saver' = saver /\ dag \subseteq dag'
    BY <1>1, AddEffect
  <2>2. ASSUME InApply', ~InApply PROVE dag' # dag
    <3>1. PICK x \in Threads : thread'[x].at = "apply"
      BY <2>2 DEF InApply
    <3>2. Add(x)
      BY <2>2, <3>1, Moves DEF InApply, Apply
    <3>3. dag' = dag \cup {thread[x].block} /\ thread[x].block \notin dag
      BY <3>2, AddEffect DEF ThreadInv, WorksOn, AtBlock, BlockSteps
    <3> QED BY <3>3
  <2>3. saver.at # "idle" /\ saver.dag = dag' => dag' = dag
    BY <2>1 DEF SaverInv
  <2> QED BY <2>1, <2>2, <2>3 DEF SaverInv
<1>2. CASE Saver
  <2>1. dag' = dag /\ thread' = thread /\ InApply' = InApply
    BY <1>2 DEF Saver, SaveBlocks, SaveUtxos, SaveWrites, InApply
  <2> QED BY <1>2, <2>1, SaveEffect DEF Saver, SaverInv
<1>3. CASE Crash
  BY <1>3, CrashEffect DEF SaverInv
<1> QED BY <1>1, <1>2, <1>3, DagSteps DEF Apply

----------------------------------------------------------------------------
(***************************************************************************)
(* The outputs and the DAG.                                                *)
(***************************************************************************)
\* What is in the DAG or in a snapshot of it stays as it is, and all of it is built.
LEMMA Standing ==
  ASSUME TypeInv, ThreadInv, TxInv, BlockInv, [Next]_vars,
         NEW S \in {dag, saver.dag, disk.dag}, NEW b \in S \ {Genesis}
  PROVE  /\ b \in Blocks /\ mined'[b].txs = mined[b].txs
         /\ \A t \in mined[b].txs : t \in Txs /\ Built(t) /\ tx'[t] = tx[t]
<1>1. b \in Blocks /\ mined[b].txs \subseteq Txs
  BY DEF TypeInv, State, AllBlocks, Block
<1>2. ~Fleeting(b)
  BY <1>1 DEF BlockInv
<1>3. Same(b)
  BY <1>1, <1>2, StepKeepsBlocks DEF KeepsBlocks
<1>4. \A t \in mined[b].txs : Built(t) /\ tx'[t] = tx[t]
  BY <1>1, StepKeepsTxs DEF TxInv, KeptTxs
<1> QED BY <1>1, <1>3, <1>4 DEF Same

\* A thread that was let in adds its block, and stops applying when there is nothing
\* left to apply.
LEMMA Stays ==
  ASSUME TypeInv, [Next]_vars, NEW x \in Threads, thread[x].at \in {"add", "apply"}
  PROVE  \/ thread'[x] = thread[x] \/ Crash
         \/ Add(x) /\ thread[x].at = "add"
         \/ (\E t \in Txs : Apply(x, t)) /\ thread[x].at = "apply"
         \/ thread[x].at = "apply" /\ thread[x].todo = {}
<1>1. Saver \/ UNCHANGED vars => thread' = thread
  BY DEF Saver, SaveBlocks, SaveUtxos, SaveWrites, vars
<1>2. ASSUME NEW t \in Txs, UserBuilds(t) \/ \E a \in Accounts : Claim(t, a)
      PROVE  thread'[x] = thread[x]
  BY <1>2, BuildsEffect DEF Alone
<1>3. ASSUME NEW th \in Threads, CheckOffer(th) \/ Append(th) PROVE thread'[x] = thread[x]
  BY <1>3, CheckOfferEffect, AppendEffect DEF Alone
<1>4. ASSUME NEW b \in Blocks, (\E th \in Threads : Mine(th, b)) \/ PeerMines(b) \/ Receive(b)
      PROVE  thread'[x] = thread[x]
  BY <1>4, MinesEffect, BeginEffect DEF Alone
<1>5. ASSUME NEW th \in Threads, Validate(th) \/ Add(th)
      PROVE  thread'[x] = thread[x] \/ (Add(x) /\ thread[x].at = "add")
  BY <1>5, ValidateEffect, AddEffect DEF Alone
<1>6. ASSUME NEW th \in Threads, NEW t \in Txs, Apply(th, t)
      PROVE  thread'[x] = thread[x] \/ (Apply(x, t) /\ thread[x].at = "apply")
  BY <1>6, ApplyEffect DEF Alone
<1>7. ASSUME NEW th \in Threads, Applies(th)
      PROVE  thread'[x] = thread[x] \/ (thread[x].at = "apply" /\ thread[x].todo = {})
  BY <1>7, AppliesEffect DEF Alone
<1>8. ASSUME NEW th \in Threads, Clear(th) PROVE thread'[x] = thread[x]
  BY <1>8 DEF Clear, TypeInv
<1>9. ASSUME NEW th \in Threads, NEW t \in Txs, Offer(th, t) PROVE thread'[x] = thread[x]
  BY <1>9, BeginEffect DEF Alone
<1>10. Record => thread'[x] = thread[x]
  BY BeginEffect DEF Alone
<1> QED BY <1>1, <1>2, <1>3, <1>4, <1>5, <1>6, <1>7, <1>8, <1>9, <1>10, Cases

\* What is whole stays whole.
LEMMA WholeKept ==
  ASSUME TypeInv, ThreadInv, TxInv, BlockInv, [Next]_vars,
         NEW u, NEW S \in {dag, saver.dag, disk.dag}, Whole(u, S)
  PROVE  Whole(u, S)'
<1>1. \A b \in S \ {Genesis} :
        /\ b \in Blocks /\ mined'[b].txs = mined[b].txs
        /\ \A t \in mined[b].txs : t \in Txs /\ Built(t) /\ tx'[t] = tx[t]
  BY Standing
<1>2. \A t : Confirming(S, t)' = Confirming(S, t)
  BY <1>1 DEF Confirming
<1>3. \A t : Confirmed(S, t)' = Confirmed(S, t)
  BY <1>2 DEF Confirmed
<1>4. \A t \in Txs : Confirmed(S, t) => tx'[t] = tx[t]
  BY <1>1 DEF Confirmed, Confirming
<1>5. \A o : Doubled(S, o)' = Doubled(S, o)
  BY <1>2 DEF Doubled
<1>6. \A o : {t \in Txs : Confirmed(S, t)' /\ tx'[t].in = o} = {t \in Txs : Confirmed(S, t) /\ tx[t].in = o}
  BY <1>3, <1>4
<1>7. Replays(u, S)'
  BY <1>3, <1>5, <1>6 DEF Whole, Replays
<1>8. SpendsKnown(u, S \ {Genesis})'
  BY <1>1 DEF Whole, SpendsKnown
<1> QED BY <1>7, <1>8 DEF Whole

\* When nobody is applying anything, the outputs are whole.
LEMMA FollowsIsWhole == ASSUME Follows, ~InApply PROVE Whole(utxo, dag)
<1>1. \A t \in Txs : Done(t) = Confirmed(dag, t)
  BY DEF Done, Pending, InApply, Confirmed
<1>2. SpendsKnown(utxo, dag \ {Genesis})
  BY DEF Follows, SpendsKnown, Entered
<1>3. \A t \in Txs : (utxo[t] # "none") = Confirmed(dag, t)
  BY <1>1 DEF Follows
<1>4. \A o \in Outputs : utxo[o] = "spent" => {t \in Txs : Confirmed(dag, t) /\ tx[t].in = o} # {}
  BY <1>1 DEF Follows
<1>5. \A o \in Outputs :
        utxo[o] = "unspent" /\ {t \in Txs : Confirmed(dag, t) /\ tx[t].in = o} # {} => Doubled(dag, o)
  BY <1>1 DEF Follows
<1> QED BY <1>2, <1>3, <1>4, <1>5 DEF Whole, Replays

\* Outputs that do not change follow a DAG in which the same transactions are done.
LEMMA FollowsKept ==
  ASSUME TypeInv, TxInv, BlockInv, KeptTxs, Follows, utxo' = utxo,
         \A t \in Txs : Done(t)' = Done(t),
         \A o : Doubled(dag, o) => Doubled(dag, o)',
         \A b \in Entered' : \A t \in mined'[b].txs : utxo[tx'[t].in] # "none"
  PROVE  Follows'
<1>1. \A t \in Txs : Done(t) => tx'[t] = tx[t]
  <2>1. \A t \in Txs : Done(t) => \E b \in Blocks : t \in mined[b].txs
    BY DEF Done, Confirming, TypeInv, AllBlocks
  <2> QED BY <2>1 DEF TxInv, KeptTxs
<1>2. \A t \in Txs : (utxo'[t] # "none") = Done(t)'
  BY DEF Follows
<1>3. \A o \in Outputs : utxo'[o] = "spent" => \E t \in Txs : Done(t)' /\ tx'[t].in = o
  BY <1>1 DEF Follows
<1>4. \A t \in Txs : Done(t)' /\ utxo'[tx'[t].in] = "unspent" => Doubled(dag, tx[t].in)'
  <2> SUFFICES ASSUME NEW t \in Txs, Done(t)', utxo'[tx'[t].in] = "unspent"
               PROVE  Doubled(dag, tx[t].in)'
    OBVIOUS
  <2>1. PICK o : o = tx[t].in /\ o = tx'[t].in
    BY <1>1
  <2>2. Doubled(dag, o)
    BY <2>1 DEF Follows
  <2>3. Doubled(dag, o)'
    BY <2>2
  <2> QED BY <2>1, <2>3 DEF Doubled, Confirming
<1> QED BY <1>2, <1>3, <1>4 DEF Follows, SpendsKnown

\* Blocks that have entered are blocks of built transactions.
LEMMA EnteredAre ==
  ASSUME TypeInv, ThreadInv, TxInv
  PROVE  /\ dag \ {Genesis} \subseteq Entered
         /\ \A x \in Threads : thread[x].at = "add" => thread[x].block \in Entered
         /\ \A b \in Entered : /\ b \in Blocks /\ mined[b].txs \subseteq Txs
                              /\ \A t \in mined[b].txs : Built(t)
<1>1. \A b \in Entered : b \in Blocks
  BY DEF Entered, TypeInv, AllBlocks, ThreadInv, WorksOn, AtBlock, BlockSteps
<1>2. \A b \in Blocks : mined[b].txs \subseteq Txs
  BY DEF TypeInv, Block
<1> QED BY <1>1, <1>2 DEF Entered, TxInv

\* What a thread lets into the DAG spends outputs that are there.
LEMMA EnteredSpendsKnown ==
  ASSUME TypeInv, ThreadInv, TxInv, BlockInv, [Next]_vars, ~Crash, Follows, utxo' = utxo
  PROVE  \A b \in Entered' : \A t \in mined'[b].txs : utxo[tx'[t].in] # "none"
<1>1. /\ \A b \in Entered : b \in Blocks /\ mined[b].txs \subseteq Txs
      /\ \A b \in Entered : \A t \in mined[b].txs : Built(t) /\ tx'[t] = tx[t]
  BY EnteredAre, StepKeepsTxs DEF KeptTxs
<1>2. ASSUME NEW b, b \in Entered, mined'[b].txs = mined[b].txs
      PROVE  \A t \in mined'[b].txs : utxo[tx'[t].in] # "none"
  BY <1>1, <1>2 DEF Follows, SpendsKnown
<1>3. \A b \in dag \ {Genesis} : mined'[b].txs = mined[b].txs
  BY Standing
<1>4. \A x \in Threads : thread[x].at = "add" /\ thread'[x].at \in {"add", "apply"} =>
        mined'[thread[x].block].txs = mined[thread[x].block].txs
  BY StepKeepsBlocks DEF KeepsBlocks, Same
<1>5. ASSUME NEW b \in dag' \ {Genesis} PROVE \A t \in mined'[b].txs : utxo[tx'[t].in] # "none"
  <2>1. \/ b \in dag
        \/ \E x \in Threads : Add(x) /\ b = thread[x].block
    BY DagSteps, AddEffect, SaveEffect DEF Apply
  <2>2. CASE b \in dag
    BY <1>2, <1>3, <1>5, <2>2, EnteredAre
  <2>3. ASSUME NEW x \in Threads, Add(x), b = thread[x].block
        PROVE  \A t \in mined'[b].txs : utxo[tx'[t].in] # "none"
    <3>1. thread[x].at = "add" /\ mined' = mined
      BY <2>3, AddEffect
    <3> QED BY <1>2, <2>3, <3>1, EnteredAre
  <2> QED BY <2>1, <2>2, <2>3
<1>6. ASSUME NEW x \in Threads, thread'[x].at = "add"
      PROVE  \A t \in mined'[thread'[x].block].txs : utxo[tx'[t].in] # "none"
  <2>1. CASE thread'[x] = thread[x]
    <3>1. PICK b : b = thread[x].block /\ b = thread'[x].block
      BY <2>1
    <3>2. b \in Entered /\ mined'[b].txs = mined[b].txs
      BY <1>4, <1>6, <2>1, <3>1, EnteredAre
    <3> QED BY <1>2, <3>1, <3>2
  <2>2. CASE Validate(x) /\ ValidBlock(thread[x].block) /\ thread'[x].block = thread[x].block
    <3>1. mined' = mined /\ tx' = tx
      BY <2>2 DEF Validate
    <3>2. \A t \in mined[thread[x].block].txs : utxo[tx[t].in] = "unspent"
      BY <2>2 DEF ValidBlock, ValidTx, Unspent
    <3> QED BY <2>2, <3>1, <3>2
  <2> QED BY <1>6, <2>1, <2>2, Moves
<1> QED BY <1>5, <1>6 DEF Entered

\* What is done stays done, and nothing else gets done, unless a transaction is applied.
LEMMA DoneKept ==
  ASSUME TypeInv, ThreadInv, TxInv, BlockInv, [Next]_vars, ~Crash,
         \A th \in Threads, t \in Txs : ~Apply(th, t)
  PROVE  /\ \A t \in Txs : Done(t)' = Done(t)
         /\ \A o : Doubled(dag, o) => Doubled(dag, o)'
<1>1. \A b \in dag \ {Genesis} : b \in Blocks /\ mined'[b].txs = mined[b].txs
  BY Standing
<1>2. \A x \in Threads : thread'[x].at = "apply" => thread'[x] = thread[x] \/ Add(x)
  BY Moves
<1>3. \A x \in Threads : thread[x].at = "apply" => thread'[x] = thread[x] \/ thread[x].todo = {}
  BY Stays
<1>4. \A x \in Threads : Add(x) => /\ thread[x].at = "add" /\ thread[x].block \notin dag
                                   /\ thread[x].block \in Blocks /\ thread'[x].at = "apply"
                                   /\ thread'[x].block = thread[x].block
                                   /\ thread'[x].todo = mined[thread[x].block].txs
                                   /\ dag' = dag \cup {thread[x].block} /\ mined' = mined
  BY AddEffect DEF ThreadInv, WorksOn, AtBlock, BlockSteps
<1>5. \A b \in dag, t \in Txs : Pending(b, t)' = Pending(b, t)
  BY <1>2, <1>3, <1>4 DEF Pending
<1>6. dag' = dag \/ \E x \in Threads : Add(x)
  BY DagSteps, SaveEffect
<1>7. \A t : Confirming(dag, t) \subseteq Confirming(dag, t)'
  BY <1>1, <1>4, <1>6 DEF Confirming
<1>8. \A t \in Txs : \A b \in Confirming(dag, t)' : b \in Confirming(dag, t) \/ Pending(b, t)'
  <2>1. CASE dag' = dag
    BY <1>1, <2>1 DEF Confirming
  <2>2. ASSUME NEW x \in Threads, Add(x)
        PROVE  \A t \in Txs : \A b \in Confirming(dag, t)' : b \in Confirming(dag, t) \/ Pending(b, t)'
    <3>1. \A t \in Txs : t \in mined[thread[x].block].txs =>
            \A b : b = thread[x].block => Pending(b, t)'
      BY <1>4, <2>2 DEF Pending
    <3> QED BY <1>4, <2>2, <3>1 DEF Confirming
  <2> QED BY <1>6, <2>1, <2>2
<1>9. ASSUME NEW t \in Txs PROVE Done(t)' = Done(t)
  <2>1. \A b \in Confirming(dag, t) : b \in dag
    BY DEF Confirming
  <2> QED BY <1>5, <1>7, <1>8, <2>1 DEF Done
<1>10. ASSUME NEW o, Doubled(dag, o) PROVE Doubled(dag, o)'
  BY <1>7, <1>10 DEF Doubled
<1> QED BY <1>9, <1>10

\* Applying a transaction: the only step that changes the outputs.
LEMMA ApplyFollows ==
  ASSUME TypeInv, ThreadInv, TxInv, BlockInv, [Next]_vars, Follows,
         NEW th \in Threads, NEW t \in Txs, Apply(th, t)
  PROVE  Follows'
<1> DEFINE i == tx[t].in
<1>1. /\ thread[th].at = "apply" /\ t \in thread[th].todo /\ Alone(th)
      /\ thread'[th].at = "apply" /\ thread'[th].block = thread[th].block
      /\ thread'[th].todo = thread[th].todo \ {t}
      /\ utxo'[t] = "unspent"
      /\ tx[t].in \in Outputs \ {t} => utxo'[tx[t].in] = "spent"
      /\ \A o \in Outputs : o # t /\ o # tx[t].in => utxo'[o] = utxo[o]
      /\ UNCHANGED <<tx, mined, dag>>
  BY ApplyEffect
<1>2. PICK b : b = thread[th].block
  OBVIOUS
<1>3. b \in Confirming(dag, t) /\ Built(t)
  <2>1. b \in Blocks /\ b \in dag /\ t \in mined[b].txs
    BY <1>1, <1>2 DEF ThreadInv, WorksOn, AtBlock, BlockSteps
  <2> QED BY <2>1, ChainAssumption DEF Confirming, TxInv
<1>4. i \in Outputs \ {t} /\ utxo'[i] = "spent"
  BY <1>1, <1>3 DEF TxInv
<1>5. \A x \in Threads : thread[x].at = "apply" /\ x # th => thread[x].block # b
  BY <1>1, <1>2, Apart DEF AtBlock, BlockSteps
<1>6. Pending(b, t) /\ ~Pending(b, t)'
  BY <1>1, <1>2, <1>5 DEF Pending, Alone
<1>7. \A u \in Txs : u # t => \A c : Pending(c, u)' = Pending(c, u)
  <2>1. \A x \in Threads, u \in Txs : u # t =>
          /\ thread'[x].at = "apply" <=> thread[x].at = "apply"
          /\ thread[x].at = "apply" => thread'[x].block = thread[x].block
          /\ thread[x].at = "apply" => (u \in thread'[x].todo <=> u \in thread[x].todo)
    BY <1>1 DEF Alone
  <2> QED BY <2>1 DEF Pending
<1>8. \A u : Confirming(dag, u)' = Confirming(dag, u)
  BY <1>1 DEF Confirming
<1>9. Done(t)' /\ \A u \in Txs : u # t => Done(u)' = Done(u)
  BY <1>3, <1>6, <1>7, <1>8 DEF Done
<1>10. \A o : Doubled(dag, o)' = Doubled(dag, o)
  BY <1>8 DEF Doubled
<1>11. \A u \in Txs : Done(u)' => tx[u].in \in Outputs \ {u} /\ utxo[tx[u].in] # "none"
  <2> SUFFICES ASSUME NEW u \in Txs, Done(u)' PROVE tx[u].in \in Outputs \ {u} /\ utxo[tx[u].in] # "none"
    OBVIOUS
  <2>1. PICK c \in dag \ {Genesis} : u \in mined[c].txs
    BY <1>8 DEF Done, Confirming
  <2>2. c \in Entered /\ Built(u)
    BY <2>1, EnteredAre
  <2> QED BY <2>1, <2>2 DEF Follows, SpendsKnown, TxInv
<1>12. \A u \in Txs : (utxo'[u] # "none") = Done(u)'
  <2> SUFFICES ASSUME NEW u \in Txs PROVE (utxo'[u] # "none") = Done(u)'
    OBVIOUS
  <2>1. CASE u = t
    BY <1>1, <1>9, <2>1
  <2>2. CASE u = i /\ u # t
    <3>1. utxo[u] # "none"
      BY <1>9, <1>11, <2>2
    <3> QED BY <1>4, <1>9, <2>2, <3>1 DEF Follows
  <2>3. CASE u # t /\ u # i
    <3>1. utxo'[u] = utxo[u]
      BY <1>1, <2>3 DEF Outputs
    <3> QED BY <1>9, <2>3, <3>1 DEF Follows
  <2> QED BY <2>1, <2>2, <2>3
<1>13. \A o \in Outputs : utxo'[o] = "spent" => \E u \in Txs : Done(u)' /\ tx[u].in = o
  <2> SUFFICES ASSUME NEW o \in Outputs, utxo'[o] = "spent"
               PROVE  \E u \in Txs : Done(u)' /\ tx[u].in = o
    OBVIOUS
  <2>1. CASE o = i
    BY <1>9, <2>1
  <2>2. CASE o # i
    <3>1. utxo[o] = "spent"
      BY <1>1, <2>2
    <3>2. PICK u \in Txs : Done(u) /\ tx[u].in = o
      BY <3>1 DEF Follows
    <3> QED BY <1>9, <3>2
  <2> QED BY <2>1, <2>2
<1>14. \A u \in Txs : Done(u)' /\ utxo'[tx[u].in] = "unspent" => Doubled(dag, tx[u].in)
  <2> SUFFICES ASSUME NEW u \in Txs, Done(u)', utxo'[tx[u].in] = "unspent"
               PROVE  Doubled(dag, tx[u].in)
    OBVIOUS
  <2>1. tx[u].in # i /\ u # t
    BY <1>4
  <2>2. CASE tx[u].in = t
    <3>1. utxo[t] # "none"
      BY <1>11, <2>2
    <3>2. PICK c \in Confirming(dag, t) : ~Pending(c, t)
      BY <3>1 DEF Follows, Done
    <3> QED BY <1>3, <1>6, <2>2, <3>2 DEF Doubled
  <2>3. CASE tx[u].in # t
    <3>1. utxo[tx[u].in] = "unspent"
      BY <1>1, <1>11, <2>1, <2>3
    <3> QED BY <1>9, <2>1, <3>1 DEF Follows
  <2> QED BY <2>2, <2>3
<1>15. \A u \in Txs : Done(u)' /\ utxo'[tx'[u].in] = "unspent" => Doubled(dag, tx[u].in)'
  <2> SUFFICES ASSUME NEW u \in Txs, Done(u)', utxo'[tx'[u].in] = "unspent"
               PROVE  Doubled(dag, tx[u].in)'
    OBVIOUS
  <2>1. PICK o : o = tx[u].in /\ o = tx'[u].in
    BY <1>1
  <2>2. Doubled(dag, o)'
    BY <1>10, <1>14, <2>1
  <2> QED BY <2>1, <2>2 DEF Doubled, Confirming
<1>16. \A c \in Entered' : \A u \in mined'[c].txs : utxo'[tx'[u].in] # "none"
  <2>1. \A x \in Threads : thread'[x].at = "add" => thread[x].at = "add" /\ thread'[x].block = thread[x].block
    BY <1>1 DEF Alone
  <2>2. \A c \in Entered' : c \in Entered
    BY <1>1, <2>1 DEF Entered
  <2>3. \A c \in Entered : \A u \in mined[c].txs : utxo[tx[u].in] # "none" /\ tx[u].in \in Outputs
    BY EnteredAre DEF Follows, SpendsKnown, TxInv
  <2>4. \A o \in Outputs : utxo[o] # "none" => utxo'[o] # "none"
    BY <1>1, <1>4
  <2> QED BY <1>1, <2>2, <2>3, <2>4
<1> QED BY <1>1, <1>12, <1>13, <1>15, <1>16 DEF Follows, SpendsKnown

\* After a crash the outputs are those of the snapshot, and so is the DAG.
LEMMA CrashFollows ==
  ASSUME TypeInv, ThreadInv, TxInv, BlockInv, [Next]_vars, Crash, Whole(disk.utxo, disk.dag)
  PROVE  Follows'
<1>1. PICK u, S : u = disk.utxo /\ S = disk.dag
  OBVIOUS
<1>2. /\ dag' = S /\ utxo' = u /\ \A x \in Threads : thread'[x].at = "idle"
  BY <1>1, CrashEffect, Forms
<1>3. Whole(u, S)'
  BY <1>1, WholeKept
<1>4. \A t \in Txs : Done(t)' = Confirmed(S, t)'
  BY <1>2 DEF Done, Pending, Confirmed, Confirming
<1>5. Entered' = S \ {Genesis}
  BY <1>2 DEF Entered
<1>6. \A t \in Txs : (utxo'[t] # "none") = Done(t)'
  BY <1>2, <1>3, <1>4 DEF Whole, Replays
<1>7. \A o \in Outputs : utxo'[o] = "spent" => \E t \in Txs : Done(t)' /\ tx'[t].in = o
  <2>1. \A o \in Outputs : u[o] = "spent" => {t \in Txs : Confirmed(S, t)' /\ tx'[t].in = o} # {}
    BY <1>3 DEF Whole, Replays
  <2> QED BY <1>2, <1>4, <2>1
<1>8. \A o : Doubled(S, o)' => Doubled(dag, o)'
  BY <1>2 DEF Doubled, Confirming
<1>9. \A t \in Txs : Done(t)' /\ utxo'[tx'[t].in] = "unspent" => Doubled(dag, tx[t].in)'
  <2> SUFFICES ASSUME NEW t \in Txs, Done(t)', utxo'[tx'[t].in] = "unspent"
               PROVE  Doubled(dag, tx[t].in)'
    OBVIOUS
  <2>1. PICK o : o = tx'[t].in
    OBVIOUS
  <2>2. o \in Outputs
    <3>1. PICK b \in disk.dag \ {Genesis} : t \in mined'[b].txs
      BY <1>1, <1>4 DEF Confirmed, Confirming
    <3>2. Built(t) /\ tx'[t] = tx[t]
      BY <3>1, Standing
    <3> QED BY <2>1, <3>2 DEF TxInv
  <2>3. {x \in Txs : Confirmed(S, x)' /\ tx'[x].in = o} # {} /\ u[o] = "unspent"
    BY <1>2, <1>4, <2>1
  <2>4. Doubled(S, o)'
    BY <1>3, <2>2, <2>3 DEF Whole, Replays
  <2>5. Doubled(dag, o)'
    BY <1>8, <2>4
  <2> QED BY <2>1, <2>5 DEF Doubled, Confirming
<1>10. SpendsKnown(utxo, Entered)'
  BY <1>2, <1>3, <1>5 DEF Whole, SpendsKnown
<1> QED BY <1>6, <1>7, <1>9, <1>10 DEF Follows

\* What the past leaves behind.
LEMMA GhostSteps ==
  ASSUME TypeInv, [Next]_vars
  PROVE  /\ ghost.raced \subseteq ghost'.raced
         /\ \/ ~Crash /\ ghost'.torn = ghost.torn /\ ghost'.crashes = ghost.crashes
            \/ /\ Crash /\ ghost'.torn = disk.torn /\ ghost'.crashes = ghost.crashes + 1
               /\ saver'.at = "idle" /\ disk' = disk
<1>1. Crash => /\ ghost'.torn = disk.torn /\ saver'.at = "idle" /\ disk' = disk
               /\ ghost'.crashes = ghost.crashes + 1 /\ ghost'.raced = ghost.raced
  BY CrashEffect
<1>2. (\E th \in Threads : Validate(th)) \/ Saver =>
        /\ ghost'.torn = ghost.torn /\ ghost'.crashes = ghost.crashes
        /\ ghost.raced \subseteq ghost'.raced
  BY ValidateEffect, SaveEffect
<1>3. (\E th \in Threads : Validate(th)) \/ Saver \/ Crash \/ ghost' = ghost
  BY Cases DEF Add, Apply, Applies, Clear, CheckOffer, Append, Offer, Mine, Receive, PeerMines,
               Record, UserBuilds, Claim, vars
<1> QED BY <1>1, <1>2, <1>3

\* Unless it was restored from a torn save, the output set follows the DAG.
LEMMA StepReplayInv ==
  ASSUME TypeInv, ThreadInv, TxInv, BlockInv, SaverInv, ReplayInv, [Next]_vars
  PROVE  ReplayInv'
<1>1. \/ ghost'.torn = ghost.torn /\ ~Crash
      \/ Crash /\ ghost'.torn = disk.torn /\ saver'.at = "idle" /\ disk' = disk
  BY GhostSteps
<1>2. ~ghost'.torn => Follows'
  <2>1. CASE Crash
    BY <1>1, <2>1, CrashFollows DEF ReplayInv
  <2>2. CASE ~Crash /\ \E th \in Threads, t \in Txs : Apply(th, t)
    BY <1>1, <2>2, ApplyFollows DEF ReplayInv
  <2>3. CASE ~Crash /\ \A th \in Threads, t \in Txs : ~Apply(th, t)
    <3>1. utxo' = utxo
      BY <2>3, DagSteps, AddEffect, SaveEffect
    <3>2. KeptTxs
      BY StepKeepsTxs
    <3>3. ASSUME Follows PROVE Follows'
      BY <2>3, <3>1, <3>2, <3>3, EnteredSpendsKnown, DoneKept, FollowsKept
    <3> QED BY <1>1, <2>3, <3>3 DEF ReplayInv
  <2> QED BY <2>1, <2>2, <2>3
\* the snapshots
<1>3. ASSUME NEW u, NEW S \in {dag, saver.dag, disk.dag}, Whole(u, S) PROVE Whole(u, S)'
  BY <1>3, WholeKept
<1>4. ASSUME saver'.at = "write", ~saver'.torn, ~ghost'.torn PROVE Whole(saver.utxo, saver.dag)'
  <2>1. PICK u, S : u = saver'.utxo /\ S = saver'.dag
    OBVIOUS
  <2>2. ~ghost.torn
    BY <1>1, <1>4
  <2>3. S \in {dag, saver.dag, disk.dag} /\ Whole(u, S)
    <3>1. CASE saver' = saver
      BY <1>4, <2>1, <2>2, <3>1 DEF ReplayInv
    <3>2. CASE SaveUtxos
      <4>1. saver.at = "utxos" /\ ~saver.torn /\ saver.dag = dag /\ S = dag /\ u = utxo
        BY <1>4, <2>1, <3>2, SaveEffect
      <4>2. Whole(utxo, dag)
        BY <2>2, <4>1, FollowsIsWhole DEF ReplayInv, SaverInv
      <4> QED BY <4>1, <4>2
    <3>3. saver' = saver \/ SaveUtxos
      BY <1>1, <1>4, DagSteps, SaveEffect DEF Saver, Add, Apply
    <3> QED BY <3>1, <3>2, <3>3
  <2>4. Whole(u, S)'
    BY <1>3, <2>3
  <2> QED BY <2>1, <2>4 DEF Whole, Replays, SpendsKnown, Confirmed, Doubled, Confirming
<1>5. ASSUME ~disk'.torn PROVE Whole(disk.utxo, disk.dag)'
  <2>1. PICK u, S : u = disk'.utxo /\ S = disk'.dag
    OBVIOUS
  <2>2. S \in {dag, saver.dag, disk.dag} /\ Whole(u, S)
    <3>1. CASE disk' = disk
      BY <1>5, <2>1, <3>1 DEF ReplayInv
    <3>2. CASE SaveWrites
      <4>1. /\ saver.at = "write"
            /\ disk' = [dag |-> saver.dag, utxo |-> saver.utxo, pool |-> pool,
                        torn |-> saver.torn \/ ghost.torn]
        BY <3>2, SaveEffect
      <4>2. S = saver.dag /\ u = saver.utxo
        BY <2>1, <4>1
      <4>3. ~(saver.torn \/ ghost.torn)
        BY <1>5, <4>1, Zenon
      <4> QED BY <4>1, <4>2, <4>3 DEF ReplayInv
    <3>3. disk' = disk \/ SaveWrites
      BY <1>1, DagSteps, SaveEffect DEF Saver, Add, Apply
    <3> QED BY <3>1, <3>2, <3>3
  <2>3. Whole(u, S)'
    BY <1>3, <2>2
  <2> QED BY <2>1, <2>3 DEF Whole, Replays, SpendsKnown, Confirmed, Doubled, Confirming
<1> QED BY <1>2, <1>4, <1>5 DEF ReplayInv

----------------------------------------------------------------------------
(***************************************************************************)
(* Two confirmed transactions that spend the same output.                  *)
(***************************************************************************)
\* A block that is in the DAG or on its way into it keeps its transactions.
LEMMA EnteredKept ==
  ASSUME TypeInv, ThreadInv, TxInv, BlockInv, [Next]_vars, ~Crash, NEW b \in Entered
  PROVE  /\ mined'[b].txs = mined[b].txs
         /\ \A t \in mined[b].txs : t \in Txs /\ Built(t) /\ tx'[t] = tx[t]
<1>1. \A t \in mined[b].txs : t \in Txs /\ Built(t) /\ tx'[t] = tx[t]
  BY EnteredAre, StepKeepsTxs DEF KeptTxs
<1>2. CASE b \in dag \ {Genesis}
  BY <1>1, <1>2, Standing
<1>3. ASSUME NEW x \in Threads, thread[x].at = "add", b = thread[x].block
      PROVE  mined'[b].txs = mined[b].txs
  <2>1. thread'[x].at \in {"add", "apply"}
    BY <1>3, Stays, AddEffect
  <2> QED BY <1>3, <2>1, StepKeepsBlocks DEF KeepsBlocks, Same
<1> QED BY <1>1, <1>2, <1>3 DEF Entered

\* An excuse stays good.
LEMMA ExcusedKept ==
  ASSUME TypeInv, [Next]_vars, NEW S, NEW T, NEW b, NEW c, Excused(S, b, c),
         \A o : Doubled(S, o) => Doubled(T, o)',
         \A d \in {b, c} : /\ mined'[d].txs = mined[d].txs
                           /\ \A t \in mined[d].txs : t \in Txs /\ Built(t) /\ tx'[t] = tx[t]
  PROVE  Excused(T, b, c)'
<1>1. ASSUME NEW t \in mined[b].txs, NEW u \in mined[c].txs, t # u, tx'[t].in = tx'[u].in
      PROVE  {b, c} \subseteq ghost'.raced \/ Doubled(T, tx[t].in)'
  <2>1. PICK o : o = tx[t].in /\ o = tx'[t].in /\ o = tx[u].in
    BY <1>1
  <2>2. {b, c} \subseteq ghost'.raced \/ Doubled(T, o)'
    BY <1>1, <2>1, GhostSteps DEF Excused
  <2> QED BY <2>1, <2>2 DEF Doubled, Confirming
<1> QED BY <1>1 DEF Excused

\* The blocks of a snapshot stay excused.
LEMMA AllExcusedKept ==
  ASSUME TypeInv, ThreadInv, TxInv, BlockInv, [Next]_vars,
         NEW S \in {dag, saver.dag, disk.dag}, AllExcused(S \ {Genesis}, S)
  PROVE  AllExcused(S \ {Genesis}, S)'
<1>1. \A b \in S \ {Genesis} :
        /\ b \in Blocks /\ mined'[b].txs = mined[b].txs
        /\ \A t \in mined[b].txs : t \in Txs /\ Built(t) /\ tx'[t] = tx[t]
  BY Standing
<1>2. \A o : Doubled(S, o) => Doubled(S, o)'
  BY <1>1 DEF Doubled, Confirming
<1>3. ASSUME NEW b \in S \ {Genesis}, NEW c \in S \ {Genesis}, b # c PROVE Excused(S, b, c)'
  BY <1>1, <1>2, <1>3, ExcusedKept DEF AllExcused
<1> QED BY <1>3 DEF AllExcused

\* A block that was let in against the outputs as they were then.
LEMMA ValidateExcuses ==
  ASSUME TypeInv, ThreadInv, TxInv, BlockInv, Follows, NEW th \in Threads, Validate(th),
         ValidBlock(thread[th].block), NEW c \in Entered, c # thread[th].block,
         NEW t \in mined[thread[th].block].txs, NEW u \in mined[c].txs, tx[t].in = tx[u].in
  PROVE  {thread[th].block, c} \subseteq ghost'.raced \/ Doubled(dag, tx[t].in)
<1>1. /\ thread[th].at = "validate"
      /\ \A x \in Overlapping(th) : {thread[th].block, thread[x].block} \subseteq ghost'.raced
  <2>1. thread'[th] = [thread[th] EXCEPT !.at = "add"]
    BY DEF Validate, TypeInv
  <2>2. thread'[th].at = "add"
    BY <2>1, Goes DEF GoesOn
  <2> QED BY <2>2, ValidateEffect, Forms
<1>2. utxo[tx[t].in] = "unspent" /\ u \in Txs
  BY EnteredAre DEF ValidBlock, ValidTx, Unspent
<1>3. ASSUME NEW x \in Threads, thread[x].at \in {"add", "apply"}, thread[x].block = c
      PROVE  {thread[th].block, c} \subseteq ghost'.raced
  BY <1>1, <1>3 DEF Overlapping
<1>4. CASE c \in dag \ {Genesis}
  <2>1. CASE Pending(c, u)
    BY <1>3, <2>1 DEF Pending
  <2>2. CASE ~Pending(c, u)
    <3>1. Done(u)
      BY <1>4, <2>2 DEF Done, Confirming
    <3> QED BY <1>2, <3>1 DEF Follows
  <2> QED BY <2>1, <2>2
<1> QED BY <1>3, <1>4 DEF Entered

\* Only a block that was found valid gets on its way into the DAG.
LEMMA NewlyEntered ==
  ASSUME TypeInv, ThreadInv, TxInv, [Next]_vars, ~Crash,
         NEW b, b \notin Entered, b \in Entered'
  PROVE  \E x \in Threads : /\ Validate(x) /\ ValidBlock(thread[x].block)
                            /\ b = thread[x].block /\ thread'[x].at = "add"
<1>1. ASSUME b \in dag' \ {Genesis} PROVE FALSE
  <2>1. PICK x \in Threads : Add(x) /\ b = thread[x].block
    BY <1>1, DagSteps, AddEffect, SaveEffect, EnteredAre DEF Apply
  <2>2. b \in Entered
    BY <2>1, EnteredAre, AddEffect
  <2> QED BY <2>2
<1>2. PICK x \in Threads : thread'[x].at = "add" /\ b = thread'[x].block
  BY <1>1 DEF Entered
<1>3. thread'[x] # thread[x]
  BY <1>2, EnteredAre
<1> QED BY <1>2, <1>3, Moves

\* Every step keeps ConflictInv: each conflict goes on having its cause.
LEMMA StepConflictInv ==
  ASSUME TypeInv, ThreadInv, TxInv, BlockInv, ReplayInv, ConflictInv, [Next]_vars
  PROVE  ConflictInv'
<1>1. ASSUME NEW S \in {dag, saver.dag, disk.dag}, AllExcused(S \ {Genesis}, S)
      PROVE  AllExcused(S \ {Genesis}, S)'
  BY <1>1, AllExcusedKept
<1>2. ASSUME ~ghost'.torn PROVE AllExcused(Entered, dag)'
  <2>1. CASE Crash
    <3>1. /\ ~disk.torn /\ dag' = disk.dag /\ \A x \in Threads : thread'[x].at = "idle"
      BY <1>2, <2>1, CrashEffect, Forms
    <3>2. PICK S : S = disk.dag
      OBVIOUS
    <3>3. AllExcused(S \ {Genesis}, S)'
      BY <1>1, <3>1, <3>2 DEF ConflictInv
    <3>4. Entered' = S \ {Genesis}
      BY <3>1, <3>2 DEF Entered
    <3>5. dag' = S
      BY <3>1, <3>2
    <3> QED BY <3>3, <3>4, <3>5 DEF AllExcused, Excused, Doubled, Confirming
  <2>2. CASE ~Crash
    <3>1. ~ghost.torn /\ Follows /\ AllExcused(Entered, dag)
      BY <1>2, <2>2, GhostSteps DEF ReplayInv, ConflictInv
    <3>2. \A c \in Entered :
            /\ mined'[c].txs = mined[c].txs
            /\ \A t \in mined[c].txs : t \in Txs /\ Built(t) /\ tx'[t] = tx[t]
      BY <2>2, EnteredKept
    <3>3. PICK T : T = dag'
      OBVIOUS
    <3>4. \A o : Doubled(dag, o) => Doubled(T, o)'
      <4>1. dag \subseteq T
        BY <2>2, <3>3, DagSteps, AddEffect, SaveEffect DEF Apply
      <4>2. \A c \in dag \ {Genesis} : mined'[c].txs = mined[c].txs
        BY <3>2, EnteredAre
      <4> QED BY <4>1, <4>2 DEF Doubled, Confirming
    <3>5. ASSUME NEW b \in Entered, NEW c \in Entered, b # c PROVE Excused(T, b, c)'
      <4>1. PICK S : S = dag
        OBVIOUS
      <4>2. Excused(S, b, c) /\ \A o : Doubled(S, o) => Doubled(T, o)'
        BY <3>1, <3>4, <3>5, <4>1 DEF AllExcused
      <4> QED BY <3>2, <4>2, ExcusedKept
    \* the block that enters
    <3>6. ASSUME NEW b, b \notin Entered, b \in Entered', NEW c \in Entered
          PROVE  Excused(T, b, c)' /\ Excused(T, c, b)'
      <4>1. PICK x \in Threads : Validate(x) /\ ValidBlock(thread[x].block) /\ b = thread[x].block
        BY <2>2, <3>6, NewlyEntered
      <4>2. mined' = mined /\ tx' = tx /\ dag' = dag
        BY <4>1 DEF Validate
      <4>3. ASSUME NEW t \in mined[b].txs, NEW u \in mined[c].txs, tx[t].in = tx[u].in
            PROVE  {b, c} \subseteq ghost'.raced \/ Doubled(dag, tx[t].in)
        BY <3>1, <3>6, <4>1, <4>3, ValidateExcuses
      <4>4. \A o : Doubled(T, o)' = Doubled(dag, o)
        BY <3>3, <4>2 DEF Doubled, Confirming
      <4>5. ASSUME NEW t \in mined'[b].txs, NEW u \in mined'[c].txs, tx'[t].in = tx'[u].in
            PROVE  {b, c} \subseteq ghost'.raced \/ Doubled(T, tx[t].in)'
        <5>1. PICK o : o = tx[t].in /\ o = tx'[t].in /\ tx[u].in = o
          BY <4>2, <4>5
        <5>2. {b, c} \subseteq ghost'.raced \/ Doubled(T, o)'
          BY <4>2, <4>3, <4>4, <4>5, <5>1
        <5> QED BY <5>1, <5>2 DEF Doubled, Confirming
      <4>6. ASSUME NEW t \in mined'[b].txs, NEW u \in mined'[c].txs, tx'[t].in = tx'[u].in
            PROVE  {b, c} \subseteq ghost'.raced \/ Doubled(T, tx[u].in)'
        <5>1. PICK o : o = tx[t].in /\ o = tx'[u].in /\ tx[u].in = o
          BY <4>2, <4>6
        <5>2. {b, c} \subseteq ghost'.raced \/ Doubled(T, o)'
          BY <4>2, <4>3, <4>4, <4>6, <5>1
        <5> QED BY <5>1, <5>2 DEF Doubled, Confirming
      <4> QED BY <4>5, <4>6 DEF Excused
    <3>7. \A b, c \in Entered' : b # c => b \in Entered \/ c \in Entered
      <4> SUFFICES ASSUME NEW b, NEW c, b \in Entered', c \in Entered', b # c,
                          b \notin Entered, c \notin Entered
                   PROVE  FALSE
        OBVIOUS
      <4>1. PICK x \in Threads : Validate(x) /\ b = thread[x].block /\ thread'[x].at = "add"
        BY <2>2, NewlyEntered
      <4>2. PICK y \in Threads : Validate(y) /\ c = thread[y].block /\ thread'[y].at = "add"
        BY <2>2, NewlyEntered
      <4>3. x # y
        BY <4>1, <4>2
      <4>4. thread'[y] = thread[y] /\ thread[y].at = "validate"
        BY <4>1, <4>2, <4>3, ValidateEffect DEF Alone, Validate
      <4> QED BY <4>2, <4>4
    <3> QED BY <3>3, <3>5, <3>6, <3>7 DEF AllExcused, Excused, Doubled, Confirming
  <2> QED BY <2>1, <2>2
<1>3. ASSUME saver'.at # "idle", ~ghost'.torn PROVE AllExcused(saver.dag \ {Genesis}, saver.dag)'
  <2>1. ~ghost.torn
    BY <1>3, GhostSteps
  <2>2. PICK S : S = saver'.dag
    OBVIOUS
  <2>3. S \in {dag, saver.dag, disk.dag} /\ AllExcused(S \ {Genesis}, S)
    <3>1. CASE saver'.dag = saver.dag /\ saver.at # "idle"
      BY <2>1, <2>2, <3>1 DEF ConflictInv
    <3>2. CASE saver'.dag = dag
      BY <2>1, <2>2, <3>2, EnteredAre DEF ConflictInv, AllExcused
    <3>3. saver' = saver \/ Saver
      BY <1>3, CrashEffect, DagSteps DEF Add, Apply
    <3>4. Saver => saver'.dag = dag \/ (saver'.dag = saver.dag /\ saver.at # "idle")
      BY SaveEffect DEF Saver
    <3> QED BY <1>3, <3>1, <3>2, <3>3, <3>4
  <2>4. AllExcused(S \ {Genesis}, S)'
    BY <1>1, <2>3
  <2> QED BY <2>2, <2>4 DEF AllExcused, Excused, Doubled, Confirming
<1>4. ASSUME ~disk'.torn PROVE AllExcused(disk.dag \ {Genesis}, disk.dag)'
  <2>1. PICK S : S = disk'.dag
    OBVIOUS
  <2>2. S \in {dag, saver.dag, disk.dag} /\ AllExcused(S \ {Genesis}, S)
    <3>1. CASE disk' = disk
      BY <1>4, <2>1, <3>1 DEF ConflictInv
    <3>2. CASE SaveWrites
      <4>1. /\ saver.at = "write"
            /\ disk' = [dag |-> saver.dag, utxo |-> saver.utxo, pool |-> pool,
                        torn |-> saver.torn \/ ghost.torn]
        BY <3>2, SaveEffect
      <4>2. S = saver.dag
        BY <2>1, <4>1
      <4>3. ~(saver.torn \/ ghost.torn)
        BY <1>4, <4>1, Zenon
      <4> QED BY <4>1, <4>2, <4>3 DEF ConflictInv
    <3>3. disk' = disk \/ SaveWrites
      BY CrashEffect, DagSteps, SaveEffect DEF Saver, Add, Apply
    <3> QED BY <3>1, <3>2, <3>3
  <2>3. AllExcused(S \ {Genesis}, S)'
    BY <1>1, <2>2
  <2> QED BY <2>1, <2>3 DEF AllExcused, Excused, Doubled, Confirming
<1> QED BY <1>2, <1>3, <1>4 DEF ConflictInv

----------------------------------------------------------------------------
(***************************************************************************)
(* The faucet's payments.                                                  *)
(***************************************************************************)
\* How a payment goes through the RPC thread.
RpcGoes ==
  \/ thread'["rpc"] = thread["rpc"] /\ faucet'.claimed = faucet.claimed /\ ~Crash
  \/ /\ thread["rpc"].at \notin {"append", "record"} /\ ~AtTx("rpc")'
     /\ faucet'.claimed = faucet.claimed /\ ~Crash
  \/ /\ thread["rpc"].at = "idle" /\ faucet'.claimed = faucet.claimed /\ ~Crash
     /\ \E t \in Txs : thread'["rpc"] = Offering(t) /\ tx'[t].for \notin faucet.claimed
  \/ /\ thread["rpc"].at = "offer" /\ GoesOn("rpc", "append")
     /\ faucet'.claimed = faucet.claimed /\ ~Crash
  \/ /\ thread["rpc"].at = "append" /\ faucet'.claimed = faucet.claimed /\ ~Crash
     /\ pool' = pool \cup {thread["rpc"].tx}
     /\ \/ GoesOn("rpc", "record")
        \/ thread'["rpc"] = Idle /\ tx[thread["rpc"].tx].owner # "node"
  \/ /\ thread["rpc"].at = "record" /\ thread'["rpc"] = Idle /\ ~Crash
     /\ faucet'.claimed = faucet.claimed \cup {tx[thread["rpc"].tx].for}
  \/ Crash /\ thread'["rpc"] = Idle /\ faucet'.claimed = faucet.claimed

\* What the rpc thread, which pays the faucet, may do in one step.
LEMMA RpcSteps ==
  ASSUME TypeInv, ThreadInv, TxInv, [Next]_vars
  PROVE  RpcGoes
<1> USE DEF RpcGoes
<1>1. CASE Crash
  BY <1>1, CrashEffect DEF Threads
<1> SUFFICES ASSUME ~Crash PROVE RpcGoes
  BY <1>1
<1>2. ASSUME NEW t \in Txs, UserBuilds(t) \/ \E a \in Accounts : Claim(t, a) PROVE RpcGoes
  <2>1. /\ faucet'.claimed = faucet.claimed
        /\ \/ thread' = thread
           \/ /\ tx'[t].for \in Accounts \ faucet.claimed
              /\ thread["rpc"].at = "idle" /\ thread'["rpc"] = Offering(t)
    BY <1>2, BuildsEffect
  <2> QED BY <2>1
<1>3. ASSUME NEW th \in Threads, NEW t \in Txs, Offer(th, t) PROVE RpcGoes
  <2>1. /\ thread[th].at = "idle" /\ tx[t].owner = "user" /\ Alone(th) /\ thread'[th] = Offering(t)
        /\ tx' = tx /\ faucet' = faucet
    BY <1>3, BeginEffect
  <2>2. tx'[t].for \notin faucet.claimed
    BY <2>1, ChainAssumption DEF TxInv, TypeInv, Built
  <2> QED BY <2>1, <2>2 DEF Alone, Threads
<1>4. ASSUME NEW th \in Threads, CheckOffer(th) PROVE RpcGoes
  BY <1>4, CheckOfferEffect, Forms DEF Alone, Threads, AtTx, TxSteps
<1>5. ASSUME NEW th \in Threads, Append(th) PROVE RpcGoes
  BY <1>5, AppendEffect DEF Alone, Threads
<1>6. ASSUME Record PROVE RpcGoes
  BY <1>6, BeginEffect
<1>7. ASSUME NEW b \in Blocks, (\E th \in Threads : Mine(th, b)) \/ PeerMines(b) PROVE RpcGoes
  BY <1>7, MinesEffect, Forms DEF Alone, Threads, AtTx, TxSteps
<1>8. ASSUME NEW b \in Blocks, Receive(b) PROVE RpcGoes
  BY <1>8, BeginEffect DEF Alone, Threads
<1>9. ASSUME NEW th \in Threads, Validate(th) PROVE RpcGoes
  BY <1>9, ValidateEffect, Forms DEF Alone, Threads, AtTx, TxSteps, GoesOn
<1>10. ASSUME NEW th \in Threads, Add(th) PROVE RpcGoes
  BY <1>10, AddEffect DEF Alone, Threads, AtTx, TxSteps
<1>11. ASSUME NEW th \in Threads, Applies(th) \/ \E t \in Txs : Apply(th, t) PROVE RpcGoes
  BY <1>11, AppliesEffect, ApplyEffect DEF Alone, Threads, AtTx, TxSteps, GoesOn
<1>12. ASSUME NEW th \in Threads, Clear(th) PROVE RpcGoes
  <2>1. thread[th].block \in Blocks
    BY <1>12 DEF Clear, ThreadInv, WorksOn, AtBlock, BlockSteps
  <2> QED BY <1>12, <2>1, ClearEffect, Forms DEF Alone, Threads, AtTx, TxSteps
<1>13. Saver \/ UNCHANGED vars => RpcGoes
  BY SaveEffect DEF vars
<1> HIDE DEF RpcGoes
<1> QED BY <1>2, <1>3, <1>4, <1>5, <1>6, <1>7, <1>8, <1>9, <1>10, <1>11, <1>12, <1>13, Cases

\* t waits in the mempool or is confirmed.
Stored(t) == t \in pool \/ Confirmed(dag, t)

\* Without a crash a transaction that is waiting or confirmed stays one or the other.
LEMMA StoredKept ==
  ASSUME TypeInv, ThreadInv, TxInv, BlockInv, [Next]_vars, ~Crash, NEW t \in Txs, Stored(t)
  PROVE  Stored(t)'
<1>1. Confirmed(dag, t) => Confirmed(dag, t)'
  <2>1. \A b \in dag \ {Genesis} : mined'[b].txs = mined[b].txs
    BY Standing
  <2>2. dag \subseteq dag'
    BY DagSteps, AddEffect, SaveEffect DEF Apply
  <2> QED BY <2>1, <2>2 DEF Confirmed, Confirming
<1>2. t \in pool => t \in pool' \/ Confirmed(dag, t)'
  <2>1. pool' = pool \/ (\E th \in Threads : Append(th) \/ Clear(th))
    BY Cases DEF Add, Apply, Applies, Validate, CheckOffer, Offer, Mine, Receive, PeerMines,
                 Record, UserBuilds, Claim, Saver, SaveBlocks, SaveUtxos, SaveWrites, vars
  <2>2. ASSUME NEW th \in Threads, Clear(th), t \in pool PROVE t \in pool' \/ Confirmed(dag, t)'
    <3>1. thread[th].block \in Blocks /\ thread[th].block \in dag
      BY <2>2 DEF Clear, ThreadInv, WorksOn, AtBlock, BlockSteps
    <3>2. /\ pool' = pool \ mined[thread[th].block].txs /\ dag' = dag
          /\ mined'[thread[th].block].txs = mined[thread[th].block].txs
      BY <2>2, <3>1, ClearEffect DEF Same
    <3> QED BY <2>2, <3>1, <3>2, ChainAssumption DEF Confirmed, Confirming
  <2>3. \A th \in Threads : Append(th) => pool \subseteq pool'
    BY AppendEffect
  <2> QED BY <2>1, <2>2, <2>3
<1> QED BY <1>1, <1>2 DEF Stored

\* A payment comes into the mempool or a block by the RPC thread's check alone.
LEMMA LiveSteps ==
  ASSUME TypeInv, ThreadInv, TxInv, BlockInv, [Next]_vars, NEW t \in Txs, Live(t)'
  PROVE  /\ Built(t)
         /\ \/ Live(t) \/ tx[t].owner = "user"
            \/ thread["rpc"].at = "offer" /\ GoesOn("rpc", "append") /\ thread["rpc"].tx = t
<1>1. \A th \in Threads : AtTx(th) => Built(thread[th].tx) /\ thread[th].tx \in Txs
  BY DEF ThreadInv, WorksOn
<1>2. Live(t) => Built(t)
  <2>1. thread["rpc"].at \in {"append", "record"} => AtTx("rpc")
    BY DEF AtTx, TxSteps
  <2>2. "rpc" \in Threads
    BY DEF Threads
  <2> QED BY <1>1, <2>1, <2>2 DEF Live, TxInv
<1>3. CASE thread'["rpc"].at \in {"append", "record"} /\ thread'["rpc"].tx = t
  <2>1. \/ thread["rpc"].at \in {"append", "record"} /\ thread["rpc"].tx = t
        \/ thread["rpc"].at = "offer" /\ GoesOn("rpc", "append") /\ thread["rpc"].tx = t
    BY <1>3, RpcSteps, Forms DEF RpcGoes, GoesOn, AtTx, TxSteps
  <2>2. "rpc" \in Threads
    BY DEF Threads
  <2> QED BY <1>1, <1>2, <2>1, <2>2 DEF Live, AtTx, TxSteps
<1>4. CASE t \in pool' \cup disk'.pool
  <2>1. \/ t \in pool \cup disk.pool
        \/ \E th \in Threads : thread[th].at = "append" /\ t = thread[th].tx
    <3>1. \/ pool' \subseteq pool /\ disk' = disk
          \/ (\E th \in Threads : Append(th) \/ Clear(th)) \/ Crash \/ Saver
      BY Cases DEF Add, Apply, Applies, Validate, CheckOffer, Offer, Mine, Receive, PeerMines,
                   Record, UserBuilds, Claim, vars
    <3>2. ASSUME NEW th \in Threads, Append(th)
          PROVE  \/ t \in pool \cup disk.pool
                 \/ thread[th].at = "append" /\ t = thread[th].tx
      BY <1>4, <3>2, AppendEffect
    <3>3. \A th \in Threads : Clear(th) => pool' \subseteq pool /\ disk' = disk
      BY DEF Clear, Kept
    <3>4. Crash => t \in pool \cup disk.pool
      BY <1>4, CrashEffect
    <3>5. Saver => t \in pool \cup disk.pool
      BY <1>4 DEF Saver, SaveBlocks, SaveUtxos, SaveWrites
    <3> QED BY <1>4, <3>1, <3>2, <3>3, <3>4, <3>5
  <2>2. ASSUME NEW th \in Threads, thread[th].at = "append", t = thread[th].tx
        PROVE  Live(t) \/ (Built(t) /\ tx[t].owner = "user")
    <3>1. Built(t)
      BY <1>1, <2>2 DEF AtTx, TxSteps
    <3>2. tx[t].owner = "node" => th = "rpc"
      BY <2>2 DEF ThreadInv, WorksOn, AtTx, TxSteps
    <3>3. tx[t].owner \in {"none", "node", "user"}
      BY DEF TypeInv, Transaction
    <3> QED BY <2>2, <3>1, <3>2, <3>3 DEF Live, Built
  <2> QED BY <1>2, <2>1, <2>2 DEF Live
<1>5. ASSUME NEW b \in Blocks, t \in mined'[b].txs PROVE Live(t) \/ (Built(t) /\ tx[t].owner = "user")
  <2>1. \/ mined' = mined
        \/ \E c \in Blocks : (\E th \in Threads : Mine(th, c)) \/ PeerMines(c)
        \/ (\E th \in Threads : Validate(th) \/ Clear(th)) \/ Crash
    BY Cases DEF Add, Apply, Applies, CheckOffer, Append, Offer, Receive,
                 Record, UserBuilds, Claim, Saver, SaveBlocks, SaveUtxos, SaveWrites, vars
  <2>2. \A th \in Threads : AtBlock(th) => thread[th].block \in Blocks
    BY DEF ThreadInv, WorksOn
  <2>3. Unmined.txs = {}
    BY DEF Unmined
  <2>4. CASE mined'[b].txs \subseteq mined[b].txs
    BY <1>5, <2>4 DEF Live
  <2>5. ASSUME NEW th \in Threads, Validate(th) \/ Clear(th) PROVE mined'[b].txs \subseteq mined[b].txs
    <3>1. thread[th].block \in Blocks
      BY <2>2, <2>5 DEF Validate, Clear, AtBlock, BlockSteps
    <3>2. CASE Clear(th)
      BY <3>1, <3>2, ClearEffect DEF Same
    <3>3. CASE Validate(th)
      <4>1. mined' \in {mined, [mined EXCEPT ![thread[th].block] = Unmined]}
        BY <3>3, ValidateEffect
      <4>2. mined'[b] \in {mined[b], Unmined}
        BY <3>1, <4>1 DEF TypeInv
      <4> QED BY <2>3, <4>2
    <3> QED BY <2>5, <3>2, <3>3
  <2>6. Crash => mined'[b].txs \subseteq mined[b].txs
    BY <2>3, CrashEffect
  <2>7. ASSUME NEW c \in Blocks, (\E th \in Threads : Mine(th, c)) \/ PeerMines(c)
        PROVE  Live(t) \/ (Built(t) /\ tx[t].owner = "user")
    <3>1. CASE b # c
      BY <1>5, <2>7, <3>1, MinesEffect DEF Live
    <3>2. CASE b = c /\ \E th \in Threads : Mine(th, c)
      <4>1. mined'[c] = [status |-> "draft", past |-> dag, txs |-> pool]
        BY <3>2, MinesEffect
      <4> QED BY <1>5, <3>2, <4>1 DEF Live
    <3>3. CASE b = c /\ PeerMines(c)
      <4>1. tx[t].owner = "user"
        BY <1>5, <3>3, MinesEffect
      <4> QED BY <4>1 DEF Built
    <3> QED BY <2>7, <3>1, <3>2, <3>3
  <2> QED BY <2>1, <2>4, <2>5, <2>6, <2>7
<1> QED BY <1>2, <1>3, <1>4, <1>5 DEF Live

\* The payments to an account grow by one at most, and only when it is being paid anew.
LEMMA PaymentsGrow ==
  ASSUME TypeInv, ThreadInv, TxInv, BlockInv, [Next]_vars, NEW a \in Accounts
  PROVE  \A t \in Txs : t \in Payments(a)' =>
           \/ t \in Payments(a)
           \/ /\ thread["rpc"].at = "offer" /\ GoesOn("rpc", "append")
              /\ thread["rpc"].tx = t /\ tx[t].for = a
<1> SUFFICES ASSUME NEW t \in Txs, tx'[t].for = a, Live(t)'
             PROVE  \/ t \in Payments(a)
                    \/ /\ thread["rpc"].at = "offer" /\ GoesOn("rpc", "append")
                       /\ thread["rpc"].tx = t /\ tx[t].for = a
  BY DEF Payments
<1>1. Built(t) /\ tx[t].for = a
  BY LiveSteps, StepKeepsTxs DEF KeptTxs
<1>2. tx[t].owner # "user"
  BY <1>1, ChainAssumption DEF TxInv
<1> QED BY <1>1, <1>2, LiveSteps DEF Payments

\* An account has finitely many payments.
LEMMA PaymentsFinite ==
  \A a : IsFiniteSet(Payments(a)) /\ Cardinality(Payments(a)) \in Nat
<1> SUFFICES ASSUME NEW a PROVE IsFiniteSet(Payments(a)) /\ Cardinality(Payments(a)) \in Nat
  OBVIOUS
<1>1. Payments(a) \subseteq Txs
  BY DEF Payments
<1> QED BY <1>1, ChainAssumption, FS_Subset, FS_CardinalityType

\* An account never has more payments than lives of the node allow.
LEMMA StepClaimInv ==
  ASSUME TypeInv, ThreadInv, TxInv, BlockInv, ClaimInv, TypeInv', [Next]_vars
  PROVE  ClaimInv'
<1>1. RpcGoes /\ ghost.crashes \in Nat
  BY RpcSteps, BoundAssumption DEF TypeInv
<1>2. /\ "rpc" \in Threads
      /\ thread["rpc"].at \in {"append", "record"} => AtTx("rpc")
  BY DEF Threads, AtTx, TxSteps
<1>3. AtTx("rpc") => LET t == thread["rpc"].tx IN
        /\ t \in Txs /\ Built(t) /\ tx'[t] = tx[t]
        /\ tx[t].for \notin faucet.claimed
  BY <1>2, StepKeepsTxs DEF ThreadInv, WorksOn, KeptTxs, ClaimInv
<1>4. \A a \in Accounts : a \in faucet.claimed \/ Paying(a) =>
        Crash \/ a \in faucet'.claimed \/ Paying(a)'
  <2> SUFFICES ASSUME NEW a \in Accounts, a \in faucet.claimed \/ Paying(a), ~Crash
               PROVE  a \in faucet'.claimed \/ Paying(a)'
    OBVIOUS
  <2>1. CASE a \in faucet.claimed
    BY <1>1, <2>1 DEF RpcGoes
  <2>2. CASE Paying(a)
    <3>1. \/ thread'["rpc"] = thread["rpc"] \/ GoesOn("rpc", "record")
          \/ tx[thread["rpc"].tx].owner # "node"
          \/ tx[thread["rpc"].tx].for \in faucet'.claimed
      BY <1>1, <2>2 DEF RpcGoes, Paying
    <3>2. tx[thread["rpc"].tx].owner = "node"
      BY <1>2, <1>3, <2>2, ChainAssumption DEF Paying, TxInv, TypeInv, Transaction, Built
    <3>3. tx'[thread["rpc"].tx].for = a
      BY <1>2, <1>3, <2>2 DEF Paying
    <3> QED BY <2>2, <3>1, <3>2, <3>3 DEF Paying, GoesOn
  <2> QED BY <2>1, <2>2
<1>5. ASSUME NEW a \in Accounts
      PROVE  Cardinality(Payments(a)') <=
               ghost'.crashes + (IF a \in faucet'.claimed \/ Paying(a)' THEN 1 ELSE 0)
  <2> DEFINE P == Payments(a)
             Q == Payments(a)'
             k == Cardinality(P)
  <2>1. P \subseteq Txs /\ Q \subseteq Txs /\ IsFiniteSet(P) /\ k \in Nat
    BY PaymentsFinite DEF Payments
  <2>2. k <= ghost.crashes + (IF a \in faucet.claimed \/ Paying(a) THEN 1 ELSE 0)
    BY <1>5 DEF ClaimInv
  <2>3. CASE Q \subseteq P
    <3>1. Cardinality(Q) <= k /\ Cardinality(Q) \in Nat
      <4> HIDE DEF P, Q
      <4> QED BY <2>1, <2>3, FS_Subset, FS_CardinalityType DEF k
    <3>2. \/ ghost'.crashes = ghost.crashes + 1
          \/ /\ ghost'.crashes = ghost.crashes
             /\ a \in faucet.claimed \/ Paying(a) => a \in faucet'.claimed \/ Paying(a)'
      BY <1>4, GhostSteps
    <3> HIDE DEF P, Q, k
    <3>3. Cardinality(Q) <= ghost'.crashes + (IF a \in faucet'.claimed \/ Paying(a)' THEN 1 ELSE 0)
      BY <1>1, <2>1, <2>2, <3>1, <3>2
    <3> QED BY <3>3 DEF Q
  <2>4. CASE ~(Q \subseteq P)
    <3>1. PICK t \in Txs : /\ t \in Q /\ t \notin P
                           /\ thread["rpc"].at = "offer" /\ GoesOn("rpc", "append")
                           /\ thread["rpc"].tx = t /\ tx[t].for = a
      BY <2>1, <2>4, PaymentsGrow
    <3>2. Q \subseteq P \cup {t}
      BY <2>1, <3>1, PaymentsGrow
    <3>3. Cardinality(Q) <= k + 1 /\ Cardinality(Q) \in Nat
      <4> HIDE DEF P, Q
      <4>1. IsFiniteSet(P \cup {t}) /\ Cardinality(P \cup {t}) = k + 1
        BY <2>1, <3>1, FS_AddElement DEF k
      <4> QED BY <3>2, <4>1, FS_Subset, FS_CardinalityType
    <3>4. a \notin faucet.claimed /\ ~Paying(a) /\ ghost'.crashes = ghost.crashes /\ Paying(a)'
      <4>1. a \notin faucet.claimed /\ tx'[t].for = a
        BY <1>3, <3>1 DEF AtTx, TxSteps
      <4>2. thread'["rpc"].at = "append" /\ thread'["rpc"].tx = t
        BY <3>1 DEF GoesOn
      <4>3. ~Crash
        BY <4>2, CrashEffect, Forms DEF Threads
      <4> QED BY <3>1, <4>1, <4>2, <4>3, GhostSteps DEF Paying
    <3> HIDE DEF P, Q, k
    <3>5. Cardinality(Q) <= ghost'.crashes + (IF a \in faucet'.claimed \/ Paying(a)' THEN 1 ELSE 0)
      BY <1>1, <2>1, <2>2, <3>3, <3>4
    <3> QED BY <3>5 DEF Q
  <2> QED BY <2>3, <2>4
<1>6. ASSUME NEW a \in Accounts, a \in faucet'.claimed, ghost'.crashes = 0
      PROVE  \E t \in Txs : tx'[t].for = a /\ Stored(t)'
  <2>1. ~Crash /\ ghost.crashes = 0
    BY <1>1, <1>6, GhostSteps
  <2>2. \E t \in Txs : tx[t].for = a /\ Stored(t)
    <3>1. CASE a \in faucet.claimed
      BY <2>1, <3>1 DEF ClaimInv, Stored
    <3>2. CASE thread["rpc"].at = "record" /\ a = tx[thread["rpc"].tx].for
      BY <1>2, <1>3, <3>2 DEF ClaimInv, Stored
    <3> QED BY <1>1, <1>6, <2>1, <3>1, <3>2 DEF RpcGoes
  <2>3. PICK t \in Txs : tx[t].for = a /\ Stored(t)
    BY <2>2
  <2>4. tx'[t].for = a
    <3>1. Built(t)
      BY <1>6, <2>3, ChainAssumption DEF TxInv, Unbuilt
    <3> QED BY <2>3, <3>1, StepKeepsTxs DEF KeptTxs
  <2> QED BY <2>1, <2>3, <2>4, StoredKept
<1>7. ASSUME AtTx("rpc")' PROVE tx'[thread'["rpc"].tx].for \notin faucet'.claimed
  <2>1. CASE thread'["rpc"] = thread["rpc"] /\ faucet'.claimed = faucet.claimed
    BY <1>3, <1>7, <2>1 DEF AtTx
  <2>2. CASE \E t \in Txs : /\ thread'["rpc"] = Offering(t) /\ tx'[t].for \notin faucet.claimed
                            /\ faucet'.claimed = faucet.claimed
    BY <2>2, Forms
  <2>3. CASE /\ thread["rpc"].at \in {"offer", "append"} /\ thread'["rpc"].tx = thread["rpc"].tx
             /\ faucet'.claimed = faucet.claimed
    BY <1>3, <2>3 DEF AtTx, TxSteps
  <2>4. thread'["rpc"] # Idle
    BY <1>7, Forms DEF AtTx, TxSteps
  <2> QED BY <1>1, <1>7, <2>1, <2>2, <2>3, <2>4 DEF RpcGoes, GoesOn
<1>8. ASSUME thread'["rpc"].at = "record" PROVE Stored(thread["rpc"].tx)'
  <2>1. PICK t : t = thread'["rpc"].tx
    OBVIOUS
  <2>2. CASE thread'["rpc"] = thread["rpc"] /\ ~Crash
    <3>1. t \in Txs /\ Stored(t)
      BY <1>2, <1>3, <1>8, <2>1, <2>2 DEF ClaimInv, Stored
    <3>2. Stored(t)'
      BY <2>2, <3>1, StoredKept
    <3> QED BY <2>1, <3>2 DEF Stored, Confirmed, Confirming
  <2>3. CASE pool' = pool \cup {thread["rpc"].tx} /\ GoesOn("rpc", "record")
    BY <2>3 DEF Stored, GoesOn
  <2> QED BY <1>1, <1>8, <2>2, <2>3, Forms DEF RpcGoes, GoesOn, AtTx, TxSteps
<1> QED BY <1>5, <1>6, <1>7, <1>8 DEF ClaimInv, Stored
----------------------------------------------------------------------------
(***************************************************************************)
(* The theorems.                                                           *)
(***************************************************************************)
LEMMA StepIInv == ASSUME IInv, [Next]_vars PROVE IInv'
<1>1. TypeInv' /\ ThreadInv' /\ BlockInv'
  BY StepTypeInv, StepThreadInv, StepBlockInv DEF IInv
<1>2. TxInv' /\ DagInv' /\ SaverInv'
  BY <1>1, StepTxInv, StepDagInv, StepSaverInv DEF IInv
<1>3. ReplayInv' /\ ConflictInv' /\ ClaimInv'
  BY <1>1, StepReplayInv, StepConflictInv, StepClaimInv DEF IInv
<1> QED BY <1>1, <1>2, <1>3 DEF IInv

\* IInv holds in every state the node can reach, however its threads interleave.
THEOREM Inductive == Spec => []IInv
<1>1. Init => IInv
  BY InitIInv
<1>2. IInv /\ [Next]_vars => IInv'
  BY StepIInv
<1> QED BY <1>1, <1>2, PTL DEF Spec

\* TypeOK for any number of blocks, transactions and accounts.
THEOREM TypeCorrect == Spec => []TypeOK
<1>1. IInv => TypeOK
  <2> SUFFICES ASSUME IInv PROVE TypeOK
    OBVIOUS
  <2>1. faucet.keys \in 0..Cardinality(Txs)
    <3> DEFINE N == {t \in Txs : tx[t].owner = "node"}
    <3>1. Cardinality(N) <= Cardinality(Txs) /\ Cardinality(N) \in Nat /\ Cardinality(Txs) \in Nat
      BY ChainAssumption, FS_Subset, FS_CardinalityType
    <3>2. faucet.keys <= Cardinality(N) /\ faucet.keys \in Nat
      BY DEF IInv, TxInv, TypeInv
    <3> HIDE DEF N
    <3> QED BY <3>1, <3>2
  <2>2. {thread[th].at : th \in {"miner", "peer"}} \cap {"record"} = {}
    <3>1. \A th \in {"miner", "peer"} : thread[th].at # "record"
      BY DEF IInv, ThreadInv, WorksOn, AtTx, TxSteps, Threads
    <3> QED BY <3>1
  <2>3. [dag |-> dag, utxo |-> utxo, pool |-> pool, torn |-> ghost.torn] \in State
    BY DEF IInv, TypeInv, State, Outcomes
  <2> QED BY <2>1, <2>2, <2>3 DEF IInv, TypeInv, TypeOK
<1> QED BY <1>1, Inductive, PTL

\* The parents of every block of the DAG are in the DAG (DAG.add_block rejects orphans),
\* through saves, crashes and restarts.
THEOREM DagIsClosed == Spec => []DagClosed
<1>1. IInv => DagClosed
  BY DEF IInv, DagInv, Closed, DagClosed
<1> QED BY <1>1, Inductive, PTL

\* Unless it descends from a torn snapshot, and while no thread is between inserting a
\* block and applying its last transaction, the output set is what replaying the DAG gives.
THEOREM OutputsFollow == Spec => []UtxoFollowsDag
<1>1. IInv => UtxoFollowsDag
  BY FollowsIsWhole DEF IInv, ReplayInv, Whole, UtxoFollowsDag
<1> QED BY <1>1, Inductive, PTL

\* Two confirmed transactions that spend one output were in one block, or in blocks that
\* raced through validation, or spend an output confirmed twice: there is no other way in.
THEOREM ConflictsExplained == Spec => []ConflictsHaveACause
<1>1. IInv => ConflictsHaveACause
  <2> SUFFICES ASSUME IInv, ~ghost.torn, NEW t \in Txs, NEW u \in Txs, Conflicting(dag, t, u),
                      Confirming(dag, t) \cap Confirming(dag, u) = {}, ~Doubled(dag, tx[t].in)
               PROVE  Confirming(dag, t) \cup Confirming(dag, u) \subseteq ghost.raced
    BY DEF ConflictsHaveACause
  <2>1. \A b \in Confirming(dag, t), c \in Confirming(dag, u) : {b, c} \subseteq ghost.raced
    <3> SUFFICES ASSUME NEW b \in Confirming(dag, t), NEW c \in Confirming(dag, u)
                 PROVE  {b, c} \subseteq ghost.raced
      OBVIOUS
    <3>1. b # c /\ b \in Entered /\ c \in Entered
      BY DEF Confirming, Entered
    <3>2. Excused(dag, b, c)
      BY <3>1 DEF IInv, ConflictInv, AllExcused
    <3> QED BY <3>2 DEF Excused, Conflicting, Confirming
  <2> QED BY <2>1 DEF Conflicting, Confirmed
<1> QED BY <1>1, Inductive, PTL

\* The faucet pays an account at most once for each life of the node, and a claim on
\* record keeps its payment, in the mempool or in a block, until a crash.
THEOREM ClaimsPaidOnce == Spec => []ClaimedOncePerLife
<1>1. IInv => ClaimedOncePerLife
  <2> SUFFICES ASSUME IInv, NEW a \in Accounts
               PROVE  LET payments == {t \in Txs : tx[t].for = a /\ (t \in pool \/ Confirmed(dag, t))}
                      IN /\ Cardinality(payments) <= 1 + ghost.crashes
                         /\ a \in faucet.claimed /\ ghost.crashes = 0 => payments # {}
    BY DEF ClaimedOncePerLife
  <2> DEFINE payments == {t \in Txs : tx[t].for = a /\ (t \in pool \/ Confirmed(dag, t))}
  <2>1. payments \subseteq Payments(a)
    <3>1. \A t \in Txs : Confirmed(dag, t) => \E b \in Blocks : t \in mined[b].txs
      BY DEF Confirmed, Confirming, IInv, TypeInv, AllBlocks
    <3> QED BY <3>1 DEF Payments, Live
  <2>2. Cardinality(payments) <= Cardinality(Payments(a)) /\ Cardinality(payments) \in Nat
    <3> HIDE DEF payments
    <3> QED BY <2>1, PaymentsFinite, FS_Subset, FS_CardinalityType
  <2>3. Cardinality(Payments(a)) <= ghost.crashes + 1 /\ ghost.crashes \in Nat
    <3>1. ghost.crashes \in Nat
      BY BoundAssumption DEF IInv, TypeInv
    <3>2. Cardinality(Payments(a)) <=
            ghost.crashes + (IF a \in faucet.claimed \/ Paying(a) THEN 1 ELSE 0)
      BY DEF IInv, ClaimInv
    <3>3. Cardinality(Payments(a)) \in Nat
      BY PaymentsFinite
    <3> QED BY <3>1, <3>2, <3>3
  <2>4. Cardinality(payments) <= 1 + ghost.crashes
    <3> HIDE DEF payments
    <3> QED BY <2>2, <2>3, PaymentsFinite
  <2>5. a \in faucet.claimed /\ ghost.crashes = 0 => payments # {}
    BY DEF IInv, ClaimInv
  <2> QED BY <2>4, <2>5
<1> QED BY <1>1, Inductive, PTL
=============================================================================
