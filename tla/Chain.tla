------------------------------- MODULE Chain -------------------------------
(***************************************************************************)
(* One full node's chain: the block DAG, the UTXO set and the mempool of   *)
(* core/blockchain.py, the wallet and the faucet that feed the mempool,    *)
(* and the threads of node/fullnode.py that work on all three at once:     *)
(*                                                                         *)
(*   miner   the auto-miner: mine_block in a loop                          *)
(*   rpc     /mineblock, /sendtx and /faucet/claim, one request at a time  *)
(*   peer    the blocks and transactions that arrive from the network      *)
(*   saver   the persist loop: Blockchain.save                             *)
(*                                                                         *)
(* There is a lock inside the UTXO set, one inside the DAG and one around  *)
(* the mempool, and none around add_block: two threads that add blocks     *)
(* interleave freely between its steps.                                    *)
(*                                                                         *)
(* A transaction spends one output and is itself the output that its owner *)
(* gets back; what it pays to others, fees and block rewards are left out. *)
(* So there are as many unspent outputs as there are Coins, unless         *)
(* something is created from nothing.                                      *)
(***************************************************************************)
EXTENDS Integers, FiniteSets

CONSTANTS
  Genesis, Blocks,     \* the genesis block and the hashes of the others
  Txs,                 \* the hashes of transactions
  NodeCoin, UserCoin,  \* genesis outputs of the node's wallet and of a user
  Accounts,            \* accounts that may claim from the faucet
  Nil,
  MaxSaves, MaxCrashes

ASSUME ChainAssumption ==
  /\ IsFiniteSet(Txs)
  /\ Nil \notin Blocks \cup Txs \cup Accounts
  /\ Genesis \notin Blocks
  /\ NodeCoin # UserCoin
  /\ {NodeCoin, UserCoin, Nil} \cap Txs = {} /\ Nil \notin {NodeCoin, UserCoin}
ASSUME BoundAssumption == {MaxSaves, MaxCrashes} \subseteq Nat

VARIABLES
  tx,      \* the transactions built so far
  mined,   \* the blocks anybody has mined so far
  dag,     \* DAGChain._blocks
  utxo,    \* UTXOSet._utxos
  pool,    \* mempool
  thread,  \* where the miner, the RPC thread and the peer's thread are
  saver,   \* what the persist thread has collected; it holds the mempool lock
  disk,    \* chain_state.json
  faucet,  \* faucet.db, and how many keys the node's wallet has derived
  ghost    \* bounds, and what the properties need to know of the past

vars == <<tx, mined, dag, utxo, pool, thread, saver, disk, faucet, ghost>>

Threads == {"miner", "rpc", "peer"}
Coins == {NodeCoin, UserCoin}
Outputs == Coins \cup Txs
AllBlocks == Blocks \cup {Genesis}

\* key: the index of the wallet key its output belongs to
Transaction ==
  [owner: {"none", "node", "user"}, in: Outputs \cup {Nil}, key: Nat,
   for: Accounts \cup {Nil}]

\* past: the blocks its miner had, so that its parents are their tips
Block == [status: {"none", "draft", "public"}, past: SUBSET AllBlocks, txs: SUBSET Txs]

Thread ==
  [at: {"idle", "validate", "add", "apply", "clear", "offer", "append", "record"},
   block: Blocks \cup {Nil}, tx: Txs \cup {Nil}, todo: SUBSET Txs]

State ==
  [dag: SUBSET AllBlocks, utxo: [Outputs -> {"none", "unspent", "spent"}],
   pool: SUBSET Txs, torn: BOOLEAN]

Unbuilt == [owner |-> "none", in |-> Nil, key |-> 0, for |-> Nil]
Unmined == [status |-> "none", past |-> {}, txs |-> {}]
Idle == [at |-> "idle", block |-> Nil, tx |-> Nil, todo |-> {}]
Handling(b) == [at |-> "validate", block |-> b, tx |-> Nil, todo |-> {}]
Offering(t) == [at |-> "offer", block |-> Nil, tx |-> t, todo |-> {}]

PoolLocked == saver.at # "idle"
Unspent(o) == utxo[o] = "unspent"

\* the frontier of a set of blocks that has the parents of its members
Tips(S) == {b \in S : \A c \in S \ {Genesis} : b \notin mined[c].past}
Parents(b) == Tips(mined[b].past)
----------------------------------------------------------------------------
(***************************************************************************)
(* Transactions.  A wallet builds from the confirmed outputs; whether the  *)
(* mempool already spends them it does not ask.                            *)
(***************************************************************************)
\* collect_utxos: unspent outputs whose key the wallet has derived
Spendable(owner) ==
  {o \in Outputs :
     /\ Unspent(o)
     /\ IF o \in Coins
        THEN o = (IF owner = "node" THEN NodeCoin ELSE UserCoin)
        ELSE tx[o].owner = owner /\ (owner = "user" \/ tx[o].key <= faucet.keys)}

\* a client builds from /utxos and signs
UserBuilds(t) ==
  /\ tx[t].owner = "none"
  /\ \E o \in Spendable("user") :
       tx' = [tx EXCEPT ![t] = [Unbuilt EXCEPT !.owner = "user", !.in = o]]
  /\ UNCHANGED <<mined, dag, utxo, pool, thread, saver, disk, faucet, ghost>>

\* /sendtx, or a TX message
Offer(th, t) ==
  /\ th \in {"rpc", "peer"}
  /\ thread[th].at = "idle"
  /\ tx[t].owner = "user"
  /\ thread' = [thread EXCEPT ![th] = Offering(t)]
  /\ UNCHANGED <<tx, mined, dag, utxo, pool, saver, disk, faucet, ghost>>

\* the cooldown is as long as the model's life
MayClaimAlways(a) == a \in Accounts
MayClaim(a) == a \notin faucet.claimed

\* FaucetService.claim up to build_transaction, whose change goes to a new key
Claim(t, a) ==
  /\ thread["rpc"].at = "idle"
  /\ tx[t].owner = "none"
  /\ MayClaim(a)
  /\ \E o \in Spendable("node") :
       tx' = [tx EXCEPT ![t] = [owner |-> "node", in |-> o, key |-> faucet.keys + 1, for |-> a]]
  /\ faucet' = [faucet EXCEPT !.keys = @ + 1]
  /\ thread' = [thread EXCEPT !["rpc"] = Offering(t)]
  /\ UNCHANGED <<mined, dag, utxo, pool, saver, disk, ghost>>

\* _validate_transaction, before the mempool lock is taken
ValidKnown(t) == utxo[tx[t].in] # "none"
ValidTx(t) == Unspent(tx[t].in)

CheckOffer(th) ==
  /\ thread[th].at = "offer"
  /\ thread' = [thread EXCEPT ![th] =
                  IF ValidTx(thread[th].tx) THEN [@ EXCEPT !.at = "append"] ELSE Idle]
  /\ UNCHANGED <<tx, mined, dag, utxo, pool, saver, disk, faucet, ghost>>

RecordsAny(t) == tx[t].owner # "none"
Records(t) == tx[t].owner = "node"

Append(th) ==
  LET t == thread[th].tx IN
  /\ thread[th].at = "append"
  /\ ~PoolLocked
  /\ pool' = pool \cup {t}
  /\ thread' = [thread EXCEPT ![th] =
                  IF Records(t) THEN [@ EXCEPT !.at = "record"] ELSE Idle]
  /\ UNCHANGED <<tx, mined, dag, utxo, saver, disk, faucet, ghost>>

\* the claim goes into faucet.db once its transaction is in the mempool
Record ==
  /\ thread["rpc"].at = "record"
  /\ faucet' = [faucet EXCEPT !.claimed = @ \cup {tx[thread["rpc"].tx].for}]
  /\ thread' = [thread EXCEPT !["rpc"] = Idle]
  /\ UNCHANGED <<tx, mined, dag, utxo, pool, saver, disk, ghost>>
----------------------------------------------------------------------------
(***************************************************************************)
(* Blocks                                                                  *)
(***************************************************************************)
\* mine_block up to the proof of work: every tip is a parent, every transaction
\* of the mempool goes in.  Bound: no empty blocks.
Mine(th, b) ==
  /\ th \in {"miner", "rpc"}
  /\ thread[th].at = "idle"
  /\ mined[b].status = "none"
  /\ ~PoolLocked
  /\ pool # {}
  /\ mined' = [mined EXCEPT ![b] = [status |-> "draft", past |-> dag, txs |-> pool]]
  /\ thread' = [thread EXCEPT ![th] = Handling(b)]
  /\ UNCHANGED <<tx, dag, utxo, pool, saver, disk, faucet, ghost>>

\* somebody else mines on the blocks he knows, with the users' transactions
\* that they do not spend already.  Bound: no empty blocks.
PeerMines(b) ==
  /\ mined[b].status = "none"
  /\ \E past \in SUBSET {c \in Blocks : mined[c].status = "public"} :
     \E txs \in SUBSET {t \in Txs : tx[t].owner = "user"} :
       /\ txs # {}
       /\ \A c \in past : mined[c].past \subseteq past \cup {Genesis}
       /\ \A t \in txs : \A c \in past : \A u \in mined[c].txs : tx[u].in # tx[t].in
       /\ mined' = [mined EXCEPT ![b] =
                      [status |-> "public", past |-> past \cup {Genesis}, txs |-> txs]]
  /\ UNCHANGED <<tx, dag, utxo, pool, thread, saver, disk, faucet, ghost>>

\* a BLOCK message; add_block begins with the test whether the block is known
Receive(b) ==
  /\ thread["peer"].at = "idle"
  /\ mined[b].status = "public"
  /\ b \notin dag
  /\ thread' = [thread EXCEPT !["peer"] = Handling(b)]
  /\ UNCHANGED <<tx, mined, dag, utxo, pool, saver, disk, faucet, ghost>>

\* _validate_block: every transaction against the UTXO set as it is now, each
\* for itself
ValidOrphan(b) == \A t \in mined[b].txs : ValidTx(t)
ValidBlock(b) == Parents(b) \subseteq dag /\ \A t \in mined[b].txs : ValidTx(t)

\* the other threads that are between their own validation and the last change
\* of the UTXO set
Overlapping(th) == {x \in Threads \ {th} : thread[x].at \in {"add", "apply"}}

Validate(th) ==
  LET b == thread[th].block IN
  /\ thread[th].at = "validate"
  /\ IF ValidBlock(b)
     THEN /\ thread' = [thread EXCEPT ![th] = [@ EXCEPT !.at = "add"]]
          /\ ghost' = IF Overlapping(th) = {} THEN ghost
                      ELSE [ghost EXCEPT !.raced =
                              @ \cup {b} \cup {thread[x].block : x \in Overlapping(th)}]
          /\ UNCHANGED mined
     ELSE /\ thread' = [thread EXCEPT ![th] = Idle]
          /\ mined' = IF mined[b].status = "draft" THEN [mined EXCEPT ![b] = Unmined] ELSE mined
          /\ UNCHANGED ghost
  /\ UNCHANGED <<tx, dag, utxo, pool, saver, disk, faucet>>

Add(th) ==
  LET b == thread[th].block IN
  /\ thread[th].at = "add"
  /\ dag' = dag \cup {b}
  /\ thread' = [thread EXCEPT ![th] = [@ EXCEPT !.at = "apply", !.todo = mined[b].txs]]
  /\ UNCHANGED <<tx, mined, utxo, pool, saver, disk, faucet, ghost>>

\* _apply_transaction: the result of spend() is not looked at, and add()
\* overwrites
AppliedUnspent(u, t) == [u EXCEPT ![t] = "unspent"]
Applied(u, t) == [[u EXCEPT ![tx[t].in] = "spent"] EXCEPT ![t] = "unspent"]

Apply(th, t) ==
  /\ thread[th].at = "apply" /\ t \in thread[th].todo
  /\ utxo' = Applied(utxo, t)
  /\ thread' = [thread EXCEPT ![th].todo = @ \ {t}]
  /\ UNCHANGED <<tx, mined, dag, pool, saver, disk, faucet, ghost>>

Applies(th) ==
  /\ thread[th].at = "apply" /\ thread[th].todo = {}
  /\ thread' = [thread EXCEPT ![th].at = "clear"]
  /\ UNCHANGED <<tx, mined, dag, utxo, pool, saver, disk, faucet, ghost>>

\* what the block confirmed leaves the mempool; our own block is broadcast
Kept(b) == pool \ mined[b].txs

Clear(th) ==
  LET b == thread[th].block IN
  /\ thread[th].at = "clear"
  /\ ~PoolLocked
  /\ pool' = Kept(b)
  /\ mined' = [mined EXCEPT ![b].status = "public"]
  /\ thread' = [thread EXCEPT ![th] = Idle]
  /\ UNCHANGED <<tx, dag, utxo, saver, disk, faucet, ghost>>
----------------------------------------------------------------------------
(***************************************************************************)
(* save() reads the blocks, then the outputs, then the mempool, under the  *)
(* mempool lock alone.                                                     *)
(***************************************************************************)
InApply == \E th \in Threads : thread[th].at = "apply"

SaveBlocks ==
  /\ saver.at = "idle"
  /\ ghost.saves < MaxSaves
  /\ saver' = [at |-> "utxos", dag |-> dag, utxo |-> utxo, torn |-> InApply]
  /\ ghost' = [ghost EXCEPT !.saves = @ + 1]
  /\ UNCHANGED <<tx, mined, dag, utxo, pool, thread, disk, faucet>>

SaveUtxos ==
  /\ saver.at = "utxos"
  /\ saver' = [saver EXCEPT !.at = "write", !.utxo = utxo,
                            !.torn = @ \/ dag # saver.dag]
  /\ UNCHANGED <<tx, mined, dag, utxo, pool, thread, disk, faucet, ghost>>

SaveWrites ==
  /\ saver.at = "write"
  /\ disk' = [dag |-> saver.dag, utxo |-> saver.utxo, pool |-> pool,
              torn |-> saver.torn \/ ghost.torn]
  /\ saver' = [saver EXCEPT !.at = "idle"]
  /\ UNCHANGED <<tx, mined, dag, utxo, pool, thread, faucet, ghost>>

\* the threads with a draft that never was in the DAG: it dies with the process
Drafting ==
  {th \in {"miner", "rpc"} : thread[th].at \in {"validate", "add"}}

\* the process dies and load() reads the last snapshot; the wallet file has the
\* first key only, faucet.db every claim
Crash ==
  /\ ghost.crashes < MaxCrashes
  /\ dag' = disk.dag /\ utxo' = disk.utxo /\ pool' = disk.pool
  /\ thread' = [th \in Threads |-> Idle]
  /\ saver' = [saver EXCEPT !.at = "idle"]
  /\ faucet' = [faucet EXCEPT !.keys = 0]
  /\ mined' = [b \in Blocks |-> IF \E th \in Drafting : thread[th].block = b
                                THEN Unmined ELSE mined[b]]
  /\ ghost' = [ghost EXCEPT !.crashes = @ + 1, !.torn = disk.torn]
  /\ UNCHANGED <<tx, disk>>

Fresh == [o \in Outputs |-> IF o \in Coins THEN "unspent" ELSE "none"]

Init ==
  /\ tx = [t \in Txs |-> Unbuilt]
  /\ mined = [b \in Blocks |-> Unmined]
  /\ dag = {Genesis} /\ utxo = Fresh /\ pool = {}
  /\ thread = [th \in Threads |-> Idle]
  /\ saver = [at |-> "idle", dag |-> {Genesis}, utxo |-> Fresh, torn |-> FALSE]
  /\ disk = [dag |-> {Genesis}, utxo |-> Fresh, pool |-> {}, torn |-> FALSE]
  /\ faucet = [claimed |-> {}, keys |-> 0]
  /\ ghost = [raced |-> {}, torn |-> FALSE, saves |-> 0, crashes |-> 0]

AddBlock(th) ==
  \/ Validate(th) \/ Add(th) \/ Applies(th) \/ Clear(th)
  \/ \E t \in Txs : Apply(th, t)
OfferSteps(th) == CheckOffer(th) \/ Append(th)

Miner == AddBlock("miner") \/ \E b \in Blocks : Mine("miner", b)
Rpc ==
  \/ AddBlock("rpc") \/ OfferSteps("rpc") \/ Record
  \/ \E b \in Blocks : Mine("rpc", b)
  \/ \E t \in Txs : Offer("rpc", t) \/ \E a \in Accounts : Claim(t, a)
Peer ==
  \/ AddBlock("peer") \/ OfferSteps("peer")
  \/ \E b \in Blocks : Receive(b)
  \/ \E t \in Txs : Offer("peer", t)
Saver == SaveBlocks \/ SaveUtxos \/ SaveWrites
Others == (\E b \in Blocks : PeerMines(b)) \/ (\E t \in Txs : UserBuilds(t))

Next == Miner \/ Rpc \/ Peer \/ Saver \/ Others \/ Crash

Spec == Init /\ [][Next]_vars
----------------------------------------------------------------------------
(***************************************************************************)
(* Properties                                                              *)
(***************************************************************************)
Confirming(S, t) == {b \in S \ {Genesis} : t \in mined[b].txs}
Confirmed(S, t) == Confirming(S, t) # {}
Doubled(S, o) == \E b, c \in Confirming(S, o) : b # c

\* two transactions of S that spend the same output
Conflicting(S, t, u) ==
  t # u /\ Confirmed(S, t) /\ Confirmed(S, u) /\ tx[t].in = tx[u].in

\* what the outputs say is what the blocks S say
Replays(u, S) ==
  /\ \A t \in Txs : (u[t] # "none") = Confirmed(S, t)
  /\ \A o \in Outputs :
       LET spenders == {t \in Txs : Confirmed(S, t) /\ tx[t].in = o}
       IN /\ u[o] = "spent" => spenders # {}
          /\ u[o] = "unspent" /\ spenders # {} => Doubled(S, o)

\* The threads, the DAG, the outputs and the mempool stay in their types, and
\* only the RPC thread is ever about to record a claim.
TypeOK ==
  /\ tx \in [Txs -> Transaction] /\ mined \in [Blocks -> Block]
  /\ thread \in [Threads -> Thread]
  /\ {thread[th].at : th \in {"miner", "peer"}} \cap {"record"} = {}
  /\ [dag |-> dag, utxo |-> utxo, pool |-> pool, torn |-> ghost.torn] \in State
  /\ disk \in State
  /\ saver.at \in {"idle", "utxos", "write"}
  /\ faucet.claimed \subseteq Accounts /\ faucet.keys \in 0..Cardinality(Txs)
  /\ ghost.raced \subseteq Blocks
  /\ ghost.saves \in 0..MaxSaves /\ ghost.crashes \in 0..MaxCrashes

\* No block is in the DAG, or in a snapshot of it, without the parents its
\* header names, whichever threads add blocks at the same time and whatever is
\* lost in a crash.
DagClosed ==
  \A S \in {dag, disk.dag} : \A b \in S \ {Genesis} : Parents(b) \subseteq S

\* Whenever no thread is between inserting a block and applying its last
\* transaction, the UTXO set is what replaying the DAG gives: the two are kept
\* under two locks, and a snapshot that was taken between them is the one
\* thing that ever parts them.
UtxoFollowsDag == ~InApply /\ ~ghost.torn => Replays(utxo, dag)

\* Two confirmed transactions that spend the same output were in one block
\* (_validate_block checks each for itself), in blocks that two threads were
\* validating and applying at the same time, or spend an output that the
\* second confirmation of its transaction made unspent again.
ConflictsHaveACause ==
  ~ghost.torn =>
    \A t, u \in Txs : Conflicting(dag, t, u) =>
      \/ Confirming(dag, t) \cap Confirming(dag, u) # {}
      \/ Confirming(dag, t) \cup Confirming(dag, u) \subseteq ghost.raced
      \/ Doubled(dag, tx[t].in)

\* An account gets one faucet payment in each life of the process: the claim
\* is recorded only after its transaction is in the mempool, so that a crash
\* between the two lets it claim again.  Until then a claim on record has its
\* transaction in the mempool or in a block: no thread's block pushes it out
\* unconfirmed.
ClaimedOncePerLife ==
  \A a \in Accounts :
    LET payments == {t \in Txs : tx[t].for = a /\ (t \in pool \/ Confirmed(dag, t))}
    IN /\ Cardinality(payments) <= 1 + ghost.crashes
       /\ a \in faucet.claimed /\ ghost.crashes = 0 => payments # {}
=============================================================================
