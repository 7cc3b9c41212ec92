------------------------------- MODULE Gossip -------------------------------
(***************************************************************************)
(* network/p2p.py and the callbacks node/fullnode.py gives it: how blocks  *)
(* and transactions travel between nodes, and how a node that connects     *)
(* catches up.                                                             *)
(*                                                                         *)
(* A node has one thread for every peer, which reads a message, handles it *)
(* and sends what follows from it before it reads the next; a local thread *)
(* mines or takes a transaction and broadcasts it.  A send blocks while    *)
(* the socket's buffers are full.  The sets a node shares between its      *)
(* threads are read and written without a lock.                            *)
(*                                                                         *)
(* Left out: PING and PONG.  The list of PEERS is always empty, because no *)
(* Peer has a port: nobody connects anywhere but to its seeds, when it     *)
(* starts.  A peer that comes back is served by the thread it had before.  *)
(***************************************************************************)
EXTENDS Integers, FiniteSets, Sequences, FiniteSetsExt

CONSTANTS
  Nodes, Blocks, Txs, Nil,
  Seeds,      \* the nodes that each node connects to when it starts
  Cap,        \* frames that fit into a connection's buffers in one direction
  Makers,     \* bound: the nodes that mine or take transactions from clients
  Faulty,     \* bound: the nodes that crash or lose connections
  MaxFaults   \* bound: how often they do

ASSUME NetAssumption ==
  /\ IsFiniteSet(Nodes) /\ IsFiniteSet(Blocks)
  /\ Seeds \in [Nodes -> SUBSET Nodes] /\ Makers \cup Faulty \subseteq Nodes
  /\ Cap \in Nat \ {0} /\ MaxFaults \in Nat
  /\ Blocks \cap Txs = {} /\ Nil \notin Blocks \cup Txs \cup Nodes

VARIABLES
  made,    \* the blocks mined and the transactions signed so far
  needs,   \* the blocks that each of them builds on
  has,     \* each node's DAG and mempool
  known,   \* _known_inv
  up,      \* the nodes that run
  conn,    \* the pairs of connected nodes (_peers)
  wire,    \* what is in flight in each direction
  thread,  \* what the thread of a node for a peer is doing; its own name stands
           \* for the local thread
  faults,
  owed     \* for the properties: <<peer, item>> that were to be relayed so far

vars == <<made, needs, has, known, up, conn, wire, thread, faults, owed>>
chains == <<made, needs, has>>
net == <<up, conn, faults>>

Items == Blocks \cup Txs
Pairs == Nodes \X Nodes
Peers(n) == {m \in Nodes : {n, m} \in conn}

Hello(h) == [type |-> "HELLO", height |-> h]
GetFrom(h) == [type |-> "GETBLOCKS", height |-> h]
GetHash(b) == [type |-> "GETBLOCKS", hash |-> b]
Inv(S) == [type |-> "INV", hashes |-> S]
NoPeers == [type |-> "PEERS"]
Item(i) == [type |-> "BLOCK or TX", item |-> i]

Idle == [at |-> "idle", item |-> Nil, todo |-> {}]
Replying(S) == [Idle EXCEPT !.todo = S]
Handling(i, step) == [at |-> step, item |-> i, todo |-> {}]

\* the height of the highest block of S: the genesis block has height 0
Chained(C) == \A b, c \in C : b = c \/ b \in needs[c] \/ c \in needs[b]
Height(S) == Max({Cardinality(C) : C \in {D \in SUBSET (S \cap Blocks) : Chained(D)}})
HeightOf(b) == Height(needs[b]) + 1
----------------------------------------------------------------------------
\* mine_block takes all tips as parents; a transaction spends what some block
\* created.  _send_tx and the mining loop broadcast what was accepted.
Make(n, i) ==
  /\ n \in up \cap Makers /\ i \notin made /\ thread[<<n, n>>] = Idle
  /\ made' = made \cup {i}
  /\ \E S \in SUBSET (has[n] \cap Blocks) :
       /\ IF i \in Blocks THEN S = has[n] \cap Blocks ELSE Cardinality(S) <= 1
       /\ needs' = [needs EXCEPT ![i] = S]
  /\ has' = [has EXCEPT ![n] = @ \cup {i}]
  /\ thread' = [thread EXCEPT ![<<n, n>>] = Handling(i, "relay")]
  /\ UNCHANGED <<known, wire, net, owed>>

\* _handle_message.  A request for one block by its hash is answered like a
\* request from height 0: with the inventory.
Wanted(n, S) == S \ known[n]
Reply(n, msg) ==
  CASE msg.type = "HELLO" ->
         {NoPeers} \cup IF msg.height > Height(has[n]) THEN {GetFrom(Height(has[n]))} ELSE {}
    [] msg.type = "GETBLOCKS" ->
         LET h == IF "height" \in DOMAIN msg THEN msg.height ELSE 0
         IN {Inv({b \in has[n] \cap Blocks : HeightOf(b) > h})}
    [] msg.type = "INV" -> {GetHash(b) : b \in Wanted(n, msg.hashes)}
    [] msg.type = "PEERS" -> {}

HasMail(n, m) == m \in Peers(n) /\ thread[<<n, m>>] = Idle /\ wire[<<m, n>>] # <<>>

Reads(n, m) ==
  /\ HasMail(n, m)
  /\ wire' = [wire EXCEPT ![<<m, n>>] = Tail(@)]
  /\ UNCHANGED <<chains, net, owed>>

TakeRequest(n, m) ==
  LET msg == Head(wire[<<m, n>>]) IN
  /\ Reads(n, m)
  /\ msg.type # "BLOCK or TX"
  /\ thread' = [thread EXCEPT ![<<n, m>>] = Replying({<<m, r>> : r \in Reply(n, msg)})]
  /\ UNCHANGED known

\* a block or transaction counts as known before it is accepted
TakeItem(n, m) ==
  LET msg == Head(wire[<<m, n>>]) IN
  /\ Reads(n, m)
  /\ msg.type = "BLOCK or TX"
  /\ known' = [known EXCEPT ![n] = @ \cup {msg.item}]
  /\ thread' = [thread EXCEPT ![<<n, m>>] =
                  IF msg.item \in known[n] THEN Idle ELSE Handling(msg.item, "accept")]

\* add_block or add_to_mempool
AcceptsAny(n, i) == i \notin has[n]
Accepts(n, i) == i \notin has[n] /\ needs[i] \subseteq has[n]

Accept(n, m) ==
  LET i == thread[<<n, m>>].item IN
  /\ thread[<<n, m>>].at = "accept"
  /\ IF Accepts(n, i)
     THEN /\ has' = [has EXCEPT ![n] = @ \cup {i}]
          /\ thread' = [thread EXCEPT ![<<n, m>>].at = "relay"]
     ELSE UNCHANGED has /\ thread' = [thread EXCEPT ![<<n, m>>] = Idle]
  /\ UNCHANGED <<made, needs, known, wire, net, owed>>

\* _relay to the peers there are now, except the one it came from
TargetsSeeds(n, m) == (Peers(n) \cap Seeds[n]) \ {m}
Targets(n, m) == Peers(n) \ {m}

Relay(n, m) ==
  LET i == thread[<<n, m>>].item IN
  /\ thread[<<n, m>>].at = "relay"
  /\ known' = [known EXCEPT ![n] = @ \cup {i}]
  /\ thread' = [thread EXCEPT ![<<n, m>>] = Replying({<<p, Item(i)>> : p \in Targets(n, m)})]
  /\ owed' = owed \cup {<<p, i>> : p \in Peers(n) \ {m}}
  /\ UNCHANGED <<chains, wire, net>>

\* Peer.send: waits for room, and forgets the message when the peer is gone
CanSendWaits(n, s) == s[1] \in Peers(n) /\ Len(wire[<<n, s[1]>>]) < Cap
CanSend(n, s) == s[1] \in Peers(n) => Len(wire[<<n, s[1]>>]) < Cap

Send(n, m) ==
  \E s \in thread[<<n, m>>].todo :
    /\ CanSend(n, s)
    /\ wire' = IF s[1] \in Peers(n) THEN [wire EXCEPT ![<<n, s[1]>>] = Append(@, s[2])] ELSE wire
    /\ thread' = [thread EXCEPT ![<<n, m>>].todo = @ \ {s}]
    /\ UNCHANGED <<chains, known, net, owed>>
----------------------------------------------------------------------------
\* start: connect to the seeds that run; both ends say HELLO.  What was still to
\* be sent to the peer that a node had there before is forgotten.
Start(n) ==
  LET met == {{n, m} : m \in Seeds[n] \cap up} IN
  /\ n \notin up
  /\ up' = up \cup {n}
  /\ conn' = conn \cup met
  /\ wire' = [p \in Pairs |-> IF {p[1], p[2]} \in met
                              THEN <<Hello(Height(has[p[1]]))>> ELSE wire[p]]
  /\ thread' = [p \in Pairs |->
                  [thread[p] EXCEPT !.todo = {s \in @ : {p[1], s[1]} \notin met}]]
  /\ UNCHANGED <<chains, known, faults, owed>>

UnwiredNever(gone) == wire
Unwired(gone) == [p \in Pairs |-> IF {p[1], p[2]} \in gone THEN <<>> ELSE wire[p]]

\* The end that opened a connection waits 10 seconds for room: the timeout of
\* create_connection stays on the socket.  The message is lost; if it is cut
\* short, so is the connection, as the frames behind it make no sense (Break).
TimesOut(n, m) ==
  \E s \in thread[<<n, m>>].todo :
    /\ faults < MaxFaults /\ n \in Faulty
    /\ s[1] \in Peers(n) \cap Seeds[n] /\ Len(wire[<<n, s[1]>>]) = Cap
    /\ thread' = [thread EXCEPT ![<<n, m>>].todo = @ \ {s}]
    /\ faults' = faults + 1
    /\ UNCHANGED <<chains, known, wire, up, conn, owed>>

\* a connection breaks, its opener reads nothing for 10 seconds, or
\* _peer_maintenance takes a silent peer for dead
Break(n, m) ==
  /\ faults < MaxFaults /\ n \in Faulty
  /\ {n, m} \in conn
  /\ conn' = conn \ {{n, m}}
  /\ wire' = Unwired({{n, m}})
  /\ faults' = faults + 1
  /\ UNCHANGED <<chains, known, up, thread, owed>>

\* the process dies; the next one starts from a snapshot of the chain
Crash(n) ==
  LET gone == {p \in conn : n \in p} IN
  /\ faults < MaxFaults /\ n \in Faulty
  /\ n \in up
  /\ up' = up \ {n} /\ conn' = conn \ gone /\ wire' = Unwired(gone)
  /\ \E S \in SUBSET has[n] :
       /\ \A i \in S : needs[i] \subseteq S
       /\ has' = [has EXCEPT ![n] = S]
  /\ known' = [known EXCEPT ![n] = {}]
  /\ thread' = [p \in Pairs |-> IF p[1] = n THEN Idle ELSE thread[p]]
  /\ faults' = faults + 1
  /\ UNCHANGED <<made, needs, owed>>

Init ==
  /\ made = {} /\ needs = [i \in Items |-> {}]
  /\ has = [n \in Nodes |-> {}] /\ known = [n \in Nodes |-> {}]
  /\ up = {} /\ conn = {} /\ faults = 0
  /\ wire = [p \in Pairs |-> <<>>] /\ thread = [p \in Pairs |-> Idle]
  /\ owed = {}

Handle(n, m) ==
  TakeRequest(n, m) \/ TakeItem(n, m) \/ Accept(n, m) \/ Relay(n, m) \/ Send(n, m)

Next ==
  \/ \E n \in Nodes : Start(n) \/ Crash(n) \/ \E i \in Items : Make(n, i)
  \/ \E n, m \in Nodes : Handle(n, m) \/ TimesOut(n, m) \/ Break(n, m)

Spec == Init /\ [][Next]_vars

\* a running node's threads are scheduled, and a read from a buffer that has
\* something in it returns
FairSpec == Spec /\ \A n, m \in Nodes : WF_vars(Handle(n, m))
----------------------------------------------------------------------------
(***************************************************************************)
(* Properties                                                              *)
(***************************************************************************)
Message ==
  {Hello(h) : h \in 0..Cardinality(Blocks)} \cup {GetFrom(h) : h \in 0..Cardinality(Blocks)}
    \cup {GetHash(b) : b \in Blocks} \cup {Inv(S) : S \in SUBSET Blocks}
    \cup {NoPeers} \cup {Item(i) : i \in Items}

\* Buffers hold no more than fits, nothing is in flight between nodes that are
\* not connected, and only running nodes have threads and connections.
TypeOK ==
  /\ made \subseteq Items /\ needs \in [Items -> SUBSET Blocks]
  /\ has \in [Nodes -> SUBSET Items] /\ known \in [Nodes -> SUBSET Items]
  /\ up \subseteq Nodes /\ \A p \in conn : p \subseteq up
  /\ \A p \in Pairs :
       /\ Len(wire[p]) <= Cap /\ \A k \in DOMAIN wire[p] : wire[p][k] \in Message
       /\ {p[1], p[2]} \notin conn => wire[p] = <<>>
       /\ thread[p].at \in {"idle", "accept", "relay"}
       /\ thread[p].at # "idle" => thread[p].item \in made
       /\ thread[p].todo \subseteq Nodes \X Message
       /\ thread[p] # Idle => p[1] \in up
  /\ faults \in 0..MaxFaults

\* Whatever messages carry it, a block or transaction reaches a node's chain
\* after everything it builds on, and only if somebody made it.
Replication == INSTANCE Replicas WITH
  Nodes <- Nodes, Items <- Items, made <- made, needs <- needs, has <- has
ReplicationSpec == Replication!Spec

Quiet ==
  \A p \in Pairs :
    thread[p] = Idle /\ \A k \in DOMAIN wire[p] : wire[p][k].type # "BLOCK or TX"

\* Gossip delivers: until a connection breaks, and whatever the threads of the
\* nodes between do at the same time, everything accepted gets to every peer
\* of whoever accepted it, which has it then or has turned it down because it
\* came before what it builds on.
Delivers ==
  Quiet /\ faults = 0 =>
    \A o \in owed : o[2] \in known[o[1]] /\ (o[2] \in has[o[1]] \/ needs[o[2]] # {})

\* A thread can go on: it has something to read, to consider, to pass on, or to
\* send where there is room for it.
Ready(n, m) ==
  LET t == thread[<<n, m>>] IN
  HasMail(n, m) \/ t.at # "idle" \/ \E s \in t.todo : CanSend(n, s)

Forest == \A S \in (SUBSET Nodes) \ {{}} : \E n \in S : \A p, q \in Peers(n) \cap S : p = q
Relaying == \A p \in Pairs : \A s \in thread[p].todo : s[2].type = "BLOCK or TX"

\* Relaying never stops for full buffers where the connections form no cycle:
\* unless some thread is waiting to ask or answer a peer, there is a thread that
\* can go on until all is delivered, whoever leaves or comes back meanwhile.
\* (In a cycle each node can be waiting for the next one to read.)
NeverStuck == ~Quiet /\ Relaying /\ Forest => \E n, m \in Nodes : Ready(n, m)

\* "Chain sync on connect": a node that is behind a peer it stays connected
\* with catches up.
SyncsOnConnect ==
  \A n, m \in Nodes : \A b \in Blocks :
    b \in has[n] /\ {n, m} \in conn ~> b \in has[m] \/ {n, m} \notin conn
=============================================================================
