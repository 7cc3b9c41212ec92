---------------------------- MODULE GossipProofs ----------------------------
(***************************************************************************)
(* Proofs about module Gossip: type correctness, that it implements        *)
(* Replicas, that no node ever has something without what it builds on,    *)
(* and that gossip delivers.  The inductive invariant says where something *)
(* that is to be relayed can be: in the hands of a thread, in flight, or   *)
(* known to the peer.                                                      *)
(***************************************************************************)
EXTENDS Gossip, AggregateTheorems, SequenceTheorems

Steps == {"idle", "accept", "relay"}
ThreadStates ==
  {t \in [at : Steps, item : Items \cup {Nil}, todo : SUBSET (Nodes \X Message)] :
     /\ t.at # "idle" => t.item \in Items /\ t.todo = {}
     /\ t.at = "idle" => t.item = Nil}

TypeInv ==
  /\ made \in SUBSET Items /\ needs \in [Items -> SUBSET Blocks]
  /\ has \in [Nodes -> SUBSET Items] /\ known \in [Nodes -> SUBSET Items]
  /\ up \in SUBSET Nodes /\ conn \in SUBSET (SUBSET Nodes)
  /\ wire \in [Pairs -> Seq(Message)] /\ thread \in [Pairs -> ThreadStates]
  /\ faults \in 0..MaxFaults
  /\ owed \in SUBSET (Nodes \X Items)

\* Only running nodes have threads and connections, only connections buffers.
Running ==
  /\ \A c \in conn : c \subseteq up
  /\ \A p \in Pairs :
       /\ Len(wire[p]) <= Cap
       /\ {p[1], p[2]} \notin conn => wire[p] = <<>>
       /\ thread[p] # Idle => p[1] \in up

\* What nodes have, know, handle or send has been made.
Elements(s) == {s[k] : k \in DOMAIN s}
InFlight(p) == Elements(wire[p])
OnlyMade ==
  /\ \A n \in Nodes : has[n] \subseteq made /\ known[n] \subseteq made
  /\ \A p \in Pairs :
       /\ thread[p].at # "idle" => thread[p].item \in made
       /\ thread[p].at = "relay" => thread[p].item \in has[p[1]]
       /\ \A i \in Items : Item(i) \in InFlight(p) => i \in made
       /\ \A n \in Nodes, i \in Items : <<n, Item(i)>> \in thread[p].todo => i \in made

\* What is known to a node is in its chain, being considered, or was turned down.
InHand(n, i) == \E m \in Nodes : thread[<<n, m>>].at = "accept" /\ thread[<<n, m>>].item = i
TakenIn(n, i) == i \in has[n] \/ needs[i] # {} \/ InHand(n, i)
Considered == \A n \in Nodes : \A i \in known[n] : TakenIn(n, i)

\* As long as nothing breaks, what is owed to a peer is known to it or on its way,
\* and only peers are sent anything.
OnItsWay(n, i) ==
  \/ i \in known[n]
  \/ \E m \in Nodes : Item(i) \in InFlight(<<m, n>>)
  \/ \E p \in Pairs : <<n, Item(i)>> \in thread[p].todo
NothingLost ==
  faults = 0 =>
    /\ \A p \in Pairs : \A s \in thread[p].todo : {p[1], s[1]} \in conn
    /\ \A o \in owed : OnItsWay(o[1], o[2])

IInv == TypeInv /\ Running /\ OnlyMade /\ Replication!AllClosed /\ Considered /\ NothingLost
----------------------------------------------------------------------------
\* What a buffer holds after a message is put in or taken out.
LEMMA AppendElements ==
  ASSUME NEW M, NEW s \in Seq(M), NEW x \in M
  PROVE  /\ Append(s, x) \in Seq(M) /\ Len(Append(s, x)) = Len(s) + 1
         /\ Elements(Append(s, x)) = Elements(s) \cup {x}
<1> DEFINE t == Append(s, x)
<1>1. /\ t \in Seq(M) /\ Len(t) = Len(s) + 1 /\ Len(s) \in Nat /\ DOMAIN s = 1..Len(s)
      /\ \A k \in 1..Len(s) : t[k] = s[k]
      /\ t[Len(s) + 1] = x /\ DOMAIN t = 1..(Len(s) + 1)
  OBVIOUS
<1> HIDE DEF t
<1>2. Elements(t) \subseteq Elements(s) \cup {x}
  BY <1>1 DEF Elements
<1>3. Elements(s) \cup {x} \subseteq Elements(t)
  BY <1>1 DEF Elements
<1> QED BY <1>1, <1>2, <1>3 DEF t

\* Taking the head off a sequence takes one element, or none if it is repeated.
LEMMA TailElements ==
  ASSUME NEW M, NEW s \in Seq(M), s # <<>>
  PROVE  /\ Head(s) \in M /\ Tail(s) \in Seq(M) /\ Len(Tail(s)) = Len(s) - 1
         /\ Elements(s) = Elements(Tail(s)) \cup {Head(s)}
<1> DEFINE t == Tail(s)
<1>1. /\ t \in Seq(M) /\ Len(t) = Len(s) - 1 /\ Len(s) \in Nat /\ Len(s) > 0
      /\ DOMAIN s = 1..Len(s) /\ DOMAIN t = 1..(Len(s) - 1)
      /\ \A k \in 1..(Len(s) - 1) : t[k] = s[k + 1]
      /\ Head(s) = s[1] /\ Head(s) \in M
  OBVIOUS
<1> HIDE DEF t
<1>2. Elements(t) \cup {Head(s)} \subseteq Elements(s)
  BY <1>1 DEF Elements
<1>3. Elements(s) \subseteq Elements(t) \cup {Head(s)}
  <2> SUFFICES ASSUME NEW k \in 1..Len(s) PROVE s[k] \in Elements(t) \cup {Head(s)}
    BY <1>1 DEF Elements
  <2>1. CASE k = 1
    BY <1>1, <2>1
  <2>2. CASE k # 1
    <3>1. k - 1 \in 1..(Len(s) - 1) /\ t[k - 1] = s[k]
      BY <1>1, <2>2
    <3> QED BY <1>1, <3>1 DEF Elements
  <2> QED BY <2>1, <2>2
<1> QED BY <1>1, <1>2, <1>3 DEF t

\* No chain of blocks is longer than there are blocks.
LEMMA Heights ==
  ASSUME NEW S
  PROVE  Height(S) \in 0..Cardinality(Blocks)
<1> DEFINE H == {Cardinality(C) : C \in {D \in SUBSET (S \cap Blocks) : Chained(D)}}
           N == Cardinality(Blocks)
<1>1. N \in Nat
  BY NetAssumption, FS_CardinalityType
<1>2. \A C \in SUBSET (S \cap Blocks) : Cardinality(C) \in 0..N
  <2> SUFFICES ASSUME NEW C \in SUBSET (S \cap Blocks) PROVE Cardinality(C) \in 0..N
    OBVIOUS
  <2>1. C \in SUBSET Blocks
    OBVIOUS
  <2>2. IsFiniteSet(C) /\ Cardinality(C) <= N
    BY <2>1, NetAssumption, FS_Subset
  <2>3. Cardinality(C) \in Nat
    BY <2>2, FS_CardinalityType
  <2> QED BY <1>1, <2>2, <2>3
<1>3. H \subseteq 0..N
  BY <1>2
<1>4. Cardinality({}) \in H
  <2>1. {} \in {D \in SUBSET (S \cap Blocks) : Chained(D)}
    BY DEF Chained
  <2> QED BY <2>1
<1>5. IsFiniteSet(H) /\ H # {} /\ H \subseteq Int
  <2>1. IsFiniteSet(0..N)
    BY <1>1, FS_Interval
  <2>2. IsFiniteSet(H)
    <3> HIDE DEF H, N
    <3> QED BY <1>3, <2>1, FS_Subset
  <2> HIDE DEF H, N
  <2> QED BY <1>1, <1>3, <1>4, <2>2
<1> HIDE DEF H
<1>6. IsFiniteSet(H) => (H # {} /\ H \subseteq Int => Max(H) \in H /\ \A x \in H : x <= Max(H))
  BY MaxIsGreatest, Zenon
<1>7. Max(H) \in 0..N
  BY <1>3, <1>5, <1>6
<1> QED BY <1>7 DEF Height, H

\* A frame is a block or transaction, or asks to be answered with messages.
LEMMA Frames ==
  ASSUME NEW msg \in Message
  PROVE  /\ msg.type = "BLOCK or TX" => msg.item \in Items /\ msg = Item(msg.item)
         /\ msg.type # "BLOCK or TX" => msg.type \in {"HELLO", "GETBLOCKS", "INV", "PEERS"}
         /\ msg.type = "INV" => msg.hashes \in SUBSET Blocks
<1>1. CASE \E h \in 0..Cardinality(Blocks) : msg = Hello(h) \/ msg = GetFrom(h)
  <2>1. PICK h \in 0..Cardinality(Blocks) : msg = Hello(h) \/ msg = GetFrom(h)
    BY <1>1
  <2>2. msg.type \in {"HELLO", "GETBLOCKS"}
    BY <2>1 DEF Hello, GetFrom
  <2> QED BY <2>2
<1>2. CASE \E b \in Blocks : msg = GetHash(b)
  BY <1>2 DEF GetHash
<1>3. CASE \E S \in SUBSET Blocks : msg = Inv(S)
  BY <1>3 DEF Inv
<1>4. CASE \E i \in Items : msg = Item(i)
  <2>1. PICK i \in Items : msg = Item(i)
    BY <1>4
  <2>2. msg.item = i /\ msg.type = "BLOCK or TX"
    BY <2>1 DEF Item
  <2> QED BY <2>1, <2>2
<1>5. CASE msg = NoPeers
  BY <1>5 DEF NoPeers
<1> QED BY <1>1, <1>2, <1>3, <1>4, <1>5 DEF Message

\* Two frames that carry the same carry the same item.
LEMMA SameItem == ASSUME NEW i, NEW j, Item(i) = Item(j) PROVE i = j
<1>1. Item(i).item = i /\ Item(j).item = j
  BY DEF Item
<1> QED BY <1>1

\* What a node answers to anything but an item is made of messages that carry no item.
LEMMA Replies ==
  ASSUME NEW n \in Nodes, has[n] \in SUBSET Items, NEW msg \in Message, msg.type # "BLOCK or TX"
  PROVE  /\ Reply(n, msg) \in SUBSET Message
         /\ \A i \in Items : Item(i) \notin Reply(n, msg)
<1>1. CASE msg.type = "HELLO"
  <2>1. GetFrom(Height(has[n])) \in Message /\ NoPeers \in Message
    BY Heights DEF Message
  <2>2. Reply(n, msg) \subseteq {NoPeers, GetFrom(Height(has[n]))}
    BY <1>1 DEF Reply
  <2> QED BY <2>1, <2>2 DEF GetFrom, NoPeers, Item
<1>2. CASE msg.type = "GETBLOCKS"
  <2> DEFINE S == {b \in has[n] \cap Blocks :
                     HeightOf(b) > (IF "height" \in DOMAIN msg THEN msg.height ELSE 0)}
  <2>1. Reply(n, msg) = {Inv(S)}
    BY <1>2 DEF Reply
  <2>2. Inv(S) \in Message
    BY DEF Message
  <2> QED BY <2>1, <2>2 DEF Inv, Item
<1>3. CASE msg.type = "INV"
  <2>1. Reply(n, msg) = {GetHash(b) : b \in Wanted(n, msg.hashes)}
    BY <1>3 DEF Reply
  <2>2. Wanted(n, msg.hashes) \in SUBSET Blocks
    BY <1>3, Frames DEF Wanted
  <2> QED BY <2>1, <2>2 DEF Message, GetHash, Item
<1>4. CASE msg.type = "PEERS"
  BY <1>4 DEF Reply
<1> QED BY <1>1, <1>2, <1>3, <1>4, Frames

\* What a thread can be doing.
LEMMA ThreadForms ==
  /\ Idle \in ThreadStates /\ Idle.at = "idle" /\ Idle.todo = {}
  /\ \A t \in ThreadStates : t.at = "idle" /\ t.todo = {} => t = Idle
  /\ \A S \in SUBSET (Nodes \X Message) :
       /\ Replying(S) \in ThreadStates /\ Replying(S).at = "idle" /\ Replying(S).todo = S
  /\ \A i \in Items, step \in Steps \ {"idle"} :
       /\ Handling(i, step) \in ThreadStates /\ Handling(i, step).at = step
       /\ Handling(i, step).item = i /\ Handling(i, step).todo = {}
  /\ \A t \in ThreadStates : t.at = "accept" => [t EXCEPT !.at = "relay"] \in ThreadStates
  /\ \A t \in ThreadStates : \A s : [t EXCEPT !.todo = @ \ {s}] \in ThreadStates
<1>1. \A t \in ThreadStates : t.at = "accept" => [t EXCEPT !.at = "relay"] \in ThreadStates
  BY DEF ThreadStates, Steps
<1>2. \A t \in ThreadStates : \A s : [t EXCEPT !.todo = @ \ {s}] \in ThreadStates
  BY DEF ThreadStates
<1>3. \A t \in ThreadStates : t.at = "idle" /\ t.todo = {} => t = Idle
  BY DEF ThreadStates, Idle
<1> QED BY <1>1, <1>2, <1>3 DEF Idle, Replying, Handling, ThreadStates, Steps

\* The inductive invariant holds of nodes that have met nobody.
LEMMA InitIInv == Init => IInv
<1> SUFFICES ASSUME Init PROVE IInv
  OBVIOUS
<1>1. TypeInv
  <2>1. <<>> \in Seq(Message)
    OBVIOUS
  <2>2. wire \in [Pairs -> Seq(Message)] /\ thread \in [Pairs -> ThreadStates]
    BY <2>1, ThreadForms DEF Init
  <2>3. 0 \in 0..MaxFaults
    BY NetAssumption
  <2> QED BY <2>2, <2>3 DEF Init, TypeInv
<1>2. Running
  BY ThreadForms, NetAssumption DEF Init, Running
<1>3. OnlyMade
  <2>1. \A p \in Pairs : InFlight(p) = {}
    BY DEF Init, InFlight, Elements
  <2> QED BY <2>1, ThreadForms DEF Init, OnlyMade
<1>4. Replication!AllClosed
  BY DEF Init, Replication!AllClosed, Replication!Closed
<1>5. Considered /\ NothingLost
  BY ThreadForms DEF Init, Considered, NothingLost
<1> QED BY <1>1, <1>2, <1>3, <1>4, <1>5 DEF IInv

\* A message that a thread reads is a frame that was in flight.
LEMMA ReadsFrame ==
  ASSUME TypeInv, NEW n \in Nodes, NEW m \in Nodes, wire[<<m, n>>] # <<>>
  PROVE  /\ Head(wire[<<m, n>>]) \in Message /\ Tail(wire[<<m, n>>]) \in Seq(Message)
         /\ Len(Tail(wire[<<m, n>>])) = Len(wire[<<m, n>>]) - 1
         /\ Elements(wire[<<m, n>>]) = Elements(Tail(wire[<<m, n>>])) \cup {Head(wire[<<m, n>>])}
<1>1. wire[<<m, n>>] \in Seq(Message)
  BY DEF TypeInv, Pairs
<1> QED BY <1>1, TailElements

\* Every step keeps the shapes of the state.
LEMMA StepTypeInv == TypeInv /\ [Next]_vars => TypeInv'
<1> SUFFICES ASSUME TypeInv, [Next]_vars PROVE TypeInv'
  OBVIOUS
<1> USE DEF chains, net
<1>1. ASSUME NEW n \in Nodes, Start(n) PROVE TypeInv'
  <2>1. \A p \in Pairs : <<Hello(Height(has[p[1]]))>> \in Seq(Message)
    <3> SUFFICES ASSUME NEW p \in Pairs PROVE <<Hello(Height(has[p[1]]))>> \in Seq(Message)
      OBVIOUS
    <3>1. Hello(Height(has[p[1]])) \in Message
      BY Heights DEF Message
    <3> QED BY <3>1
  <2>2. wire' \in [Pairs -> Seq(Message)]
    BY <1>1, <2>1 DEF Start, TypeInv
  <2>3. conn' \in SUBSET (SUBSET Nodes)
    BY <1>1, NetAssumption DEF Start, TypeInv
  <2>4. thread' \in [Pairs -> ThreadStates]
    <3> DEFINE met == {{n, m} : m \in Seeds[n] \cap up}
               kept(p) == [thread[p] EXCEPT !.todo = {s \in @ : {p[1], s[1]} \notin met}]
    <3>1. thread' = [p \in Pairs |-> kept(p)]
      BY <1>1 DEF Start
    <3>2. \A p \in Pairs : kept(p) \in ThreadStates
      <4> HIDE DEF met
      <4> SUFFICES ASSUME NEW p \in Pairs PROVE kept(p) \in ThreadStates
        OBVIOUS
      <4>1. thread[p] \in ThreadStates
        BY DEF TypeInv
      <4> QED BY <4>1 DEF ThreadStates
    <3> HIDE DEF kept
    <3> QED BY <3>1, <3>2
  <2> QED BY <1>1, <2>2, <2>3, <2>4 DEF Start, TypeInv
<1>2. ASSUME NEW n \in Nodes, Crash(n) PROVE TypeInv'
  <2>1. wire' \in [Pairs -> Seq(Message)]
    BY <1>2 DEF Crash, Unwired, TypeInv
  <2>2. thread' \in [Pairs -> ThreadStates]
    BY <1>2, ThreadForms DEF Crash, TypeInv
  <2>3. faults' \in 0..MaxFaults
    BY <1>2, NetAssumption DEF Crash, TypeInv
  <2>4. has' \in [Nodes -> SUBSET Items]
    BY <1>2 DEF Crash, TypeInv
  <2> QED BY <1>2, <2>1, <2>2, <2>3, <2>4 DEF Crash, TypeInv
<1>3. ASSUME NEW n \in Nodes, NEW m \in Nodes, Break(n, m) PROVE TypeInv'
  <2>1. wire' \in [Pairs -> Seq(Message)]
    BY <1>3 DEF Break, Unwired, TypeInv
  <2>2. faults' \in 0..MaxFaults
    BY <1>3, NetAssumption DEF Break, TypeInv
  <2> QED BY <1>3, <2>1, <2>2 DEF Break, TypeInv
<1>4. ASSUME NEW n \in Nodes, NEW i \in Items, Make(n, i) PROVE TypeInv'
  <2>1. <<n, n>> \in Pairs /\ Handling(i, "relay") \in ThreadStates
    BY ThreadForms DEF Pairs, Steps
  <2>2. thread' \in [Pairs -> ThreadStates]
    BY <1>4, <2>1 DEF Make, TypeInv
  <2>3. needs' \in [Items -> SUBSET Blocks]
    BY <1>4 DEF Make, TypeInv
  <2> QED BY <1>4, <2>2, <2>3 DEF Make, TypeInv
<1>5. ASSUME NEW n \in Nodes, NEW m \in Nodes, TakeRequest(n, m) PROVE TypeInv'
  <2> DEFINE msg == Head(wire[<<m, n>>])
             S == {<<m, r>> : r \in Reply(n, msg)}
  <2>1. msg \in Message /\ Tail(wire[<<m, n>>]) \in Seq(Message)
    BY <1>5, ReadsFrame DEF TakeRequest, Reads, HasMail
  <2>2. S \in SUBSET (Nodes \X Message)
    <3>1. Reply(n, msg) \in SUBSET Message
      BY <1>5, <2>1, Replies DEF TakeRequest, TypeInv
    <3> QED BY <3>1
  <2>3. wire' \in [Pairs -> Seq(Message)]
    BY <1>5, <2>1 DEF TakeRequest, Reads, TypeInv
  <2>4. thread' \in [Pairs -> ThreadStates]
    <3>1. thread' = [thread EXCEPT ![<<n, m>>] = Replying(S)]
      BY <1>5 DEF TakeRequest
    <3> HIDE DEF S
    <3> QED BY <2>2, <3>1, ThreadForms DEF TypeInv
  <2> QED BY <1>5, <2>3, <2>4 DEF TakeRequest, Reads, TypeInv
<1>6. ASSUME NEW n \in Nodes, NEW m \in Nodes, TakeItem(n, m) PROVE TypeInv'
  <2> DEFINE msg == Head(wire[<<m, n>>])
  <2>1. msg \in Message /\ Tail(wire[<<m, n>>]) \in Seq(Message) /\ msg.item \in Items
    BY <1>6, ReadsFrame, Frames DEF TakeItem, Reads, HasMail
  <2>2. wire' \in [Pairs -> Seq(Message)]
    BY <1>6, <2>1 DEF TakeItem, Reads, TypeInv
  <2>3. thread' \in [Pairs -> ThreadStates]
    BY <1>6, <2>1, ThreadForms DEF TakeItem, TypeInv, Steps
  <2>4. known' \in [Nodes -> SUBSET Items]
    BY <1>6, <2>1 DEF TakeItem, TypeInv
  <2> QED BY <1>6, <2>2, <2>3, <2>4 DEF TakeItem, Reads, TypeInv
<1>7. ASSUME NEW n \in Nodes, NEW m \in Nodes, Accept(n, m) PROVE TypeInv'
  <2>1. thread[<<n, m>>].item \in Items /\ <<n, m>> \in Pairs
    BY <1>7 DEF Accept, TypeInv, ThreadStates, Pairs
  <2>2. thread' \in [Pairs -> ThreadStates]
    <3> DEFINE t == thread[<<n, m>>]
    <3> DEFINE v == [t EXCEPT !.at = "relay"]
    <3>1. \/ thread' = [thread EXCEPT ![<<n, m>>] = v]
          \/ thread' = [thread EXCEPT ![<<n, m>>] = Idle]
      BY <1>7 DEF Accept
    <3>2. t \in ThreadStates /\ t.at = "accept"
      BY <1>7, <2>1 DEF Accept, TypeInv
    <3>3. v \in ThreadStates
      <4> HIDE DEF t
      <4> QED BY <3>2 DEF ThreadStates, Steps
    <3>4. Idle \in ThreadStates
      BY ThreadForms
    <3> HIDE DEF v, t
    <3> QED BY <2>1, <3>1, <3>3, <3>4 DEF TypeInv
  <2>3. has' \in [Nodes -> SUBSET Items]
    <3> DEFINE i == thread[<<n, m>>].item
    <3>1. has' \in {has, [has EXCEPT ![n] = @ \cup {i}]}
      BY <1>7 DEF Accept
    <3>2. i \in Items
      BY <2>1
    <3> HIDE DEF i
    <3> QED BY <3>1, <3>2 DEF TypeInv
  <2> QED BY <1>7, <2>2, <2>3 DEF Accept, TypeInv
<1>8. ASSUME NEW n \in Nodes, NEW m \in Nodes, Relay(n, m) PROVE TypeInv'
  <2> DEFINE i == thread[<<n, m>>].item
             S == {<<p, Item(i)>> : p \in Targets(n, m)}
  <2>1. i \in Items /\ <<n, m>> \in Pairs
    BY <1>8 DEF Relay, TypeInv, ThreadStates, Pairs
  <2>2. S \in SUBSET (Nodes \X Message)
    <3>1. Item(i) \in Message
      BY <2>1 DEF Message
    <3>2. Targets(n, m) \subseteq Nodes
      BY DEF Targets, Peers
    <3> HIDE DEF i
    <3> QED BY <3>1, <3>2
  <2>3. thread' \in [Pairs -> ThreadStates]
    <3>1. thread' = [thread EXCEPT ![<<n, m>>] = Replying(S)]
      BY <1>8 DEF Relay
    <3> HIDE DEF S
    <3> QED BY <2>2, <3>1, ThreadForms DEF TypeInv
  <2>4. known' \in [Nodes -> SUBSET Items]
    BY <1>8, <2>1 DEF Relay, TypeInv
  <2>5. owed' \in SUBSET (Nodes \X Items)
    <3>1. owed' = owed \cup {<<p, i>> : p \in Peers(n) \ {m}}
      BY <1>8 DEF Relay
    <3>2. Peers(n) \subseteq Nodes /\ i \in Items
      BY <2>1 DEF Peers
    <3> HIDE DEF i
    <3> QED BY <3>1, <3>2 DEF TypeInv
  <2> QED BY <1>8, <2>3, <2>4, <2>5 DEF Relay, TypeInv
<1>9. ASSUME NEW n \in Nodes, NEW m \in Nodes, Send(n, m) PROVE TypeInv'
  <2>1. PICK s \in thread[<<n, m>>].todo :
          /\ CanSend(n, s)
          /\ wire' = IF s[1] \in Peers(n)
                     THEN [wire EXCEPT ![<<n, s[1]>>] = Append(@, s[2])] ELSE wire
          /\ thread' = [thread EXCEPT ![<<n, m>>].todo = @ \ {s}]
          /\ UNCHANGED <<chains, known, net, owed>>
    BY <1>9 DEF Send
  <2>2. <<n, m>> \in Pairs /\ s[1] \in Nodes /\ s[2] \in Message
    BY <2>1 DEF TypeInv, ThreadStates, Pairs
  <2>3. wire' \in [Pairs -> Seq(Message)]
    <3>1. Append(wire[<<n, s[1]>>], s[2]) \in Seq(Message)
      BY <2>2, AppendElements DEF TypeInv, Pairs
    <3> QED BY <2>1, <3>1 DEF TypeInv
  <2>4. thread' \in [Pairs -> ThreadStates]
    <3> DEFINE t == thread[<<n, m>>]
    <3>1. t \in ThreadStates /\ [t EXCEPT !.todo = @ \ {s}] \in ThreadStates
      BY <2>2, ThreadForms DEF TypeInv
    <3>2. thread' = [thread EXCEPT ![<<n, m>>] = [t EXCEPT !.todo = @ \ {s}]]
      BY <2>1
    <3> HIDE DEF t
    <3> QED BY <2>2, <3>1, <3>2 DEF TypeInv
  <2> QED BY <2>1, <2>3, <2>4 DEF TypeInv
<1>10. ASSUME NEW n \in Nodes, NEW m \in Nodes, TimesOut(n, m) PROVE TypeInv'
  <2>1. thread' \in [Pairs -> ThreadStates]
    <3>1. PICK s \in thread[<<n, m>>].todo :
            thread' = [thread EXCEPT ![<<n, m>>].todo = @ \ {s}]
      BY <1>10 DEF TimesOut
    <3>2. thread[<<n, m>>] \in ThreadStates
      BY DEF TypeInv, Pairs
    <3>3. [thread[<<n, m>>] EXCEPT !.todo = @ \ {s}] \in ThreadStates
      BY <3>2 DEF ThreadStates, Steps
    <3> QED BY <3>1, <3>3 DEF TypeInv
  <2>2. faults' \in 0..MaxFaults
    BY <1>10, NetAssumption DEF TimesOut, TypeInv
  <2> QED BY <1>10, <2>1, <2>2 DEF TimesOut, TypeInv
<1>11. CASE UNCHANGED vars
  BY <1>11 DEF vars, TypeInv
<1> HIDE DEF chains, net
<1> QED
  BY <1>1, <1>2, <1>3, <1>4, <1>5, <1>6, <1>7, <1>8, <1>9, <1>10, <1>11 DEF Next, Handle

\* Nothing that was taken in is lost again unless its node forgets.
LEMMA StillTakenIn ==
  ASSUME NEW k \in Nodes, NEW i, TakenIn(k, i), has[k] \subseteq has'[k], needs'[i] = needs[i],
         \A m \in Nodes : thread[<<k, m>>].at = "accept" => thread'[<<k, m>>] = thread[<<k, m>>]
  PROVE  TakenIn(k, i)'
<1>1. InHand(k, i) => InHand(k, i)'
  <2> SUFFICES ASSUME InHand(k, i) PROVE InHand(k, i)'
    OBVIOUS
  <2>1. PICK m \in Nodes : thread[<<k, m>>].at = "accept" /\ thread[<<k, m>>].item = i
    BY DEF InHand
  <2> QED BY <2>1 DEF InHand
<1> QED BY <1>1 DEF TakenIn

\* A node that starts sends its new peers a greeting and nothing else.
LEMMA StartIInv == ASSUME IInv, TypeInv', NEW n \in Nodes, Start(n) PROVE IInv'
<1> DEFINE met == {{n, m} : m \in Seeds[n] \cap up}
<1>1. /\ n \notin up /\ up' = up \cup {n} /\ conn' = conn \cup met
      /\ UNCHANGED <<made, needs, has, known, faults, owed>>
  BY DEF Start, chains
<1>2. met \subseteq SUBSET (up \cup {n}) /\ \A c \in met : n \in c
  OBVIOUS
<1>3. \A p \in Pairs :
        /\ {p[1], p[2]} \in met => InFlight(p) = {} /\ Len(wire'[p]) = 1
        /\ {p[1], p[2]} \in met => \A x \in InFlight(p)' : x.type = "HELLO"
        /\ {p[1], p[2]} \notin met => wire'[p] = wire[p]
  <2> SUFFICES ASSUME NEW p \in Pairs
               PROVE  /\ {p[1], p[2]} \in met => InFlight(p) = {} /\ Len(wire'[p]) = 1
                      /\ {p[1], p[2]} \in met => \A x \in InFlight(p)' : x.type = "HELLO"
                      /\ {p[1], p[2]} \notin met => wire'[p] = wire[p]
    OBVIOUS
  <2>1. wire'[p] = IF {p[1], p[2]} \in met THEN <<Hello(Height(has[p[1]]))>> ELSE wire[p]
    BY DEF Start
  <2>2. ASSUME {p[1], p[2]} \in met
        PROVE  InFlight(p) = {} /\ Len(wire'[p]) = 1 /\ \A x \in InFlight(p)' : x.type = "HELLO"
    <3>1. {p[1], p[2]} \notin conn
      BY <1>1, <1>2, <2>2 DEF IInv, Running
    <3>2. wire[p] = <<>>
      BY <3>1 DEF IInv, Running
    <3>3. wire'[p] = <<Hello(Height(has[p[1]]))>>
      BY <2>1, <2>2
    <3> QED BY <3>2, <3>3 DEF InFlight, Elements, Hello
  <2> QED BY <2>1, <2>2
<1>4. \A p \in Pairs :
        /\ thread'[p].at = thread[p].at /\ thread'[p].item = thread[p].item
        /\ thread'[p].todo = {s \in thread[p].todo : {p[1], s[1]} \notin met}
  <2> HIDE DEF met
  <2> SUFFICES ASSUME NEW p \in Pairs
               PROVE  /\ thread'[p].at = thread[p].at /\ thread'[p].item = thread[p].item
                      /\ thread'[p].todo = {s \in thread[p].todo : {p[1], s[1]} \notin met}
    OBVIOUS
  <2>1. thread'[p] = [thread[p] EXCEPT !.todo = {s \in @ : {p[1], s[1]} \notin met}]
    BY DEF Start, met
  <2>2. thread[p] \in ThreadStates
    BY DEF IInv, TypeInv
  <2> QED BY <2>1, <2>2 DEF ThreadStates
<1> HIDE DEF met
<1>5. \A p \in Pairs : thread[p] = Idle => thread'[p] = Idle
  <2> SUFFICES ASSUME NEW p \in Pairs, thread[p] = Idle PROVE thread'[p] = Idle
    OBVIOUS
  <2>1. thread'[p].at = "idle" /\ thread'[p].todo = {}
    BY <1>4, ThreadForms
  <2>2. thread'[p] \in ThreadStates
    BY DEF TypeInv
  <2> QED BY <2>1, <2>2, ThreadForms
<1>6. faults = 0 => \A p \in Pairs : thread'[p].todo = thread[p].todo
  <2>1. \A c \in conn : c \notin met
    BY <1>1, <1>2 DEF IInv, Running
  <2> QED BY <1>4, <2>1 DEF IInv, NothingLost
<1>7. Running'
  <2>1. \A c \in conn' : c \subseteq up'
    BY <1>1, <1>2 DEF IInv, Running
  <2>2. \A p \in Pairs : Len(wire'[p]) <= Cap /\ ({p[1], p[2]} \notin conn' => wire'[p] = <<>>)
    <3>1. \A p \in Pairs : Len(wire[p]) <= Cap /\ ({p[1], p[2]} \notin conn => wire[p] = <<>>)
      BY DEF IInv, Running
    <3>2. 1 <= Cap
      BY NetAssumption
    <3> QED BY <1>1, <1>3, <3>1, <3>2
  <2>3. \A p \in Pairs : thread'[p] # Idle => p[1] \in up'
    BY <1>1, <1>5 DEF IInv, Running
  <2> QED BY <1>1, <2>1, <2>2, <2>3 DEF Running
<1>8. \A p \in Pairs, i \in Items : Item(i) \in InFlight(p)' <=> Item(i) \in InFlight(p)
  <2>1. \A i : Item(i).type # "HELLO"
    BY DEF Item
  <2> QED BY <1>3, <2>1 DEF InFlight
<1>9. OnlyMade'
  BY <1>1, <1>4, <1>8 DEF IInv, OnlyMade
<1>10. NothingLost'
  <2> SUFFICES ASSUME faults = 0 PROVE NothingLost'
    BY <1>1 DEF NothingLost
  <2>1. \A k \in Nodes, i \in Items : OnItsWay(k, i) => OnItsWay(k, i)'
    BY <1>1, <1>6, <1>8 DEF OnItsWay, Pairs
  <2> QED BY <1>1, <1>6, <2>1 DEF IInv, NothingLost, TypeInv
<1>11. Considered'
  <2>1. \A k \in Nodes : \A i : InHand(k, i) => InHand(k, i)'
    BY <1>4 DEF InHand, Pairs
  <2> QED BY <1>1, <2>1 DEF IInv, Considered, TakenIn
<1>12. Replication!AllClosed'
  BY <1>1 DEF IInv, Replication!AllClosed, Replication!Closed
<1> QED BY <1>7, <1>9, <1>10, <1>11, <1>12 DEF IInv

\* A crash or a broken connection empties buffers; after it nothing is promised.
LEMMA BrokenIInv ==
  ASSUME IInv, TypeInv', NEW n \in Nodes, Crash(n) \/ \E m \in Nodes : Break(n, m)
  PROVE  IInv'
<1>1. PICK gone \in SUBSET conn :
        /\ conn' = conn \ gone /\ wire' = Unwired(gone)
        /\ faults' = faults + 1 /\ UNCHANGED <<made, needs>>
        /\ Crash(n) => gone = {p \in conn : n \in p}
  BY DEF Crash, Break, chains
<1>2. CASE Crash(n)
  <2>1. PICK S \in SUBSET has[n] :
          /\ \A i \in S : needs[i] \subseteq S
          /\ has' = [has EXCEPT ![n] = S]
    BY <1>2 DEF Crash
  <2>2. /\ up' = up \ {n} /\ known' = [known EXCEPT ![n] = {}]
        /\ \A p \in Pairs : thread'[p] = IF p[1] = n THEN Idle ELSE thread[p]
    BY <1>2 DEF Crash
  <2>3. Running'
    BY <1>1, <1>2, <2>2, NetAssumption DEF IInv, Running, Unwired
  <2>4. OnlyMade'
    <3>1. \A k \in Nodes : has'[k] \subseteq made' /\ known'[k] \subseteq made'
      BY <1>1, <2>1, <2>2 DEF IInv, OnlyMade, TypeInv
    <3>2. \A p \in Pairs : InFlight(p)' \subseteq InFlight(p)
      BY <1>1 DEF InFlight, Elements, Unwired
    <3>3. \A p \in Pairs :
            /\ thread'[p].at # "idle" => thread'[p] = thread[p] /\ p[1] # n
            /\ thread'[p].todo \subseteq thread[p].todo
      BY <2>2, ThreadForms
    <3>4. \A p \in Pairs : p[1] # n => has'[p[1]] = has[p[1]]
      BY <2>1 DEF Pairs, TypeInv, IInv
    <3> QED BY <1>1, <3>1, <3>2, <3>3, <3>4 DEF IInv, OnlyMade
  <2>5. Replication!AllClosed'
    BY <1>1, <2>1 DEF IInv, TypeInv, Replication!AllClosed, Replication!Closed
  <2>6. Considered'
    <3> SUFFICES ASSUME NEW k \in Nodes, NEW i \in known'[k] PROVE TakenIn(k, i)'
      BY DEF Considered
    <3>1. k # n /\ i \in known[k] /\ has'[k] = has[k] /\ needs' = needs
      BY <1>1, <2>1, <2>2 DEF IInv, TypeInv
    <3>2. \A m \in Nodes : thread'[<<k, m>>] = thread[<<k, m>>]
      BY <2>2, <3>1 DEF Pairs
    <3>3. TakenIn(k, i)
      BY <3>1 DEF IInv, Considered
    <3> QED BY <3>1, <3>2, <3>3, StillTakenIn
  <2>7. NothingLost'
    BY <1>1 DEF NothingLost, IInv, TypeInv
  <2> QED BY <2>3, <2>4, <2>5, <2>6, <2>7 DEF IInv
<1>3. CASE \E m \in Nodes : Break(n, m)
  <2>1. UNCHANGED <<has, known, up, thread>>
    BY <1>3 DEF Break, chains
  <2>2. Running'
    BY <1>1, <2>1, NetAssumption DEF IInv, Running, Unwired
  <2>3. OnlyMade'
    <3>1. \A p \in Pairs : InFlight(p)' \subseteq InFlight(p)
      BY <1>1 DEF InFlight, Elements, Unwired
    <3> QED BY <1>1, <2>1, <3>1 DEF IInv, OnlyMade
  <2>4. Considered' /\ Replication!AllClosed'
    BY <1>1, <2>1 DEF IInv, Considered, TakenIn, InHand, Replication!AllClosed, Replication!Closed
  <2>5. NothingLost'
    BY <1>1 DEF NothingLost, IInv, TypeInv
  <2> QED BY <2>2, <2>3, <2>4, <2>5 DEF IInv
<1> QED BY <1>2, <1>3

\* A send that is given up loses its message, and after it nothing is promised.
LEMMA TimesOutIInv ==
  ASSUME IInv, TypeInv', NEW n \in Nodes, NEW m \in Nodes, TimesOut(n, m)
  PROVE  IInv'
<1>1. PICK s \in thread[<<n, m>>].todo :
        /\ thread' = [thread EXCEPT ![<<n, m>>].todo = @ \ {s}]
        /\ faults' = faults + 1
        /\ UNCHANGED <<made, needs, has, known, wire, up, conn>>
  BY DEF TimesOut, chains
<1>2. \A p \in Pairs :
        /\ p # <<n, m>> => thread'[p] = thread[p]
        /\ thread'[p].at = thread[p].at /\ thread'[p].item = thread[p].item
        /\ thread'[p].todo \subseteq thread[p].todo
  BY <1>1 DEF IInv, TypeInv, ThreadStates, Steps
<1>3. Running'
  <2>1. n \in up
    <3>1. thread[<<n, m>>] # Idle /\ <<n, m>>[1] = n /\ <<n, m>> \in Pairs
      BY <1>1, ThreadForms DEF Pairs
    <3> QED BY <3>1 DEF IInv, Running
  <2>2. \A p \in Pairs : p = <<n, m>> => p[1] = n
    OBVIOUS
  <2>3. \A p \in Pairs : thread'[p] # Idle => p[1] \in up'
    BY <1>1, <1>2, <2>1, <2>2 DEF IInv, Running
  <2> QED BY <1>1, <2>3 DEF IInv, Running
<1>4. OnlyMade'
  <2>1. \A p \in Pairs : InFlight(p)' = InFlight(p)
    BY <1>1 DEF InFlight
  <2> QED BY <1>1, <1>2, <2>1 DEF IInv, OnlyMade
<1>5. Considered'
  <2> SUFFICES ASSUME NEW k \in Nodes, NEW i \in known'[k] PROVE TakenIn(k, i)'
    BY DEF Considered
  <2>1. TakenIn(k, i)
    BY <1>1 DEF IInv, Considered
  <2>2. \A l \in Nodes : /\ thread'[<<k, l>>].at = thread[<<k, l>>].at
                        /\ thread'[<<k, l>>].item = thread[<<k, l>>].item
    BY <1>2 DEF Pairs
  <2> QED BY <1>1, <2>1, <2>2 DEF TakenIn, InHand
<1>6. Replication!AllClosed'
  BY <1>1 DEF IInv, Replication!AllClosed, Replication!Closed
<1>7. NothingLost'
  BY <1>1 DEF NothingLost, IInv, TypeInv
<1> QED BY <1>3, <1>4, <1>5, <1>6, <1>7 DEF IInv

\* What was just made builds on what its maker has, and nobody else has it.
LEMMA MakeIInv == ASSUME IInv, TypeInv', NEW n \in Nodes, NEW i \in Items, Make(n, i) PROVE IInv'
<1>1. PICK S \in SUBSET (has[n] \cap Blocks) : needs' = [needs EXCEPT ![i] = S]
  BY DEF Make
<1>2. /\ n \in up /\ i \notin made /\ thread[<<n, n>>] = Idle
      /\ made' = made \cup {i} /\ has' = [has EXCEPT ![n] = @ \cup {i}]
      /\ thread' = [thread EXCEPT ![<<n, n>>] = Handling(i, "relay")]
      /\ UNCHANGED <<known, wire, up, conn, faults, owed>>
  BY DEF Make, net
<1>3. /\ \A p \in Pairs : p # <<n, n>> => thread'[p] = thread[p]
      /\ thread'[<<n, n>>].at = "relay" /\ thread'[<<n, n>>].item = i
      /\ thread'[<<n, n>>].todo = {}
      /\ thread[<<n, n>>].at = "idle" /\ thread[<<n, n>>].todo = {}
  BY <1>2, ThreadForms DEF IInv, TypeInv, Pairs, Steps
<1>4. \A p \in Pairs : InFlight(p)' = InFlight(p)
  BY <1>2 DEF InFlight
<1>5. Running'
  BY <1>2, <1>3 DEF IInv, Running
<1>6. OnlyMade'
  <2>1. \A k \in Nodes : has[k] \subseteq has'[k] /\ has'[k] \subseteq made' /\ i \in has'[n]
    BY <1>2 DEF IInv, OnlyMade, TypeInv
  <2> QED BY <1>2, <1>3, <1>4, <2>1 DEF IInv, OnlyMade, Pairs
<1>7. Replication!AllClosed'
  <2> SUFFICES ASSUME NEW k \in Nodes, NEW j \in has'[k] PROVE needs'[j] \subseteq has'[k]
    BY DEF Replication!AllClosed, Replication!Closed
  <2>1. has[k] \subseteq has'[k] /\ (j = i => k = n)
    BY <1>2 DEF IInv, TypeInv, OnlyMade
  <2>2. CASE j = i
    BY <1>1, <2>1, <2>2 DEF IInv, TypeInv
  <2>3. CASE j # i
    <3>1. j \in has[k] /\ needs'[j] = needs[j]
      BY <1>1, <1>2, <2>3 DEF IInv, TypeInv
    <3> QED BY <2>1, <3>1 DEF IInv, Replication!AllClosed, Replication!Closed
  <2> QED BY <2>2, <2>3
<1>8. Considered'
  <2> SUFFICES ASSUME NEW k \in Nodes, NEW j \in known'[k] PROVE TakenIn(k, j)'
    BY DEF Considered
  <2>1. j \in known[k] /\ j # i /\ has[k] \subseteq has'[k] /\ needs'[j] = needs[j]
    BY <1>1, <1>2 DEF IInv, TypeInv, OnlyMade
  <2>2. \A m \in Nodes : thread[<<k, m>>].at = "accept" => thread'[<<k, m>>] = thread[<<k, m>>]
    BY <1>3 DEF Pairs
  <2>3. TakenIn(k, j)
    BY <2>1 DEF IInv, Considered
  <2> QED BY <2>1, <2>2, <2>3, StillTakenIn
<1>9. NothingLost'
  <2>1. \A k \in Nodes, j \in Items : OnItsWay(k, j) => OnItsWay(k, j)'
    BY <1>2, <1>3, <1>4 DEF OnItsWay, Pairs
  <2>2. \A p \in Pairs : thread'[p].todo = thread[p].todo
    BY <1>3
  <2> QED BY <1>2, <2>1, <2>2 DEF IInv, NothingLost, TypeInv
<1> QED BY <1>5, <1>6, <1>7, <1>8, <1>9 DEF IInv

\* What a thread reads is gone from the buffer, and nothing else is.
LEMMA ReadEffect ==
  ASSUME TypeInv, NEW n \in Nodes, NEW m \in Nodes, Reads(n, m)
  PROVE  /\ {n, m} \in conn /\ thread[<<n, m>>] = Idle
         /\ \A p \in Pairs : p # <<m, n>> => wire'[p] = wire[p] /\ InFlight(p)' = InFlight(p)
         /\ Len(wire'[<<m, n>>]) = Len(wire[<<m, n>>]) - 1 /\ Len(wire[<<m, n>>]) \in Nat
         /\ InFlight(<<m, n>>) = InFlight(<<m, n>>)' \cup {Head(wire[<<m, n>>])}
         /\ Head(wire[<<m, n>>]) \in Message
         /\ UNCHANGED <<made, needs, has, up, conn, faults, owed>>
<1>1. wire' = [wire EXCEPT ![<<m, n>>] = Tail(@)] /\ <<m, n>> \in Pairs
  BY DEF Reads, Pairs
<1>2. \A p \in Pairs : p # <<m, n>> => wire'[p] = wire[p]
  BY <1>1 DEF TypeInv
<1>3. wire'[<<m, n>>] = Tail(wire[<<m, n>>])
  BY <1>1 DEF TypeInv
<1>4. Len(wire[<<m, n>>]) \in Nat
  BY <1>1 DEF TypeInv
<1>5. wire[<<m, n>>] # <<>>
  BY DEF Reads, HasMail
<1> QED BY <1>2, <1>3, <1>4, <1>5, ReadsFrame DEF Reads, HasMail, InFlight, Peers, chains, net

\* Reading makes room, and only running nodes read.
LEMMA ReadRunning ==
  ASSUME IInv, NEW n \in Nodes, NEW m \in Nodes, Reads(n, m),
         \A p \in Pairs : p # <<n, m>> => thread'[p] = thread[p]
  PROVE  Running'
<1>1. /\ {n, m} \in conn
      /\ \A p \in Pairs : p # <<m, n>> => wire'[p] = wire[p]
      /\ Len(wire'[<<m, n>>]) = Len(wire[<<m, n>>]) - 1 /\ Len(wire[<<m, n>>]) \in Nat
      /\ UNCHANGED <<up, conn>>
  BY ReadEffect DEF IInv
<1>2. \A p \in Pairs : Len(wire'[p]) <= Cap /\ ({p[1], p[2]} \notin conn' => wire'[p] = <<>>)
  <2> SUFFICES ASSUME NEW p \in Pairs
               PROVE  Len(wire'[p]) <= Cap /\ ({p[1], p[2]} \notin conn' => wire'[p] = <<>>)
    OBVIOUS
  <2>1. Len(wire[p]) <= Cap /\ ({p[1], p[2]} \notin conn => wire[p] = <<>>)
    BY DEF IInv, Running
  <2>2. CASE p # <<m, n>>
    BY <1>1, <2>1, <2>2
  <2>3. CASE p = <<m, n>>
    <3>1. {p[1], p[2]} = {n, m}
      BY <2>3
    <3> QED BY <1>1, <2>1, <2>3, <3>1, NetAssumption
  <2> QED BY <2>2, <2>3
<1>3. \A p \in Pairs : thread'[p] # Idle => p[1] \in up'
  <2>1. n \in up
    BY <1>1 DEF IInv, Running
  <2>2. \A p \in Pairs : p = <<n, m>> => p[1] = n
    OBVIOUS
  <2> QED BY <1>1, <2>1, <2>2 DEF IInv, Running
<1>4. \A c \in conn' : c \subseteq up'
  BY <1>1 DEF IInv, Running
<1> QED BY <1>2, <1>3, <1>4 DEF Running

\* A request is answered to the peer it came from, with no block or transaction.
LEMMA TakeRequestIInv ==
  ASSUME IInv, TypeInv', NEW n \in Nodes, NEW m \in Nodes, TakeRequest(n, m)
  PROVE  IInv'
<1> DEFINE msg == Head(wire[<<m, n>>])
           S == {<<m, r>> : r \in Reply(n, msg)}
<1>1. /\ {n, m} \in conn /\ thread[<<n, m>>] = Idle
      /\ \A p \in Pairs : p # <<m, n>> => wire'[p] = wire[p] /\ InFlight(p)' = InFlight(p)
      /\ Len(wire'[<<m, n>>]) = Len(wire[<<m, n>>]) - 1 /\ Len(wire[<<m, n>>]) \in Nat
      /\ InFlight(<<m, n>>) = InFlight(<<m, n>>)' \cup {msg}
      /\ msg \in Message
      /\ UNCHANGED <<made, needs, has, up, conn, faults, owed>>
  BY ReadEffect DEF TakeRequest, IInv
<1>2. known' = known /\ msg.type # "BLOCK or TX"
  BY DEF TakeRequest
<1>3. \A i \in Items : Item(i) \notin Reply(n, msg)
  BY <1>1, <1>2, Replies DEF IInv, TypeInv
<1>4. S \in SUBSET (Nodes \X Message)
  <2>1. Reply(n, msg) \in SUBSET Message
    BY <1>1, <1>2, Replies DEF IInv, TypeInv
  <2> QED BY <2>1
<1>5. /\ \A p \in Pairs : p # <<n, m>> => thread'[p] = thread[p]
      /\ thread'[<<n, m>>].at = "idle" /\ thread[<<n, m>>].at = "idle"
      /\ thread[<<n, m>>].todo = {}
      /\ thread'[<<n, m>>].todo = S
  <2>1. thread' = [thread EXCEPT ![<<n, m>>] = Replying(S)] /\ <<n, m>> \in Pairs
    BY DEF TakeRequest, Pairs
  <2> HIDE DEF S
  <2>2. thread'[<<n, m>>] = Replying(S)
    BY <2>1 DEF IInv, TypeInv
  <2>3. \A p \in Pairs : p # <<n, m>> => thread'[p] = thread[p]
    BY <2>1 DEF IInv, TypeInv
  <2> QED BY <1>1, <1>4, <2>2, <2>3, ThreadForms
<1>6. \A s \in S : s[1] = m /\ \A i \in Items : s[2] # Item(i)
  BY <1>3
<1>7. \A p \in Pairs, i \in Items : Item(i) \in InFlight(p)' <=> Item(i) \in InFlight(p)
  <2>1. \A i \in Items : Item(i) # msg
    <3>1. \A i : Item(i).type = "BLOCK or TX"
      BY DEF Item
    <3> HIDE DEF msg
    <3> QED BY <1>2, <3>1
  <2> QED BY <1>1, <2>1 DEF Pairs
<1> HIDE DEF msg, S
<1>8. Running'
  BY <1>5, ReadRunning DEF TakeRequest
<1>9. OnlyMade'
  <2>1. \A p \in Pairs, k \in Nodes, i \in Items :
          <<k, Item(i)>> \in thread'[p].todo => <<k, Item(i)>> \in thread[p].todo
    BY <1>5, <1>6 DEF Pairs
  <2> QED BY <1>1, <1>2, <1>5, <1>7, <2>1 DEF IInv, OnlyMade
<1>10. Considered' /\ Replication!AllClosed'
  <2>1. \A k, l \in Nodes : thread[<<k, l>>].at = "accept" => thread'[<<k, l>>] = thread[<<k, l>>]
    BY <1>5 DEF Pairs
  <2>2. Considered'
    <3> SUFFICES ASSUME NEW k \in Nodes, NEW i \in known'[k] PROVE TakenIn(k, i)'
      BY DEF Considered
    <3>1. TakenIn(k, i)
      BY <1>2 DEF IInv, Considered
    <3> QED BY <1>1, <2>1, <3>1, StillTakenIn
  <2>3. Replication!AllClosed'
    BY <1>1 DEF IInv, Replication!AllClosed, Replication!Closed
  <2> QED BY <2>2, <2>3
<1>11. NothingLost'
  <2>1. \A k \in Nodes, i \in Items : OnItsWay(k, i) => OnItsWay(k, i)'
    BY <1>2, <1>5, <1>7 DEF OnItsWay, Pairs
  <2>2. faults = 0 => \A p \in Pairs : \A s \in thread'[p].todo : {p[1], s[1]} \in conn
    <3> SUFFICES ASSUME faults = 0, NEW p \in Pairs, NEW s \in thread'[p].todo
                 PROVE  {p[1], s[1]} \in conn
      OBVIOUS
    <3>1. CASE p = <<n, m>>
      BY <1>1, <1>5, <1>6, <3>1
    <3>2. CASE p # <<n, m>>
      BY <1>5, <3>2 DEF IInv, NothingLost
    <3> QED BY <3>1, <3>2
  <2> QED BY <1>1, <2>1, <2>2 DEF IInv, NothingLost, TypeInv
<1> QED BY <1>8, <1>9, <1>10, <1>11 DEF IInv

\* What is read is known from then on, and handled unless it was known.
LEMMA TakeItemIInv ==
  ASSUME IInv, TypeInv', NEW n \in Nodes, NEW m \in Nodes, TakeItem(n, m)
  PROVE  IInv'
<1> DEFINE msg == Head(wire[<<m, n>>])
           i == msg.item
           v == IF i \in known[n] THEN Idle ELSE Handling(i, "accept")
<1>1. /\ \A p \in Pairs : p # <<m, n>> => InFlight(p)' = InFlight(p)
      /\ InFlight(<<m, n>>) = InFlight(<<m, n>>)' \cup {msg}
      /\ msg \in Message /\ thread[<<n, m>>] = Idle
      /\ UNCHANGED <<made, needs, has, conn, faults, owed>>
  BY ReadEffect DEF TakeItem, IInv
<1>2. i \in Items /\ msg = Item(i)
  BY <1>1, Frames DEF TakeItem
<1>3. <<n, m>> \in Pairs /\ <<m, n>> \in Pairs
  BY DEF Pairs
<1>4. known'[n] = known[n] \cup {i} /\ \A k \in Nodes : k # n => known'[k] = known[k]
  BY DEF TakeItem, IInv, TypeInv
<1>5. thread'[<<n, m>>] = v /\ \A p \in Pairs : p # <<n, m>> => thread'[p] = thread[p]
  BY <1>3 DEF TakeItem, IInv, TypeInv
<1>6. /\ thread[<<n, m>>].at = "idle" /\ thread[<<n, m>>].todo = {}
      /\ v.at # "relay" /\ v.todo = {} /\ (v.at = "accept" => v.item = i)
      /\ i \notin known[n] => v.at = "accept"
  BY <1>1, <1>2, ThreadForms DEF Steps
<1>7. i \in made
  <2>1. Item(i) \in InFlight(<<m, n>>)
    BY <1>1, <1>2
  <2> HIDE DEF i
  <2> QED BY <1>2, <1>3, <2>1 DEF IInv, OnlyMade
<1>8. v.at \in {"idle", "accept"}
  BY <1>2, ThreadForms DEF Steps
<1> HIDE DEF msg, i, v
<1>9. Running'
  BY <1>5, ReadRunning DEF TakeItem
<1>10. OnlyMade'
  <2>1. \A k \in Nodes : has'[k] \subseteq made' /\ known'[k] \subseteq made'
    BY <1>1, <1>4, <1>7 DEF IInv, OnlyMade
  <2>2. \A p \in Pairs : InFlight(p)' \subseteq InFlight(p)
    BY <1>1
  <2>3. \A p \in Pairs : /\ thread'[p].at # "idle" => thread'[p].item \in made
                         /\ thread'[p].at = "relay" => thread'[p].item \in has[p[1]]
                         /\ thread'[p].todo \subseteq thread[p].todo
    BY <1>5, <1>6, <1>7, <1>8 DEF IInv, OnlyMade
  <2> QED BY <1>1, <2>1, <2>2, <2>3 DEF IInv, OnlyMade
<1>11. Considered'
  <2> SUFFICES ASSUME NEW k \in Nodes, NEW j \in known'[k] PROVE TakenIn(k, j)'
    BY DEF Considered
  <2>1. CASE j \in known[k]
    <3>1. TakenIn(k, j)
      BY <2>1 DEF IInv, Considered
    <3>2. \A l \in Nodes : thread[<<k, l>>].at = "accept" => thread'[<<k, l>>] = thread[<<k, l>>]
      BY <1>5, <1>6 DEF Pairs
    <3> QED BY <1>1, <3>1, <3>2, StillTakenIn
  <2>2. CASE j \notin known[k]
    <3>1. k = n /\ j = i /\ i \notin known[n]
      BY <1>4, <2>2
    <3> QED BY <1>5, <1>6, <3>1 DEF TakenIn, InHand
  <2> QED BY <2>1, <2>2
<1>12. Replication!AllClosed'
  BY <1>1 DEF IInv, Replication!AllClosed, Replication!Closed
<1>13. NothingLost'
  <2>1. \A p \in Pairs : thread'[p].todo = thread[p].todo
    BY <1>5, <1>6
  <2>2. ASSUME NEW k \in Nodes, NEW j \in Items, OnItsWay(k, j) PROVE OnItsWay(k, j)'
    <3>1. CASE j \in known[k]
      BY <1>4, <3>1 DEF OnItsWay
    <3>2. CASE \E l \in Nodes : Item(j) \in InFlight(<<l, k>>)
      <4>1. PICK l \in Nodes : Item(j) \in InFlight(<<l, k>>)
        BY <3>2
      <4>2. CASE Item(j) = msg
        <5>1. j = i
          BY <1>2, <4>2, SameItem
        <5>2. CASE <<l, k>> = <<m, n>>
          <6>1. k = n
            BY <5>2
          <6>2. j \in known'[k]
            BY <1>4, <5>1, <6>1
          <6> QED BY <6>2 DEF OnItsWay
        <5>3. CASE <<l, k>> # <<m, n>>
          BY <1>1, <4>1, <5>3 DEF OnItsWay, Pairs
        <5> QED BY <5>2, <5>3
      <4>3. CASE Item(j) # msg
        <5>1. Item(j) \in InFlight(<<l, k>>)'
          BY <1>1, <4>1, <4>3 DEF Pairs
        <5> QED BY <5>1 DEF OnItsWay
      <4> QED BY <4>2, <4>3
    <3>3. CASE \E p \in Pairs : <<k, Item(j)>> \in thread[p].todo
      BY <2>1, <3>3 DEF OnItsWay
    <3> QED BY <2>2, <3>1, <3>2, <3>3 DEF OnItsWay
  <2> QED BY <1>1, <2>1, <2>2 DEF IInv, NothingLost, TypeInv
<1> QED BY <1>9, <1>10, <1>11, <1>12, <1>13 DEF IInv

\* A node accepts what is new to it and builds on nothing that it lacks.
LEMMA AcceptIInv ==
  ASSUME IInv, TypeInv', NEW n \in Nodes, NEW m \in Nodes, Accept(n, m)
  PROVE  IInv'
<1> DEFINE i == thread[<<n, m>>].item
           t == thread[<<n, m>>]
<1>1. /\ t.at = "accept" /\ t.todo = {} /\ i \in Items /\ i \in made
      /\ t \in ThreadStates /\ <<n, m>> \in Pairs
  BY DEF Accept, IInv, TypeInv, ThreadStates, Pairs, OnlyMade
<1>2. UNCHANGED <<made, needs, known, wire, up, conn, faults, owed>>
  BY DEF Accept, net
<1>3. \A p \in Pairs : p # <<n, m>> => thread'[p] = thread[p]
  BY DEF Accept, IInv, TypeInv
<1>4. /\ thread'[<<n, m>>].at \in {"idle", "relay"} /\ thread'[<<n, m>>].todo = {}
      /\ thread'[<<n, m>>].at = "relay" => /\ thread'[<<n, m>>].item = i
                                         /\ has' = [has EXCEPT ![n] = @ \cup {i}]
                                         /\ needs[i] \subseteq has[n]
      /\ thread'[<<n, m>>].at = "idle" => has' = has /\ (i \in has[n] \/ needs[i] # {})
  <2>1. CASE Accepts(n, i)
    <3>1. thread'[<<n, m>>] = [t EXCEPT !.at = "relay"]
      BY <1>1, <2>1 DEF Accept, IInv, TypeInv
    <3>2. /\ thread'[<<n, m>>].at = "relay" /\ thread'[<<n, m>>].item = i
          /\ thread'[<<n, m>>].todo = {}
      BY <1>1, <3>1 DEF ThreadStates
    <3> QED BY <2>1, <3>2 DEF Accept, Accepts
  <2>2. CASE ~Accepts(n, i)
    <3>1. thread'[<<n, m>>] = Idle
      BY <1>1, <2>2 DEF Accept, IInv, TypeInv
    <3> QED BY <2>2, <3>1, ThreadForms DEF Accept, Accepts
  <2> QED BY <2>1, <2>2
<1>5. /\ \A k \in Nodes : \A j \in has[k] : j \in has'[k]
      /\ \A k \in Nodes : \A j \in has'[k] : j \in has[k] \/ (k = n /\ j = i)
  <2>1. CASE thread'[<<n, m>>].at = "relay"
    <3>1. has' = [has EXCEPT ![n] = @ \cup {i}]
      BY <1>4, <2>1
    <3> HIDE DEF i
    <3> QED BY <3>1 DEF IInv, TypeInv
  <2>2. CASE thread'[<<n, m>>].at = "idle"
    BY <1>4, <2>2
  <2> QED BY <1>4, <2>1, <2>2
<1>6. thread'[<<n, m>>].at = "relay" => i \in has'[n]
  <2> HIDE DEF i
  <2> QED BY <1>4 DEF IInv, TypeInv
<1>7. n \in up
  <2>1. thread[<<n, m>>] # Idle
    BY <1>1, ThreadForms
  <2> QED BY <1>1, <2>1 DEF IInv, Running
<1>8. \A p \in Pairs : thread'[p].todo = thread[p].todo
  BY <1>1, <1>3, <1>4
<1>9. \A p \in Pairs : InFlight(p)' = InFlight(p)
  BY <1>2 DEF InFlight
<1>10. t.item = i
  OBVIOUS
<1> HIDE DEF i, t
<1>11. Running'
  <2>1. \A p \in Pairs : p = <<n, m>> => p[1] = n
    OBVIOUS
  <2>2. \A p \in Pairs : thread'[p] # Idle => p[1] \in up'
    BY <1>2, <1>3, <1>7, <2>1 DEF IInv, Running
  <2> QED BY <1>2, <2>2 DEF IInv, Running
<1>12. OnlyMade'
  <2>1. \A p \in Pairs : thread'[p].at # "idle" => thread'[p].item \in made
    BY <1>1, <1>3, <1>4 DEF IInv, OnlyMade
  <2>2. \A p \in Pairs : thread'[p].at = "relay" => thread'[p].item \in has'[p[1]]
    <3> SUFFICES ASSUME NEW p \in Pairs, thread'[p].at = "relay"
                 PROVE  thread'[p].item \in has'[p[1]]
      OBVIOUS
    <3>1. CASE p = <<n, m>>
      BY <1>4, <1>6, <3>1
    <3>2. CASE p # <<n, m>>
      <4>1. thread'[p].item \in has[p[1]] /\ p[1] \in Nodes
        BY <1>3, <3>2 DEF IInv, OnlyMade, Pairs
      <4> QED BY <1>5, <4>1
    <3> QED BY <3>1, <3>2
  <2> QED BY <1>1, <1>2, <1>5, <1>8, <1>9, <2>1, <2>2 DEF IInv, OnlyMade
<1>13. Considered'
  <2> SUFFICES ASSUME NEW k \in Nodes, NEW j \in known'[k] PROVE TakenIn(k, j)'
    BY DEF Considered
  <2>1. TakenIn(k, j)
    BY <1>2 DEF IInv, Considered
  <2>2. CASE k = n /\ j = i
    BY <1>2, <1>4, <1>5, <1>6, <2>2 DEF TakenIn
  <2>3. CASE ~(k = n /\ j = i) /\ InHand(k, j)
    <3>1. PICK l \in Nodes : thread[<<k, l>>].at = "accept" /\ thread[<<k, l>>].item = j
      BY <2>3 DEF InHand
    <3>2. <<k, l>> # <<n, m>>
      <4>1. thread[<<n, m>>].item = i
        BY <1>10 DEF t
      <4> QED BY <2>3, <3>1, <4>1
    <3>3. thread'[<<k, l>>] = thread[<<k, l>>]
      BY <1>3, <3>2 DEF Pairs
    <3> QED BY <3>1, <3>3 DEF TakenIn, InHand
  <2>4. CASE ~InHand(k, j)
    BY <1>2, <1>5, <2>1, <2>4 DEF TakenIn
  <2> QED BY <2>2, <2>3, <2>4
<1>14. Replication!AllClosed'
  <2> SUFFICES ASSUME NEW k \in Nodes, NEW j \in has'[k] PROVE needs'[j] \subseteq has'[k]
    BY DEF Replication!AllClosed, Replication!Closed
  <2>1. CASE j \in has[k]
    BY <1>2, <1>5, <2>1 DEF IInv, Replication!AllClosed, Replication!Closed
  <2>2. CASE j \notin has[k]
    <3>1. k = n /\ j = i /\ thread'[<<n, m>>].at = "relay"
      BY <1>4, <1>5, <2>2
    <3> QED BY <1>2, <1>4, <1>5, <3>1
  <2> QED BY <2>1, <2>2
<1>15. NothingLost'
  <2>1. \A k \in Nodes, j \in Items : OnItsWay(k, j) => OnItsWay(k, j)'
    BY <1>2, <1>8, <1>9 DEF OnItsWay, Pairs
  <2> QED BY <1>2, <1>8, <2>1 DEF IInv, NothingLost, TypeInv
<1> QED BY <1>11, <1>12, <1>13, <1>14, <1>15 DEF IInv

\* What a thread relays its node has, and it is about to send it to every peer it owes.
LEMMA RelayIInv ==
  ASSUME IInv, TypeInv', NEW n \in Nodes, NEW m \in Nodes, Relay(n, m)
  PROVE  IInv'
<1>0. PICK i : i = thread[<<n, m>>].item
  OBVIOUS
<1> DEFINE S == {<<p, Item(i)>> : p \in Targets(n, m)}
<1>1. /\ thread[<<n, m>>].at = "relay" /\ thread[<<n, m>>].todo = {}
      /\ i \in Items /\ i \in made /\ i \in has[n] /\ <<n, m>> \in Pairs
  <2>1. <<n, m>> \in Pairs /\ thread[<<n, m>>].at = "relay" /\ <<n, m>>[1] = n
    BY DEF Relay, Pairs
  <2>2. thread[<<n, m>>] \in ThreadStates
    BY <2>1 DEF IInv, TypeInv
  <2>3. i \in Items /\ thread[<<n, m>>].todo = {}
    BY <1>0, <2>1, <2>2 DEF ThreadStates
  <2> QED BY <1>0, <2>1, <2>3 DEF IInv, OnlyMade
<1>2. UNCHANGED <<made, needs, has, wire, up, conn, faults>>
  BY DEF Relay, net, chains
<1>3. known'[n] = known[n] \cup {i} /\ \A k \in Nodes : k # n => known'[k] = known[k]
  BY <1>0 DEF Relay, IInv, TypeInv
<1>4. S \in SUBSET (Nodes \X Message)
  <2>1. Item(i) \in Message
    BY <1>1 DEF Message
  <2>2. Targets(n, m) \subseteq Nodes
    BY DEF Targets, Peers
  <2> QED BY <2>1, <2>2
<1>5. /\ \A p \in Pairs : p # <<n, m>> => thread'[p] = thread[p]
      /\ thread'[<<n, m>>].at = "idle" /\ thread'[<<n, m>>].todo = S
  <2>1. thread' = [thread EXCEPT ![<<n, m>>] = Replying(S)]
    BY <1>0 DEF Relay
  <2> HIDE DEF S
  <2>2. \A p \in Pairs : p # <<n, m>> => thread'[p] = thread[p]
    BY <2>1 DEF IInv, TypeInv
  <2>3. thread'[<<n, m>>] = Replying(S)
    BY <1>1, <2>1 DEF IInv, TypeInv
  <2> QED BY <1>4, <2>2, <2>3, ThreadForms
<1>6. \A s \in S : {n, s[1]} \in conn /\ \A j \in Items : s[2] = Item(j) => j = i
  <2> SUFFICES ASSUME NEW s \in S
               PROVE  {n, s[1]} \in conn /\ \A j \in Items : s[2] = Item(j) => j = i
    OBVIOUS
  <2>1. PICK p \in Targets(n, m) : s = <<p, Item(i)>>
    OBVIOUS
  <2>2. s[1] = p /\ s[2] = Item(i)
    BY <2>1
  <2>3. {n, p} \in conn
    BY DEF Targets, Peers
  <2> QED BY <2>2, <2>3, SameItem
<1>7. owed' = owed \cup {<<p, i>> : p \in Targets(n, m)}
  BY <1>0 DEF Relay, Targets
<1>8. \A p \in Targets(n, m) : <<p, Item(i)>> \in S
  OBVIOUS
<1>9. \A p \in Pairs : InFlight(p)' = InFlight(p)
  BY <1>2 DEF InFlight
<1>10. n \in up
  <2>1. thread[<<n, m>>] # Idle
    BY <1>1, ThreadForms
  <2> QED BY <1>1, <2>1 DEF IInv, Running
<1> HIDE DEF S
<1>11. Running'
  <2>1. \A p \in Pairs : p = <<n, m>> => p[1] = n
    OBVIOUS
  <2>2. \A p \in Pairs : thread'[p] # Idle => p[1] \in up'
    BY <1>2, <1>5, <1>10, <2>1 DEF IInv, Running
  <2> QED BY <1>2, <2>2 DEF IInv, Running
<1>12. OnlyMade'
  <2>1. \A k \in Nodes : has'[k] \subseteq made' /\ known'[k] \subseteq made'
    BY <1>1, <1>2, <1>3 DEF IInv, OnlyMade
  <2>2. \A p \in Pairs : thread'[p].at # "idle" => thread'[p] = thread[p]
    BY <1>5
  <2>3. \A p \in Pairs, k \in Nodes, j \in Items : <<k, Item(j)>> \in thread'[p].todo => j \in made
    <3> SUFFICES ASSUME NEW p \in Pairs, NEW k \in Nodes, NEW j \in Items,
                        <<k, Item(j)>> \in thread'[p].todo
                 PROVE  j \in made
      OBVIOUS
    <3>1. CASE p = <<n, m>>
      BY <1>1, <1>5, <1>6, <3>1
    <3>2. CASE p # <<n, m>>
      BY <1>5, <3>2 DEF IInv, OnlyMade
    <3> QED BY <3>1, <3>2
  <2> QED BY <1>2, <1>9, <2>1, <2>2, <2>3 DEF IInv, OnlyMade
<1>13. Considered'
  <2> SUFFICES ASSUME NEW k \in Nodes, NEW j \in known'[k] PROVE TakenIn(k, j)'
    BY DEF Considered
  <2>1. CASE j \in known[k]
    <3>1. TakenIn(k, j)
      BY <2>1 DEF IInv, Considered
    <3>2. \A l \in Nodes : thread[<<k, l>>].at = "accept" => thread'[<<k, l>>] = thread[<<k, l>>]
      BY <1>1, <1>5 DEF Pairs
    <3> QED BY <1>2, <3>1, <3>2, StillTakenIn
  <2>2. CASE j \notin known[k]
    <3>1. k = n /\ j = i
      BY <1>3, <2>2
    <3> QED BY <1>1, <1>2, <3>1 DEF TakenIn
  <2> QED BY <2>1, <2>2
<1>14. Replication!AllClosed'
  BY <1>2 DEF IInv, Replication!AllClosed, Replication!Closed
<1>15. NothingLost'
  <2>1. \A p \in Pairs : thread[p].todo \subseteq thread'[p].todo
    BY <1>1, <1>5
  <2>2. \A k \in Nodes, j \in Items : OnItsWay(k, j) => OnItsWay(k, j)'
    <3>1. \A k \in Nodes : known[k] \subseteq known'[k]
      BY <1>3
    <3> QED BY <1>9, <2>1, <3>1 DEF OnItsWay, Pairs
  <2>3. \A p \in Targets(n, m) : OnItsWay(p, i)'
    <3> SUFFICES ASSUME NEW k \in Targets(n, m) PROVE OnItsWay(k, i)'
      OBVIOUS
    <3>1. <<k, Item(i)>> \in thread'[<<n, m>>].todo
      BY <1>5, <1>8
    <3> QED BY <1>1, <3>1 DEF OnItsWay
  <2>4. ASSUME faults = 0, NEW p \in Pairs, NEW s \in thread'[p].todo PROVE {p[1], s[1]} \in conn
    <3>1. CASE p = <<n, m>>
      BY <1>5, <1>6, <3>1
    <3>2. CASE p # <<n, m>>
      BY <1>5, <2>4, <3>2 DEF IInv, NothingLost
    <3> QED BY <3>1, <3>2
  <2>5. ASSUME faults = 0, NEW o \in owed' PROVE OnItsWay(o[1], o[2])'
    <3>1. CASE o \in owed
      BY <2>2, <2>5, <3>1 DEF IInv, NothingLost, TypeInv
    <3>2. CASE o \notin owed
      <4>1. PICK p \in Targets(n, m) : o = <<p, i>>
        BY <1>7, <3>2
      <4>2. o[1] = p /\ o[2] = i
        BY <4>1
      <4> QED BY <2>3, <4>2
    <3> QED BY <3>1, <3>2
  <2> QED BY <1>2, <2>4, <2>5 DEF NothingLost
<1> QED BY <1>11, <1>12, <1>13, <1>14, <1>15 DEF IInv

\* What is sent is in flight; it is dropped only when the peer is gone.
LEMMA SendIInv ==
  ASSUME IInv, TypeInv', NEW n \in Nodes, NEW m \in Nodes, Send(n, m)
  PROVE  IInv'
<1>1. PICK s \in thread[<<n, m>>].todo :
        /\ CanSend(n, s)
        /\ wire' = IF s[1] \in Peers(n)
                   THEN [wire EXCEPT ![<<n, s[1]>>] = Append(@, s[2])] ELSE wire
        /\ thread' = [thread EXCEPT ![<<n, m>>].todo = @ \ {s}]
        /\ UNCHANGED <<chains, known, net, owed>>
  BY DEF Send
<1> DEFINE t == thread[<<n, m>>]
           to == <<n, s[1]>>
<1>2. /\ <<n, m>> \in Pairs /\ to \in Pairs /\ s[1] \in Nodes /\ s[2] \in Message
      /\ s = <<s[1], s[2]>> /\ t \in ThreadStates
  <2>1. <<n, m>> \in Pairs
    BY DEF Pairs
  <2>2. t \in ThreadStates
    BY <2>1 DEF IInv, TypeInv
  <2>3. s \in Nodes \X Message
    BY <1>1, <2>2 DEF ThreadStates
  <2>4. s[1] \in Nodes /\ s[2] \in Message /\ s = <<s[1], s[2]>>
    BY <2>3
  <2> QED BY <2>1, <2>2, <2>4 DEF Pairs
<1>3. UNCHANGED <<made, needs, has, known, up, conn, faults, owed>>
  BY <1>1 DEF chains, net
<1>4. /\ \A p \in Pairs : p # <<n, m>> => thread'[p] = thread[p]
      /\ thread'[<<n, m>>].at = t.at /\ thread'[<<n, m>>].item = t.item
      /\ thread'[<<n, m>>].todo = t.todo \ {s}
  <2>1. thread'[<<n, m>>] = [t EXCEPT !.todo = @ \ {s}]
    BY <1>1, <1>2 DEF IInv, TypeInv
  <2>2. \A p \in Pairs : p # <<n, m>> => thread'[p] = thread[p]
    BY <1>1 DEF IInv, TypeInv
  <2> HIDE DEF t
  <2> QED BY <1>2, <2>1, <2>2 DEF ThreadStates
<1>5. /\ \A p \in Pairs : p # to => wire'[p] = wire[p] /\ InFlight(p)' = InFlight(p)
      /\ s[1] \in Peers(n) => /\ InFlight(to)' = InFlight(to) \cup {s[2]}
                              /\ Len(wire'[to]) <= Cap
      /\ s[1] \notin Peers(n) => wire' = wire /\ InFlight(to)' = InFlight(to)
  <2>1. CASE s[1] \in Peers(n)
    <3>1. /\ wire'[to] = Append(wire[to], s[2]) /\ Len(wire[to]) < Cap
          /\ \A p \in Pairs : p # to => wire'[p] = wire[p]
      BY <1>1, <1>2, <2>1 DEF IInv, TypeInv, CanSend
    <3>2. /\ Len(wire'[to]) = Len(wire[to]) + 1 /\ Len(wire[to]) \in Nat
          /\ Elements(wire'[to]) = Elements(wire[to]) \cup {s[2]}
      <4>1. wire[to] \in Seq(Message)
        BY <1>2 DEF IInv, TypeInv
      <4> HIDE DEF to
      <4> QED BY <1>2, <3>1, <4>1, AppendElements
    <3> HIDE DEF to
    <3> QED BY <2>1, <3>1, <3>2, NetAssumption DEF InFlight
  <2>2. CASE s[1] \notin Peers(n)
    BY <1>1, <2>2 DEF InFlight
  <2> QED BY <2>1, <2>2
<1>6. n \in up /\ (s[1] \in Peers(n) => {n, s[1]} \in conn)
  <2>1. thread[<<n, m>>] # Idle
    BY <1>1, ThreadForms
  <2> QED BY <1>2, <2>1 DEF IInv, Running, Peers
<1>7. \A p \in Pairs : thread'[p].at = thread[p].at /\ thread'[p].item = thread[p].item
  BY <1>4
<1>8. /\ \A p \in Pairs : thread'[p].todo \subseteq thread[p].todo
      /\ \A p \in Pairs : \A x \in thread[p].todo : x # s => x \in thread'[p].todo
  BY <1>4
<1>9. Running'
  <2>1. \A p \in Pairs : p = <<n, m>> => p[1] = n
    OBVIOUS
  <2>2. \A p \in Pairs : thread'[p] # Idle => p[1] \in up'
    <3> HIDE DEF t, to
    <3> QED BY <1>3, <1>4, <1>6, <2>1 DEF IInv, Running
  <2>3. ASSUME NEW p \in Pairs
        PROVE  Len(wire'[p]) <= Cap /\ ({p[1], p[2]} \notin conn' => wire'[p] = <<>>)
    <3>1. Len(wire[p]) <= Cap /\ ({p[1], p[2]} \notin conn => wire[p] = <<>>)
      BY DEF IInv, Running
    <3>2. CASE p = to /\ s[1] \in Peers(n)
      <4>1. {p[1], p[2]} = {n, s[1]}
        BY <3>2
      <4> QED BY <1>3, <1>5, <1>6, <3>2, <4>1
    <3>3. CASE ~(p = to /\ s[1] \in Peers(n))
      <4>1. wire'[p] = wire[p]
        BY <1>5, <3>3
      <4> QED BY <1>3, <3>1, <4>1
    <3> QED BY <3>2, <3>3
  <2> QED BY <1>3, <2>2, <2>3 DEF IInv, Running
<1>10. OnlyMade'
  <2>1. ASSUME NEW p \in Pairs, NEW j \in Items, Item(j) \in InFlight(p)' PROVE j \in made
    <3>1. CASE Item(j) \in InFlight(p)
      BY <3>1 DEF IInv, OnlyMade
    <3>2. CASE Item(j) \notin InFlight(p)
      <4>1. Item(j) = s[2]
        BY <1>5, <2>1, <3>2
      <4>2. <<s[1], Item(j)>> \in thread[<<n, m>>].todo
        BY <1>1, <1>2, <4>1
      <4> QED BY <1>2, <4>2 DEF IInv, OnlyMade
    <3> QED BY <3>1, <3>2
  <2> QED BY <1>3, <1>7, <1>8, <2>1 DEF IInv, OnlyMade
<1>11. Considered'
  <2> SUFFICES ASSUME NEW k \in Nodes, NEW j \in known'[k] PROVE TakenIn(k, j)'
    BY DEF Considered
  <2>1. TakenIn(k, j)
    BY <1>3 DEF IInv, Considered
  <2>2. \A l \in Nodes : /\ thread'[<<k, l>>].at = thread[<<k, l>>].at
                        /\ thread'[<<k, l>>].item = thread[<<k, l>>].item
    BY <1>7 DEF Pairs
  <2> QED BY <1>3, <2>1, <2>2 DEF TakenIn, InHand
<1>12. Replication!AllClosed'
  BY <1>3 DEF IInv, Replication!AllClosed, Replication!Closed
<1>13. NothingLost'
  <2> SUFFICES ASSUME faults = 0 PROVE NothingLost'
    BY <1>3 DEF NothingLost
  <2>1. {n, s[1]} \in conn
    <3>1. <<n, m>>[1] = n
      OBVIOUS
    <3> QED BY <1>1, <1>2, <3>1 DEF IInv, NothingLost
  <2>2. s[1] \in Peers(n)
    BY <1>2, <2>1 DEF Peers
  <2>3. \A p \in Pairs : InFlight(p) \subseteq InFlight(p)'
    BY <1>2, <1>5
  <2>4. ASSUME NEW k \in Nodes, NEW j \in Items, OnItsWay(k, j) PROVE OnItsWay(k, j)'
    <3>1. CASE \E p \in Pairs : <<k, Item(j)>> \in thread[p].todo
      <4>1. PICK p \in Pairs : <<k, Item(j)>> \in thread[p].todo
        BY <3>1
      <4>2. CASE <<k, Item(j)>> = s
        <5>1. k = s[1] /\ Item(j) = s[2]
          BY <4>2
        <5>2. Item(j) \in InFlight(<<n, k>>)'
          BY <1>5, <2>2, <5>1
        <5> QED BY <5>2 DEF OnItsWay
      <4>3. CASE <<k, Item(j)>> # s
        BY <1>8, <4>1, <4>3 DEF OnItsWay
      <4> QED BY <4>2, <4>3
    <3>2. CASE j \in known[k] \/ \E l \in Nodes : Item(j) \in InFlight(<<l, k>>)
      BY <1>3, <2>3, <3>2 DEF OnItsWay, Pairs
    <3> QED BY <2>4, <3>1, <3>2 DEF OnItsWay
  <2> QED BY <1>3, <1>8, <2>4 DEF IInv, NothingLost, TypeInv
<1> QED BY <1>9, <1>10, <1>11, <1>12, <1>13 DEF IInv
----------------------------------------------------------------------------
\* The invariant holds at first, and every step of the network keeps it.
THEOREM Inductive == Spec => []IInv
<1>1. IInv /\ [Next]_vars => IInv'
  <2> SUFFICES ASSUME IInv, [Next]_vars PROVE IInv'
    OBVIOUS
  <2>1. TypeInv'
    BY StepTypeInv DEF IInv
  <2>2. ASSUME NEW n \in Nodes, Start(n) PROVE IInv'
    BY <2>1, <2>2, StartIInv
  <2>3. ASSUME NEW n \in Nodes, Crash(n) \/ \E m \in Nodes : Break(n, m) PROVE IInv'
    BY <2>1, <2>3, BrokenIInv
  <2>4. ASSUME NEW n \in Nodes, NEW i \in Items, Make(n, i) PROVE IInv'
    BY <2>1, <2>4, MakeIInv
  <2>5. ASSUME NEW n \in Nodes, NEW m \in Nodes, Handle(n, m) PROVE IInv'
    BY <2>1, <2>5, TakeRequestIInv, TakeItemIInv, AcceptIInv, RelayIInv, SendIInv DEF Handle
  <2>6. ASSUME NEW n \in Nodes, NEW m \in Nodes, TimesOut(n, m) PROVE IInv'
    BY <2>1, <2>6, TimesOutIInv
  <2>7. CASE UNCHANGED vars
    <3>1. Running'
      BY <2>7 DEF vars, IInv, Running
    <3>2. NothingLost'
      BY <2>7 DEF vars, IInv, NothingLost, OnItsWay, InFlight
    <3>3. OnlyMade'
      BY <2>7 DEF vars, IInv, OnlyMade, InFlight
    <3>4. Considered' /\ Replication!AllClosed'
      BY <2>7 DEF vars, IInv, Considered, TakenIn, InHand, Replication!AllClosed, Replication!Closed
    <3> QED BY <2>1, <3>1, <3>2, <3>3, <3>4 DEF IInv
  <2> QED BY <2>2, <2>3, <2>4, <2>5, <2>6, <2>7 DEF Next
<1> QED BY <1>1, InitIInv, PTL DEF Spec

\* Buffers never hold more than fits, nothing is in flight between nodes that are
\* not connected, and only running nodes have threads and connections.
THEOREM TypeCorrect == Spec => []TypeOK
<1>1. IInv => TypeOK
  <2> SUFFICES ASSUME IInv PROVE TypeOK
    OBVIOUS
  <2>1. ASSUME NEW p \in Pairs
        PROVE  /\ \A k \in DOMAIN wire[p] : wire[p][k] \in Message
               /\ thread[p].at \in {"idle", "accept", "relay"}
               /\ thread[p].todo \subseteq Nodes \X Message
    <3>1. wire[p] \in Seq(Message) /\ thread[p] \in ThreadStates
      BY DEF IInv, TypeInv
    <3> QED BY <3>1 DEF ThreadStates, Steps
  <2> QED BY <2>1 DEF IInv, TypeInv, Running, OnlyMade, TypeOK
<1> QED BY <1>1, Inductive, PTL

\* Gossip delivers, for any number of nodes however they are connected: once
\* nothing is on its way any more and no connection has broken, everything that
\* was to be relayed to a peer is in its chain or was turned down there.
THEOREM EverythingDelivered == Spec => []Delivers
<1>1. IInv => Delivers
  <2> SUFFICES ASSUME IInv, Quiet, faults = 0, NEW o \in owed
               PROVE  o[2] \in known[o[1]] /\ (o[2] \in has[o[1]] \/ needs[o[2]] # {})
    BY DEF Delivers
  <2>1. PICK n \in Nodes, i \in Items : o = <<n, i>>
    BY DEF IInv, TypeInv
  <2>2. o[1] = n /\ o[2] = i
    BY <2>1
  <2>3. \A p \in Pairs : thread[p].at = "idle" /\ thread[p].todo = {}
    BY ThreadForms DEF Quiet
  <2>4. \A p \in Pairs : Item(i) \notin InFlight(p)
    <3>1. Item(i).type = "BLOCK or TX"
      BY DEF Item
    <3> QED BY <3>1 DEF Quiet, InFlight, Elements
  <2>5. OnItsWay(n, i)
    BY <2>2 DEF IInv, NothingLost
  <2>6. i \in known[n]
    BY <2>3, <2>4, <2>5 DEF OnItsWay, Pairs
  <2>7. ~InHand(n, i)
    <3>1. \A m \in Nodes : thread[<<n, m>>].at = "idle"
      BY <2>3 DEF Pairs
    <3> QED BY <3>1 DEF InHand
  <2> QED BY <2>2, <2>6, <2>7 DEF IInv, Considered, TakenIn
<1> QED BY <1>1, Inductive, PTL

----------------------------------------------------------------------------
\* Nothing is relayed to the peer it came from.
Onward == \A p \in Pairs : \A s \in thread[p].todo : s[2].type = "BLOCK or TX" => s[1] # p[2]

\* Every step keeps it: a thread takes what it relays from its own peer.
LEMMA StepOnward == TypeInv /\ Onward /\ [Next]_vars => Onward'
<1> SUFFICES ASSUME TypeInv, Onward, [Next]_vars PROVE Onward'
  OBVIOUS
<1>2. ASSUME NEW n \in Nodes, NEW m \in Nodes, TakeRequest(n, m) PROVE Onward'
  <2> DEFINE msg == Head(wire[<<m, n>>])
             S == {<<m, r>> : r \in Reply(n, msg)}
  <2>1. msg \in Message /\ msg.type # "BLOCK or TX"
    BY <1>2, ReadsFrame DEF TakeRequest, Reads, HasMail
  <2>2. Reply(n, msg) \subseteq Message /\ \A i \in Items : Item(i) \notin Reply(n, msg)
    BY <2>1, Replies DEF TypeInv
  <2>3. \A r \in Reply(n, msg) : r.type # "BLOCK or TX"
    BY <2>2, Frames
  <2>4. S \in SUBSET (Nodes \X Message) /\ \A s \in S : s[2].type # "BLOCK or TX"
    <3>1. \A r \in Reply(n, msg) : <<m, r>> \in Nodes \X Message /\ <<m, r>>[2] = r
      BY <2>2
    <3> HIDE DEF msg
    <3>2. \A s \in S : s \in Nodes \X Message
      BY <3>1
    <3>3. \A s \in S : s[2].type # "BLOCK or TX"
      BY <2>3, <3>1
    <3> QED BY <3>2, <3>3
  <2>5. thread' = [thread EXCEPT ![<<n, m>>] = Replying(S)]
    BY <1>2 DEF TakeRequest
  <2> HIDE DEF S
  <2>6. Replying(S).todo = S
    BY <2>4, ThreadForms
  <2>7. \A p \in Pairs : thread'[p] = thread[p] \/ thread'[p].todo = S
    BY <2>5, <2>6 DEF TypeInv
  <2> QED BY <2>4, <2>7 DEF Onward
<1>3. ASSUME NEW n \in Nodes, NEW m \in Nodes, Relay(n, m) PROVE Onward'
  <2> DEFINE i == thread[<<n, m>>].item
             S == {<<p, Item(i)>> : p \in Targets(n, m)}
  <2>1. i \in Items
    BY <1>3 DEF Relay, TypeInv, ThreadStates, Pairs
  <2>2. S \in SUBSET (Nodes \X Message)
    <3>1. Item(i) \in Message /\ Targets(n, m) \subseteq Nodes
      BY <2>1 DEF Message, Targets, Peers
    <3> HIDE DEF i
    <3> QED BY <3>1
  <2>3. \A s \in S : s[1] # m
    BY DEF Targets
  <2>4. thread' = [thread EXCEPT ![<<n, m>>] = Replying(S)]
    BY <1>3 DEF Relay
  <2> HIDE DEF S
  <2>5. Replying(S).todo = S /\ <<n, m>>[2] = m
    BY <2>2, ThreadForms
  <2>6. \A p \in Pairs : thread'[p] = thread[p] \/ (thread'[p].todo = S /\ p[2] = m)
    BY <2>4, <2>5 DEF TypeInv
  <2> QED BY <2>3, <2>6 DEF Onward
<1>4. ASSUME NEW n \in Nodes, NEW m \in Nodes, Send(n, m) \/ TimesOut(n, m) PROVE Onward'
  <2>1. PICK s \in thread[<<n, m>>].todo : thread' = [thread EXCEPT ![<<n, m>>].todo = @ \ {s}]
    BY <1>4 DEF Send, TimesOut
  <2>2. \A p \in Pairs : thread'[p].todo \subseteq thread[p].todo
    BY <2>1 DEF TypeInv, ThreadStates
  <2> QED BY <2>2 DEF Onward
<1>5. ASSUME NEW n \in Nodes, Start(n) PROVE Onward'
  <2> DEFINE met == {{n, m} : m \in Seeds[n] \cap up}
  <2>1. \A p \in Pairs :
          thread'[p] = [thread[p] EXCEPT !.todo = {s \in @ : {p[1], s[1]} \notin met}]
    BY <1>5 DEF Start
  <2> HIDE DEF met
  <2>2. \A p \in Pairs : thread'[p].todo \subseteq thread[p].todo
    <3> SUFFICES ASSUME NEW p \in Pairs PROVE thread'[p].todo \subseteq thread[p].todo
      OBVIOUS
    <3>1. thread[p] \in ThreadStates
      BY DEF TypeInv
    <3> QED BY <2>1, <3>1 DEF ThreadStates
  <2> QED BY <2>2 DEF Onward
<1>6. ASSUME NEW n \in Nodes, Crash(n) PROVE Onward'
  <2>1. \A p \in Pairs : thread'[p].todo \subseteq thread[p].todo
    BY <1>6, ThreadForms DEF Crash
  <2> QED BY <2>1 DEF Onward
<1>7. ASSUME NEW n \in Nodes, NEW m \in Nodes, TakeItem(n, m) PROVE Onward'
  <2> DEFINE i == Head(wire[<<m, n>>]).item
  <2>1. i \in Items
    BY <1>7, ReadsFrame, Frames DEF TakeItem, Reads, HasMail
  <2>2. \/ thread' = [thread EXCEPT ![<<n, m>>] = Idle]
        \/ thread' = [thread EXCEPT ![<<n, m>>] = Handling(i, "accept")]
    BY <1>7 DEF TakeItem
  <2> HIDE DEF i
  <2>3. Idle.todo = {} /\ Handling(i, "accept").todo = {}
    BY DEF Idle, Handling
  <2>4. \A p \in Pairs : thread'[p].todo \subseteq thread[p].todo
    BY <2>2, <2>3 DEF TypeInv
  <2> QED BY <2>4 DEF Onward
<1>8. ASSUME NEW n \in Nodes, NEW m \in Nodes, Accept(n, m) PROVE Onward'
  <2>1. \/ thread' = [thread EXCEPT ![<<n, m>>] = Idle]
        \/ thread' = [thread EXCEPT ![<<n, m>>].at = "relay"]
    BY <1>8 DEF Accept
  <2>2. \A p \in Pairs : thread'[p] = thread[p] \/ thread'[p] = Idle
                            \/ thread'[p] = [thread[p] EXCEPT !.at = "relay"]
    BY <2>1 DEF TypeInv
  <2>3. \A p \in Pairs : thread'[p].todo \subseteq thread[p].todo
    <3> SUFFICES ASSUME NEW p \in Pairs PROVE thread'[p].todo \subseteq thread[p].todo
      OBVIOUS
    <3>1. thread[p] \in ThreadStates /\ Idle.todo = {}
      BY ThreadForms DEF TypeInv
    <3> QED BY <2>2, <3>1 DEF ThreadStates
  <2> QED BY <2>3 DEF Onward
<1>9. ASSUME NEW n \in Nodes, NEW i \in Items, Make(n, i) PROVE Onward'
  <2>1. thread' = [thread EXCEPT ![<<n, n>>] = Handling(i, "relay")]
    BY <1>9 DEF Make
  <2>2. Handling(i, "relay").todo = {}
    BY DEF Handling
  <2>3. \A p \in Pairs : thread'[p].todo \subseteq thread[p].todo
    BY <2>1, <2>2 DEF TypeInv
  <2> QED BY <2>3 DEF Onward
<1>10. CASE UNCHANGED thread
  BY <1>10 DEF Onward
<1> QED
  BY <1>2, <1>3, <1>4, <1>5, <1>6, <1>7, <1>8, <1>9, <1>10 DEF Next, Handle, Break, vars

\* In a finite graph where whoever has an edge that comes in has one that goes out
\* to another node, some nodes have two neighbours each among themselves.
LEMMA CycleFound ==
  ASSUME NEW E \in SUBSET Pairs, E # {},
         \A n, p \in Nodes : <<n, p>> \in E => \E q \in Nodes \ {n} : <<p, q>> \in E
  PROVE  \E S \in SUBSET Nodes : S # {} /\ \A n \in S :
           \E m, q \in S : m # q /\ <<m, n>> \in E /\ <<n, q>> \in E
<1> DEFINE Goes(C) == \A n, p \in Nodes : <<n, p>> \in C => \E q \in Nodes \ {n} : <<p, q>> \in C
           T == {C \in SUBSET Pairs : C # {} /\ C \subseteq E /\ Goes(C)}
<1>1. IsFiniteSet(Pairs)
  BY NetAssumption, FS_Product DEF Pairs
<1>2. PICK C \in T : \A D \in T : D \subseteq C => D = C
  <2>1. T \in SUBSET (SUBSET Pairs) /\ E \in T
    OBVIOUS
  <2> HIDE DEF T
  <2> QED BY <1>1, <2>1, SmallestSubset
<1> DEFINE D == {e \in C : \E m \in Nodes : m # e[2] /\ <<m, e[1]>> \in C}
<1>3. C \in SUBSET Pairs /\ C # {} /\ C \subseteq E /\ Goes(C)
  BY <1>2
<1>4. \A n, p, q \in Nodes : <<n, p>> \in C /\ <<p, q>> \in C /\ q # n => <<p, q>> \in D
  <2> SUFFICES ASSUME NEW n \in Nodes, NEW p \in Nodes, NEW q \in Nodes,
                      <<n, p>> \in C, <<p, q>> \in C, q # n
               PROVE  <<p, q>> \in D
    OBVIOUS
  <2>1. <<p, q>>[1] = p /\ <<p, q>>[2] = q
    OBVIOUS
  <2> QED BY <2>1
<1>5. D \in T
  <2>1. Goes(D)
    <3> SUFFICES ASSUME NEW n \in Nodes, NEW p \in Nodes, <<n, p>> \in D
                 PROVE  \E q \in Nodes \ {n} : <<p, q>> \in D
      OBVIOUS
    <3>1. PICK q \in Nodes \ {n} : <<p, q>> \in C
      BY <1>3
    <3> QED BY <1>4, <3>1
  <2>2. D # {}
    <3>1. PICK e \in C : TRUE
      BY <1>3
    <3>2. PICK n \in Nodes, p \in Nodes : e = <<n, p>>
      BY <1>3 DEF Pairs
    <3>3. PICK q \in Nodes \ {n} : <<p, q>> \in C
      BY <1>3, <3>1, <3>2
    <3> QED BY <1>4, <3>1, <3>2, <3>3
  <2> QED BY <1>3, <2>1, <2>2
<1>6. D = C
  BY <1>2, <1>5
<1> DEFINE S == {n \in Nodes : \E m \in Nodes : <<m, n>> \in C}
<1> HIDE DEF T, D
<1>7. S # {}
  <2>1. PICK e \in C : TRUE
    BY <1>3
  <2>2. PICK m \in Nodes, n \in Nodes : e = <<m, n>>
    BY <1>3 DEF Pairs
  <2> QED BY <2>1, <2>2
<1>8. ASSUME NEW n \in S PROVE \E m, q \in S : m # q /\ <<m, n>> \in E /\ <<n, q>> \in E
  <2>1. PICK l \in Nodes : <<l, n>> \in C
    OBVIOUS
  <2>2. PICK q \in Nodes \ {l} : <<n, q>> \in C
    BY <1>3, <2>1
  <2>3. l \in S
    <3>1. PICK k \in Nodes : <<k, l>> \in C
      <4>1. <<l, n>> \in D /\ <<l, n>>[1] = l
        BY <1>6, <2>1
      <4> QED BY <4>1 DEF D
    <3> QED BY <3>1
  <2>4. q \in S /\ <<l, n>> \in E /\ <<n, q>> \in E
    BY <1>3, <2>1, <2>2
  <2> QED BY <2>2, <2>3, <2>4
<1> QED BY <1>7, <1>8

\* Relaying never stops for full buffers in a network without a cycle, however
\* large it is and whoever leaves it: a thread that waits for room waits for a
\* thread of the next node, which can only be waiting for the one after that.
THEOREM RelayingGoesOn == Spec => []NeverStuck
<1>1. IInv /\ Onward => NeverStuck
  <2> SUFFICES ASSUME IInv, Onward, ~Quiet, Relaying, Forest,
                      \A n, m \in Nodes : ~Ready(n, m)
               PROVE  FALSE
    BY DEF NeverStuck
  <2> DEFINE E == {e \in Pairs : e[2] \in Peers(e[1]) /\ ~(Len(wire[e]) < Cap)}
  <2>1. ASSUME NEW n \in Nodes, NEW m \in Nodes, thread[<<n, m>>] # Idle
        PROVE  \E q \in Nodes \ {m} : <<n, q>> \in E
    <3>1. thread[<<n, m>>] \in ThreadStates /\ <<n, m>> \in Pairs
      BY DEF IInv, TypeInv, Pairs
    <3>2. thread[<<n, m>>].at = "idle" /\ \A s \in thread[<<n, m>>].todo : ~CanSend(n, s)
      BY DEF Ready
    <3>3. PICK s \in thread[<<n, m>>].todo : TRUE
      BY <2>1, <3>1, <3>2, ThreadForms
    <3>4. s[1] \in Nodes /\ s[1] # m
      <4>1. <<n, m>>[2] = m
        OBVIOUS
      <4>2. s \in Nodes \X Message
        BY <3>1, <3>3 DEF ThreadStates
      <4> QED BY <3>1, <3>3, <4>1, <4>2 DEF Onward, Relaying
    <3>5. s[1] \in Peers(n) /\ ~(Len(wire[<<n, s[1]>>]) < Cap)
      BY <3>2, <3>3 DEF CanSend
    <3>6. <<n, s[1]>> \in E
      BY <3>4, <3>5 DEF Pairs
    <3> QED BY <3>4, <3>6
  <2>2. ASSUME NEW n \in Nodes, NEW m \in Nodes, wire[<<n, m>>] # <<>>
        PROVE  thread[<<m, n>>] # Idle
    <3>1. {n, m} \in conn
      <4>1. <<n, m>> \in Pairs /\ <<n, m>>[1] = n /\ <<n, m>>[2] = m
        BY DEF Pairs
      <4> QED BY <2>2, <4>1 DEF IInv, Running
    <3>2. {m, n} = {n, m}
      OBVIOUS
    <3>3. n \in Peers(m)
      BY <3>1, <3>2 DEF Peers
    <3> QED BY <2>2, <3>3 DEF Ready, HasMail
  <2>3. ASSUME NEW n \in Nodes, NEW p \in Nodes, <<n, p>> \in E
        PROVE  \E q \in Nodes \ {n} : <<p, q>> \in E
    <3>1. wire[<<n, p>>] # <<>>
      <4>1. ~(Len(wire[<<n, p>>]) < Cap)
        BY <2>3
      <4> HIDE DEF E
      <4> QED BY <4>1, NetAssumption
    <3> HIDE DEF E
    <3> QED BY <2>1, <2>2, <3>1
  <2>4. E # {}
    <3>1. PICK n \in Nodes, m \in Nodes :
            thread[<<n, m>>] # Idle \/ wire[<<n, m>>] # <<>>
      <4>1. PICK p \in Pairs : thread[p] # Idle \/ \E k \in DOMAIN wire[p] : TRUE
        BY DEF Quiet
      <4>2. thread[p] # Idle \/ wire[p] # <<>>
        BY <4>1
      <4> QED BY <4>2 DEF Pairs
    <3>2. thread[<<n, m>>] # Idle \/ thread[<<m, n>>] # Idle
      BY <2>2, <3>1
    <3> HIDE DEF E
    <3> QED BY <2>1, <3>2
  <2>5. E \in SUBSET Pairs
    OBVIOUS
  <2>6. \A n, p \in Nodes : <<n, p>> \in E => p \in Peers(n) /\ n \in Peers(p)
    <3> SUFFICES ASSUME NEW n \in Nodes, NEW p \in Nodes, <<n, p>> \in E
                 PROVE  p \in Peers(n) /\ n \in Peers(p)
      OBVIOUS
    <3>1. p \in Peers(n) /\ {n, p} = {p, n}
      OBVIOUS
    <3> QED BY <3>1 DEF Peers
  <2> HIDE DEF E
  <2>7. PICK S \in SUBSET Nodes : S # {} /\ \A n \in S :
          \E m, q \in S : m # q /\ <<m, n>> \in E /\ <<n, q>> \in E
    BY <2>3, <2>4, <2>5, CycleFound
  <2>8. PICK n \in S : \A p, q \in Peers(n) \cap S : p = q
    BY <2>7 DEF Forest
  <2>9. PICK m \in S, q \in S : m # q /\ <<m, n>> \in E /\ <<n, q>> \in E
    BY <2>7
  <2>10. m \in Peers(n) /\ q \in Peers(n)
    BY <2>6, <2>9
  <2> QED BY <2>8, <2>9, <2>10
<1>2. Spec => []Onward
  <2>1. Init => Onward
    <3> SUFFICES ASSUME Init PROVE Onward
      OBVIOUS
    <3>1. \A p \in Pairs : thread[p].todo = {}
      BY ThreadForms DEF Init
    <3> QED BY <3>1 DEF Onward
  <2>2. IInv /\ Onward /\ [Next]_vars => Onward'
    BY StepOnward DEF IInv
  <2> QED BY <2>1, <2>2, Inductive, PTL DEF Spec
<1> QED BY <1>1, <1>2, Inductive, PTL

\* The network implements replication: a step of a node makes something, accepts
\* something that was made after what it builds on, goes back to a snapshot in a
\* restart, or leaves the chains alone.
THEOREM Replicates == Spec => ReplicationSpec
<1>1. Init => Replication!Init
  BY DEF Init, Replication!Init
<1>2. IInv /\ [Next]_vars => [Replication!Next]_<<made, needs, has>>
  <2> SUFFICES ASSUME IInv, [Next]_vars PROVE Replication!Next \/ UNCHANGED <<made, needs, has>>
    OBVIOUS
  <2>1. ASSUME NEW n \in Nodes, NEW i \in Items, Make(n, i) PROVE Replication!Make(n, i)
    <3>1. PICK S \in SUBSET (has[n] \cap Blocks) : needs' = [needs EXCEPT ![i] = S]
      BY <2>1 DEF Make
    <3> QED BY <2>1, <3>1 DEF Make, Replication!Make
  <2>2. ASSUME NEW n \in Nodes, Crash(n) PROVE Replication!Forget(n)
    BY <2>2 DEF Crash, Replication!Forget, Replication!Closed
  <2>3. ASSUME NEW n \in Nodes, NEW m \in Nodes, Accept(n, m)
        PROVE  Replication!Next \/ UNCHANGED <<made, needs, has>>
    <3> DEFINE i == thread[<<n, m>>].item
    <3>1. UNCHANGED <<made, needs>> /\ i \in Items /\ i \in made
      BY <2>3 DEF Accept, IInv, TypeInv, ThreadStates, OnlyMade, Pairs
    <3>2. CASE Accepts(n, i)
      <4>1. Replication!Learn(n, i)
        BY <2>3, <3>1, <3>2 DEF Accept, Accepts, Replication!Learn
      <4> QED BY <3>1, <4>1 DEF Replication!Next
    <3>3. CASE ~Accepts(n, i)
      BY <2>3, <3>1, <3>3 DEF Accept
    <3> QED BY <3>2, <3>3
  <2>4. ASSUME NEW n \in Nodes, NEW m \in Nodes,
               \/ TakeRequest(n, m) \/ TakeItem(n, m) \/ Relay(n, m) \/ Send(n, m)
               \/ TimesOut(n, m) \/ Break(n, m) \/ Start(n)
        PROVE  UNCHANGED <<made, needs, has>>
    <3>1. TakeRequest(n, m) \/ TakeItem(n, m) => UNCHANGED <<made, needs, has>>
      BY DEF TakeRequest, TakeItem, Reads, chains
    <3>2. Relay(n, m) \/ TimesOut(n, m) \/ Break(n, m) \/ Start(n) => UNCHANGED <<made, needs, has>>
      BY DEF Relay, TimesOut, Break, Start, chains
    <3>3. Send(n, m) => UNCHANGED <<made, needs, has>>
      BY DEF Send, chains
    <3> QED BY <2>4, <3>1, <3>2, <3>3
  <2>5. CASE UNCHANGED vars
    BY <2>5 DEF vars
  <2> QED BY <2>1, <2>2, <2>3, <2>4, <2>5 DEF Next, Handle, Replication!Next
<1> QED BY <1>1, <1>2, Inductive, PTL DEF Spec, ReplicationSpec, Replication!Spec
=============================================================================
