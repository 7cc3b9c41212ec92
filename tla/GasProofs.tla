----------------------------- MODULE GasProofs -----------------------------
(***************************************************************************)
(* Proofs about module Gas: type correctness, the reserve and the wallet   *)
(* agree, and a batch is paid once in two weeks and once more for every    *)
(* restart.  The invariant follows a batch from its simulation to its      *)
(* booking: what was simulated can be afforded until it is booked, as only *)
(* a correction takes anything away, and what the engine has behind it is  *)
(* what this run has sent.                                                 *)
(***************************************************************************)
EXTENDS Gas, SequenceTheorems, AggregateTheorems

EngineStates == {"sleep", "wait", "go", "batch", "spend", "dead"}
Engines ==
  [at : EngineStates, waits : 0..MaxWaits, price : Nat, next : 1..(Batches + 1)]
Reserves == [eth : Nat, topped : Nat, spent : Nat]
Pasts == [topups : 0..MaxTopups, trouble : 0..MaxTrouble, crashes : 0..MaxCrashes,
          burned : Nat, lost : Nat]

TypeInv ==
  /\ readings \in Seq(Prices) /\ Len(readings) <= Window
  /\ reserve \in Reserves /\ funding \in 0..TargetEth
  /\ engine \in Engines
  /\ lastRun \in {"never", "recent", "ago"}
  /\ sent \in [BatchNumbers -> Nat] /\ refused \in SUBSET BatchNumbers
  /\ ghost \in Pasts

\* Where the engine can be: it has a price while it sends, it starts with the
\* first batch, and a run that is over leaves it asleep.
EngineInv ==
  /\ engine.at \in {"batch", "spend", "dead"} <=> engine.price > 0
  /\ engine.at \in {"sleep", "wait", "go"} => engine.next = 1
  /\ engine.at = "spend" => engine.next <= Batches
  /\ lastRun = "recent" => engine.at = "sleep"

\* A batch that is out was affordable when it was simulated, and still is.
BookingInv ==
  ghost.trouble = 0 =>
    /\ reserve.eth = reserve.topped + ghost.lost - ghost.burned
                       + (IF engine.at = "spend" THEN Actual ELSE 0)
    /\ engine.at = "spend" => Actual <= reserve.eth

\* This process has had its turn at batch b since the distribution was due.
Behind(b) ==
  \/ lastRun = "recent" \/ engine.at = "dead"
  \/ engine.at = "batch" /\ b < engine.next
  \/ engine.at = "spend" /\ b <= engine.next
SentInv ==
  \A b \in BatchNumbers : sent[b] <= ghost.crashes + (IF Behind(b) THEN 1 ELSE 0)

IInv == TypeInv /\ EngineInv /\ BookingInv /\ SentInv

----------------------------------------------------------------------------
\* What Max and Min give of two amounts.
LEMMA Extremes ==
  /\ \A a, b \in Nat : Min({a, b}) \in Nat /\ Min({a, b}) <= a /\ Min({a, b}) <= b
  /\ \A x \in Int : /\ Max({0, x}) \in Nat
                    /\ x >= 0 => Max({0, x}) = x
<1>1. \A a, b \in Nat : Min({a, b}) \in Nat /\ Min({a, b}) <= a /\ Min({a, b}) <= b
  BY LeastOfTwo
<1>2. ASSUME NEW x \in Int
      PROVE  Max({0, x}) \in Nat /\ (x >= 0 => Max({0, x}) = x)
  <2>1. IsFiniteSet({0, x})
    <3>1. IsFiniteSet({0})
      BY FS_Singleton
    <3>2. IsFiniteSet({0} \cup {x})
      BY <3>1, FS_AddElement
    <3>3. {0, x} = {0} \cup {x}
      OBVIOUS
    <3> QED BY <3>2, <3>3
  <2>2. {0, x} # {} /\ {0, x} \subseteq Int
    OBVIOUS
  <2>3. Max({0, x}) \in {0, x} /\ \A y \in {0, x} : y <= Max({0, x})
    BY <2>1, <2>2, MaxIsGreatest, Zenon
  <2> QED BY <2>3
<1> QED BY <1>1, <1>2

\* The constants, one by one.
LEMMA Bounds ==
  /\ Batches \in Nat \ {0} /\ BatchGas \in Nat /\ Window \in Nat \ {0}
  /\ TriggerEth \in Nat /\ TargetEth \in Nat /\ TriggerEth <= TargetEth
  /\ MaxWaits \in Nat /\ MaxTopups \in Nat /\ MaxTrouble \in Nat /\ MaxCrashes \in Nat
  /\ DefaultGwei \in Nat \ {0}
  /\ \A p \in Prices : p \in Nat \ {0}
  /\ \A a \in Amounts : a \in Nat \ {0}
BY GasAssumption

\* Changing one entry of a record of amounts.
LEMMA ReserveIs ==
  ASSUME NEW r \in Reserves, NEW x \in Nat, NEW y \in Nat
  PROVE  /\ [r EXCEPT !.eth = x, !.topped = y] \in Reserves
         /\ [r EXCEPT !.eth = x, !.topped = y].eth = x
         /\ [r EXCEPT !.eth = x, !.topped = y].topped = y
         /\ [r EXCEPT !.eth = x] \in Reserves
BY DEF Reserves

\* One more thing that has happened keeps count of the others.
LEMMA PastIs ==
  ASSUME NEW g \in Pasts
  PROVE  /\ g.topups < MaxTopups =>
              LET h == [g EXCEPT !.topups = @ + 1] IN
              /\ h \in Pasts /\ h.trouble = g.trouble /\ h.crashes = g.crashes
              /\ h.burned = g.burned /\ h.lost = g.lost
         /\ g.trouble < MaxTrouble =>
              LET h == [g EXCEPT !.trouble = @ + 1] IN
              h \in Pasts /\ h.trouble # 0 /\ h.crashes = g.crashes
         /\ \A x \in Nat :
              LET h == [g EXCEPT !.burned = @ + x] IN
              /\ h \in Pasts /\ h.trouble = g.trouble /\ h.crashes = g.crashes
              /\ h.burned = g.burned + x /\ h.lost = g.lost
         /\ \A x \in Nat : g.crashes < MaxCrashes =>
              LET h == [g EXCEPT !.crashes = @ + 1, !.lost = @ + x] IN
              /\ h \in Pasts /\ h.trouble = g.trouble /\ h.crashes = g.crashes + 1
              /\ h.burned = g.burned /\ h.lost = g.lost + x
<1>1. /\ g.topups \in 0..MaxTopups /\ g.trouble \in 0..MaxTrouble /\ g.crashes \in 0..MaxCrashes
      /\ g.burned \in Nat /\ g.lost \in Nat
  BY DEF Pasts
<1>2. g = [topups |-> g.topups, trouble |-> g.trouble, crashes |-> g.crashes,
           burned |-> g.burned, lost |-> g.lost]
  BY DEF Pasts
<1>3. ASSUME g.topups < MaxTopups
      PROVE  LET h == [g EXCEPT !.topups = @ + 1] IN
             /\ h \in Pasts /\ h.trouble = g.trouble /\ h.crashes = g.crashes
             /\ h.burned = g.burned /\ h.lost = g.lost
  <2>1. [g EXCEPT !.topups = @ + 1]
          = [topups |-> g.topups + 1, trouble |-> g.trouble, crashes |-> g.crashes,
             burned |-> g.burned, lost |-> g.lost]
    BY <1>2
  <2>2. g.topups + 1 \in 0..MaxTopups
    BY <1>1, <1>3, Bounds
  <2> QED BY <1>1, <2>1, <2>2 DEF Pasts
<1>4. ASSUME g.trouble < MaxTrouble
      PROVE  LET h == [g EXCEPT !.trouble = @ + 1] IN
             h \in Pasts /\ h.trouble # 0 /\ h.crashes = g.crashes
  <2>1. [g EXCEPT !.trouble = @ + 1]
          = [topups |-> g.topups, trouble |-> g.trouble + 1, crashes |-> g.crashes,
             burned |-> g.burned, lost |-> g.lost]
    BY <1>2
  <2>2. g.trouble + 1 \in 0..MaxTrouble /\ g.trouble + 1 # 0
    BY <1>1, <1>4, Bounds
  <2> QED BY <1>1, <2>1, <2>2 DEF Pasts
<1>5. ASSUME NEW x \in Nat
      PROVE  LET h == [g EXCEPT !.burned = @ + x] IN
             /\ h \in Pasts /\ h.trouble = g.trouble /\ h.crashes = g.crashes
             /\ h.burned = g.burned + x /\ h.lost = g.lost
  <2>1. [g EXCEPT !.burned = @ + x]
          = [topups |-> g.topups, trouble |-> g.trouble, crashes |-> g.crashes,
             burned |-> g.burned + x, lost |-> g.lost]
    BY <1>2
  <2> QED BY <1>1, <2>1 DEF Pasts
<1>6. ASSUME NEW x \in Nat, g.crashes < MaxCrashes
      PROVE  LET h == [g EXCEPT !.crashes = @ + 1, !.lost = @ + x] IN
             /\ h \in Pasts /\ h.trouble = g.trouble /\ h.crashes = g.crashes + 1
             /\ h.burned = g.burned /\ h.lost = g.lost + x
  <2>1. g.crashes + 1 \in 0..MaxCrashes /\ g.lost + x \in Nat
    BY <1>1, <1>6, Bounds
  <2> QED BY <2>1 DEF Pasts
<1> QED BY <1>3, <1>4, <1>5, <1>6

\* An engine that sleeps has no price and the first batch before it.
LEMMA AsleepIs ==
  Asleep \in Engines /\ Asleep.at = "sleep" /\ Asleep.price = 0 /\ Asleep.next = 1
BY Bounds DEF Asleep, Engines, EngineStates

\* An engine that goes on to another place.
LEMMA EngineIs ==
  ASSUME NEW e \in Engines, NEW at \in EngineStates
  PROVE  /\ LET f == [e EXCEPT !.at = at] IN
            f \in Engines /\ f.at = at /\ f.price = e.price /\ f.next = e.next
         /\ \A w \in 0..MaxWaits :
              LET f == [e EXCEPT !.waits = w] IN
              f \in Engines /\ f.at = e.at /\ f.price = e.price /\ f.next = e.next
         /\ e.next + 1 \in 1..(Batches + 1) =>
              LET f == [e EXCEPT !.at = at, !.next = @ + 1] IN
              f \in Engines /\ f.at = at /\ f.price = e.price /\ f.next = e.next + 1
         /\ e.next + 1 \in 1..(Batches + 1) =>
              LET f == [e EXCEPT !.next = @ + 1] IN
              f \in Engines /\ f.at = e.at /\ f.price = e.price /\ f.next = e.next + 1
BY DEF Engines

\* What a batch costs is not more than what was estimated, and both are amounts.
LEMMA Costs ==
  ASSUME engine.price \in Nat
  PROVE  Estimate \in Nat /\ Actual \in Nat /\ Actual <= Estimate
<1>1. Estimate \in Nat
  <2>1. \A a, b \in Nat : a * b \in Nat
    OBVIOUS
  <2> QED BY <2>1, Bounds DEF Estimate
<1> HIDE DEF Estimate
<1> QED BY <1>1 DEF Actual

\* The first of a day's readings and those before it are a day's readings.
LEMMA NewestFirst ==
  ASSUME NEW p \in Prices, NEW s \in Seq(Prices), NEW n \in Nat, n <= Len(s) + 1
  PROVE  SubSeq(<<p>> \o s, 1, n) \in Seq(Prices) /\ Len(SubSeq(<<p>> \o s, 1, n)) = n
<1> DEFINE t == <<p>> \o s
<1>1. t \in Seq(Prices) /\ Len(t) = Len(s) + 1
  OBVIOUS
<1>2. \A i \in 1..n : t[i] \in Prices
  <2>1. \A i \in 1..Len(t) : t[i] \in Prices
    BY <1>1
  <2> HIDE DEF t
  <2> QED BY <1>1, <2>1
<1> HIDE DEF t
<1>3. SubSeq(t, 1, n) \in Seq(Prices) /\ Len(SubSeq(t, 1, n)) = IF 1 <= n THEN n - 1 + 1 ELSE 0
  BY <1>2, SubSeqProperties
<1> QED BY <1>3 DEF t
----------------------------------------------------------------------------
\* The invariant holds in a new process with an empty reserve.
LEMMA InitIInv == Init => IInv
<1> SUFFICES ASSUME Init PROVE IInv
  OBVIOUS
<1>1. TypeInv
  <2>1. Asleep \in Engines
    BY AsleepIs
  <2> QED BY <2>1, Bounds DEF Init, TypeInv, BatchNumbers, Reserves, Pasts
<1>2. EngineInv /\ SentInv
  BY DEF Init, EngineInv, SentInv, Behind, Asleep, BatchNumbers
<1>3. BookingInv
  BY DEF Init, BookingInv, Asleep
<1> QED BY <1>1, <1>2, <1>3 DEF IInv

\* Prices and top-ups disturb neither the engine nor what it has sent: whatever
\* reaches the reserve while a batch is out only adds to it.
LEMMA FundingIInv ==
  ASSUME IInv,
         \/ \E p \in Prices : Poll(p)
         \/ \E a \in Amounts : ManualTopup(a) \/ Settlement(a) \/ Sync(a)
         \/ AutoTopup
  PROVE  IInv'
<1>1. CASE \E p \in Prices : Poll(p)
  <2>1. PICK p \in Prices : Poll(p)
    BY <1>1
  <2>2. readings' \in Seq(Prices) /\ Len(readings') <= Window
    <3> DEFINE n == Min({Window, Len(readings) + 1})
    <3>1. readings \in Seq(Prices) /\ Window \in Nat /\ Len(readings) + 1 \in Nat
      BY Bounds DEF IInv, TypeInv
    <3>2. n \in Nat /\ n <= Window /\ n <= Len(readings) + 1
      BY <3>1, Extremes
    <3>3. readings' = SubSeq(<<p>> \o readings, 1, n)
      BY <2>1 DEF Poll
    <3> HIDE DEF n
    <3>4. readings' \in Seq(Prices) /\ Len(readings') = n
      BY <3>1, <3>2, <3>3, NewestFirst
    <3> QED BY <3>2, <3>4
  <2>3. UNCHANGED <<reserve, funding, engine, lastRun, sent, refused, ghost>>
    BY <2>1 DEF Poll
  <2> QED BY <2>2, <2>3 DEF IInv, TypeInv, EngineInv, BookingInv, Actual, Estimate, SentInv, Behind
<1>2. ASSUME NEW amount \in Nat, reserve' = ToppedUp(amount), funding' \in 0..TargetEth,
             ghost' \in Pasts,
             /\ ghost'.trouble = ghost.trouble /\ ghost'.crashes = ghost.crashes
             /\ ghost'.burned = ghost.burned /\ ghost'.lost = ghost.lost,
             UNCHANGED <<readings, engine, lastRun, sent, refused>>
      PROVE  IInv'
  <2>1. /\ reserve' \in Reserves
        /\ reserve'.eth = reserve.eth + amount /\ reserve'.topped = reserve.topped + amount
    <3>1. reserve \in Reserves /\ reserve.eth + amount \in Nat /\ reserve.topped + amount \in Nat
      BY <1>2 DEF IInv, TypeInv, Reserves
    <3> QED BY <1>2, <3>1, ReserveIs DEF ToppedUp
  <2>2. TypeInv' /\ EngineInv' /\ SentInv'
    BY <1>2, <2>1 DEF IInv, TypeInv, EngineInv, SentInv, Behind
  <2>3. BookingInv'
    <3>1. Actual' = Actual
      BY <1>2 DEF Actual, Estimate
    <3>2. engine.price \in Nat
      BY DEF IInv, TypeInv, Engines
    <3>3. Actual \in Nat /\ reserve.eth \in Nat /\ reserve.topped \in Nat
            /\ ghost.lost \in Nat /\ ghost.burned \in Nat
      BY <3>2, Costs DEF IInv, TypeInv, Reserves, Pasts
    <3> QED BY <1>2, <2>1, <3>1, <3>3 DEF IInv, BookingInv
  <2> QED BY <2>2, <2>3 DEF IInv
<1>3. CASE \E a \in Amounts : ManualTopup(a)
  <2>1. PICK a \in Amounts : ManualTopup(a)
    BY <1>3
  <2>2. a \in Nat /\ ghost.topups < MaxTopups
    BY <2>1, Bounds DEF ManualTopup
  <2>3. /\ ghost' \in Pasts
        /\ ghost'.trouble = ghost.trouble /\ ghost'.crashes = ghost.crashes
        /\ ghost'.burned = ghost.burned /\ ghost'.lost = ghost.lost
    BY <2>1, <2>2, PastIs DEF ManualTopup, IInv, TypeInv
  <2> QED BY <1>2, <2>1, <2>2, <2>3 DEF ManualTopup, IInv, TypeInv
<1>4. CASE AutoTopup
  <2>1. funding \in Nat /\ 0 \in 0..TargetEth
    BY Bounds DEF IInv, TypeInv
  <2> QED BY <1>2, <1>4, <2>1 DEF AutoTopup, IInv, TypeInv
<1>5. CASE \E a \in Amounts : Settlement(a)
  <2>1. PICK a \in Amounts : Settlement(a)
    BY <1>5
  <2>2. funding' \in 0..TargetEth
    <3> DEFINE room == Max({0, TargetEth - reserve.eth})
    <3>1. TargetEth \in Nat /\ reserve.eth \in Nat /\ TargetEth - reserve.eth \in Int
      BY Bounds DEF IInv, TypeInv, Reserves
    <3>2. reserve.eth <= TriggerEth /\ TriggerEth <= TargetEth /\ TriggerEth \in Nat
      BY <2>1, Bounds DEF Settlement
    <3>3. room = TargetEth - reserve.eth /\ room \in Nat /\ room <= TargetEth
      BY <3>1, <3>2, Extremes
    <3>4. funding' = Min({a, room}) /\ a \in Nat
      BY <2>1, Bounds DEF Settlement
    <3> HIDE DEF room
    <3>5. funding' \in Nat /\ funding' <= room
      BY <3>3, <3>4, Extremes
    <3> QED BY <3>1, <3>3, <3>5
  <2>3. ghost.topups < MaxTopups
    BY <2>1 DEF Settlement
  <2>4. /\ ghost' \in Pasts
        /\ ghost'.trouble = ghost.trouble /\ ghost'.crashes = ghost.crashes
        /\ ghost'.burned = ghost.burned /\ ghost'.lost = ghost.lost
    BY <2>1, <2>3, PastIs DEF Settlement, IInv, TypeInv
  <2>5. UNCHANGED <<readings, reserve, engine, lastRun, sent, refused>>
    BY <2>1 DEF Settlement
  <2> QED BY <2>2, <2>4, <2>5
          DEF IInv, TypeInv, EngineInv, BookingInv, Actual, Estimate, SentInv, Behind
<1>6. CASE \E a \in Amounts : Sync(a)
  <2>1. PICK a \in Amounts : Sync(a)
    BY <1>6
  <2>2. a \in Nat /\ ghost.trouble < MaxTrouble
    BY <2>1, Bounds DEF Sync
  <2>3. /\ ghost' \in Pasts
        /\ ghost'.trouble # 0 /\ ghost'.crashes = ghost.crashes
    BY <2>1, <2>2, PastIs DEF Sync, IInv, TypeInv
  <2>4. /\ reserve' \in Reserves
        /\ UNCHANGED <<readings, funding, engine, lastRun, sent, refused>>
    BY <2>1, <2>2, ReserveIs DEF Sync, IInv, TypeInv
  <2> QED BY <2>3, <2>4 DEF IInv, TypeInv, EngineInv, BookingInv, SentInv, Behind
<1> QED BY <1>1, <1>3, <1>4, <1>5, <1>6

\* The engine wakes, waits and builds its batches: nothing is sent, and nothing
\* is behind it yet.
LEMMA WaitIInv == ASSUME IInv, Wake \/ Wait \/ Build PROVE IInv'
<1>1. /\ UNCHANGED <<readings, reserve, funding, lastRun, sent, refused, ghost>>
      /\ engine.at \in {"sleep", "wait", "go"} /\ lastRun # "recent"
  BY DEF Wake, Wait, Build, Due, IInv, EngineInv
<1>2. /\ engine' \in Engines /\ engine'.next = engine.next
      /\ \/ engine'.at \in {"wait", "go"} /\ engine'.price = engine.price
         \/ engine'.at = "batch" /\ engine'.price > 0
  <2>1. /\ engine \in Engines
        /\ "wait" \in EngineStates /\ "go" \in EngineStates /\ "batch" \in EngineStates
    BY DEF IInv, TypeInv, EngineStates
  <2>2. CASE Wake
    <3>1. engine' = [engine EXCEPT !.at = "wait"]
      BY <2>2 DEF Wake
    <3> QED BY <2>1, <3>1, EngineIs
  <2>3. CASE Wait
    <3>1. Min({engine.waits + 1, MaxWaits}) \in 0..MaxWaits
      <4>1. engine.waits + 1 \in Nat /\ MaxWaits \in Nat
        BY <2>1, Bounds DEF Engines
      <4>2. /\ Min({engine.waits + 1, MaxWaits}) \in Nat
            /\ Min({engine.waits + 1, MaxWaits}) <= MaxWaits
        BY <4>1, Extremes
      <4> QED BY <4>1, <4>2
    <3>2. engine.at = "wait"
      BY <2>3 DEF Wait
    <3>3. \/ engine' = [engine EXCEPT !.at = "go"]
          \/ engine' = [engine EXCEPT !.waits = Min({engine.waits + 1, MaxWaits})]
      BY <2>3 DEF Wait
    <3>4. CASE engine' = [engine EXCEPT !.at = "go"]
      BY <2>1, <3>4, EngineIs
    <3>5. CASE engine' = [engine EXCEPT !.waits = Min({engine.waits + 1, MaxWaits})]
      <4> DEFINE w == Min({engine.waits + 1, MaxWaits})
      <4> HIDE DEF w
      <4>1. engine' = [engine EXCEPT !.waits = w] /\ w \in 0..MaxWaits
        BY <3>1, <3>5 DEF w
      <4> QED BY <2>1, <3>2, <4>1, EngineIs
    <3> QED BY <3>3, <3>4, <3>5
  <2>4. CASE Build
    <3>1. CurrentGwei \in Nat /\ CurrentGwei > 0
      <4>1. readings # <<>> => Head(readings) \in Prices
        BY DEF IInv, TypeInv
      <4> QED BY <4>1, Bounds DEF CurrentGwei
    <3>2. engine' = [engine EXCEPT !.at = "batch", !.price = CurrentGwei]
      BY <2>4 DEF Build
    <3> HIDE DEF CurrentGwei
    <3>3. /\ engine' \in Engines /\ engine'.at = "batch" /\ engine'.price = CurrentGwei
          /\ engine'.next = engine.next
      BY <2>1, <3>1, <3>2 DEF Engines
    <3> QED BY <3>1, <3>3
  <2> QED BY <2>2, <2>3, <2>4
<1>3. engine.next = 1 /\ engine'.next = 1 /\ ~(engine.price > 0)
  BY <1>1, <1>2 DEF IInv, EngineInv
<1>4. TypeInv' /\ EngineInv'
  BY <1>1, <1>2, <1>3 DEF IInv, TypeInv, EngineInv
<1>5. BookingInv'
  BY <1>1, <1>2 DEF IInv, BookingInv
<1>6. SentInv'
  <2> SUFFICES ASSUME NEW b \in BatchNumbers
               PROVE  sent'[b] <= ghost'.crashes + (IF Behind(b)' THEN 1 ELSE 0)
    BY DEF SentInv
  <2>1. ~ Behind(b) /\ ~ Behind(b)'
    BY <1>1, <1>2, <1>3 DEF Behind, BatchNumbers
  <2> QED BY <1>1, <2>1 DEF IInv, SentInv
<1> QED BY <1>4, <1>5, <1>6 DEF IInv

\* A batch is broadcast: it is affordable, it was not sent in this run before,
\* and what it burns is what it will be booked with.
LEMMA BroadcastIInv == ASSUME IInv, Broadcast PROVE IInv'
<1>1. /\ engine.at = "batch" /\ engine.next <= Batches /\ Simulates
      /\ engine' = [engine EXCEPT !.at = "spend"]
      /\ sent' = [sent EXCEPT ![engine.next] = @ + 1]
      /\ ghost' = [ghost EXCEPT !.burned = @ + Actual]
      /\ UNCHANGED <<readings, reserve, funding, lastRun, refused>>
  BY DEF Broadcast
<1>2. /\ engine \in Engines /\ reserve \in Reserves /\ ghost \in Pasts
      /\ engine.price \in Nat /\ reserve.eth \in Nat /\ engine.next \in BatchNumbers
  BY <1>1, Bounds DEF IInv, TypeInv, Engines, Reserves, BatchNumbers
<1>3. engine' \in Engines /\ engine'.at = "spend" /\ engine'.price = engine.price
        /\ engine'.next = engine.next
  <2>1. "spend" \in EngineStates
    BY DEF EngineStates
  <2> QED BY <1>1, <1>2, <2>1, EngineIs
<1>4. Estimate \in Nat /\ Actual \in Nat /\ Actual <= Estimate
  BY <1>2, Costs
<1>5. /\ ghost' \in Pasts /\ ghost'.trouble = ghost.trouble /\ ghost'.crashes = ghost.crashes
      /\ ghost'.burned = ghost.burned + Actual /\ ghost'.lost = ghost.lost
  BY <1>1, <1>2, <1>4, PastIs
<1>6. Actual' = Actual
  BY <1>3 DEF Actual, Estimate
<1>7. Actual <= reserve.eth
  <2>1. 10 * reserve.eth >= 12 * Estimate
    BY <1>1 DEF Simulates, Affords
  <2> HIDE DEF Estimate, Actual
  <2> QED BY <1>2, <1>4, <2>1
<1>8. TypeInv' /\ EngineInv'
  BY <1>1, <1>2, <1>3, <1>5 DEF IInv, TypeInv, EngineInv
<1>9. BookingInv'
  <2>1. reserve.topped \in Nat /\ ghost.burned \in Nat /\ ghost.lost \in Nat
    BY <1>2 DEF Reserves, Pasts
  <2>2. UNCHANGED reserve
    BY <1>1
  <2> HIDE DEF Actual
  <2> QED BY <1>1, <1>2, <1>3, <1>4, <1>5, <1>6, <1>7, <2>1, <2>2 DEF IInv, BookingInv
<1>10. SentInv'
  <2> SUFFICES ASSUME NEW b \in BatchNumbers
               PROVE  sent'[b] <= ghost'.crashes + (IF Behind(b)' THEN 1 ELSE 0)
    BY DEF SentInv
  <2>1. sent[b] \in Nat /\ ghost.crashes \in Nat
    BY <1>2 DEF IInv, TypeInv, Pasts
  <2>2. sent[b] <= ghost.crashes + (IF Behind(b) THEN 1 ELSE 0)
    BY DEF IInv, SentInv
  <2>3. lastRun # "recent"
    BY <1>1 DEF IInv, EngineInv
  <2>4. CASE b = engine.next
    <3>1. ~ Behind(b) /\ Behind(b)'
      BY <1>1, <1>2, <1>3, <2>3, <2>4 DEF Behind, BatchNumbers
    <3>2. sent'[b] = sent[b] + 1
      BY <1>1, <2>4 DEF IInv, TypeInv
    <3> QED BY <1>5, <2>1, <2>2, <3>1, <3>2
  <2>5. CASE b # engine.next
    <3>1. Behind(b)' <=> Behind(b)
      BY <1>1, <1>2, <1>3, <2>3, <2>5 DEF Behind, BatchNumbers
    <3>2. sent'[b] = sent[b]
      BY <1>1, <2>5 DEF IInv, TypeInv
    <3> QED BY <1>5, <2>2, <3>1, <3>2
  <2> QED BY <2>4, <2>5
<1> QED BY <1>8, <1>9, <1>10 DEF IInv

\* A batch is booked, and nothing of it is cut off at zero; or it is refused.
\* Either way it is behind the engine then.
LEMMA NextBatchIInv == ASSUME IInv, Spend \/ Refuse PROVE IInv'
<1>1. /\ engine.at \in {"spend", "batch"} /\ engine.next <= Batches
      /\ \/ engine' = [engine EXCEPT !.at = "batch", !.next = @ + 1]
         \/ engine.at = "batch" /\ engine' = [engine EXCEPT !.next = @ + 1]
      /\ UNCHANGED <<readings, funding, lastRun, sent, ghost>>
  <2>1. CASE Spend
    BY <2>1 DEF Spend, IInv, EngineInv
  <2>2. CASE Refuse
    BY <2>2 DEF Refuse
  <2> QED BY <2>1, <2>2
<1>2. /\ engine \in Engines /\ reserve \in Reserves /\ ghost \in Pasts
      /\ engine.price \in Nat /\ reserve.eth \in Nat /\ reserve.spent \in Nat
      /\ engine.next \in BatchNumbers
  BY <1>1, Bounds DEF IInv, TypeInv, Engines, Reserves, BatchNumbers
<1>3. /\ engine' \in Engines /\ engine'.at = "batch" /\ engine'.price = engine.price
      /\ engine'.next = engine.next + 1
  <2>1. "batch" \in EngineStates /\ engine.next + 1 \in 1..(Batches + 1)
    BY <1>2, Bounds DEF EngineStates, BatchNumbers
  <2>2. CASE engine' = [engine EXCEPT !.at = "batch", !.next = @ + 1]
    BY <1>2, <2>1, <2>2, EngineIs
  <2>3. CASE engine.at = "batch" /\ engine' = [engine EXCEPT !.next = @ + 1]
    BY <1>2, <2>1, <2>3, EngineIs
  <2> QED BY <1>1, <2>2, <2>3
<1>4. lastRun # "recent"
  BY <1>1 DEF IInv, EngineInv
<1>5. Actual \in Nat
  BY <1>2, Costs
<1>6. EngineInv'
  BY <1>1, <1>3, <1>4 DEF IInv, EngineInv
<1>7. SentInv'
  <2> SUFFICES ASSUME NEW b \in BatchNumbers
               PROVE  sent'[b] <= ghost'.crashes + (IF Behind(b)' THEN 1 ELSE 0)
    BY DEF SentInv
  <2>1. Behind(b) => Behind(b)'
    BY <1>1, <1>2, <1>3, <1>4 DEF Behind, BatchNumbers
  <2>2. sent[b] <= ghost.crashes + (IF Behind(b) THEN 1 ELSE 0)
    BY DEF IInv, SentInv
  <2>3. sent[b] \in Nat /\ ghost.crashes \in Nat
    BY <1>2 DEF IInv, TypeInv, Pasts
  <2> QED BY <1>1, <2>1, <2>2, <2>3
<1>8. CASE Refuse
  <2>1. UNCHANGED <<reserve>> /\ refused' = refused \cup {engine.next} /\ engine.at = "batch"
    BY <1>8 DEF Refuse
  <2>2. TypeInv'
    BY <1>1, <1>2, <1>3, <2>1 DEF IInv, TypeInv
  <2>3. BookingInv'
    BY <1>1, <1>3, <2>1 DEF IInv, BookingInv
  <2> QED BY <1>6, <1>7, <2>2, <2>3 DEF IInv
<1>9. CASE Spend
  <2>1. reserve' = Spent(Actual) /\ UNCHANGED refused /\ engine.at = "spend"
    BY <1>9 DEF Spend
  <2> HIDE DEF Actual
  <2>2. Max({0, reserve.eth - Actual}) \in Nat
          /\ (Actual <= reserve.eth => Max({0, reserve.eth - Actual}) = reserve.eth - Actual)
    <3>1. reserve.eth - Actual \in Int /\ (Actual <= reserve.eth => reserve.eth - Actual >= 0)
      BY <1>2, <1>5
    <3> QED BY <3>1, Extremes
  <2>3. /\ reserve' \in Reserves /\ reserve'.topped = reserve.topped
        /\ reserve'.eth = Max({0, reserve.eth - Actual})
    <3>1. reserve.spent + Actual \in Nat
      BY <1>2, <1>5
    <3> DEFINE left == Max({0, reserve.eth - Actual})
    <3>2. reserve' = [reserve EXCEPT !.eth = left, !.spent = reserve.spent + Actual]
      BY <2>1 DEF Spent
    <3>3. left \in Nat
      BY <2>2
    <3> HIDE DEF left
    <3>4. /\ reserve' \in Reserves /\ reserve'.topped = reserve.topped
          /\ reserve'.eth = left
      BY <1>2, <3>1, <3>2, <3>3 DEF Reserves
    <3> QED BY <3>4 DEF left
  <2>4. TypeInv'
    BY <1>1, <1>2, <1>3, <2>1, <2>3 DEF IInv, TypeInv
  <2>5. BookingInv'
    <3>1. reserve.topped \in Nat /\ ghost.burned \in Nat /\ ghost.lost \in Nat
      BY <1>2 DEF Reserves, Pasts
    <3>2. ghost' = ghost
      BY <1>1
    <3> QED BY <1>2, <1>3, <1>5, <2>1, <2>2, <2>3, <3>1, <3>2 DEF IInv, BookingInv
  <2> QED BY <1>6, <1>7, <2>4, <2>5 DEF IInv
<1> QED BY <1>8, <1>9

\* The run is over, for good or because of the reserve, or its thread dies.
LEMMA RunEndsIInv == ASSUME IInv, Skip \/ Record \/ Die PROVE IInv'
<1>1. /\ engine.at \in {"go", "batch"}
      /\ UNCHANGED <<readings, reserve, funding, sent>> /\ refused' \in SUBSET BatchNumbers
  BY DEF Skip, Record, Die, IInv, TypeInv
<1>2. CASE Skip \/ Record
  <2>1. engine' = Asleep /\ lastRun' = "recent" /\ ghost' = ghost
    BY <1>2 DEF Skip, Record, Ran
  <2>2. TypeInv' /\ EngineInv'
    BY <1>1, <2>1, AsleepIs DEF IInv, TypeInv, EngineInv
  <2>3. BookingInv'
    BY <1>1, <2>1, AsleepIs DEF IInv, BookingInv
  <2>4. SentInv'
    <3> SUFFICES ASSUME NEW b \in BatchNumbers
                 PROVE  sent'[b] <= ghost'.crashes + (IF Behind(b)' THEN 1 ELSE 0)
      BY DEF SentInv
    <3>1. Behind(b)'
      BY <2>1 DEF Behind
    <3>2. sent[b] \in Nat /\ ghost.crashes \in Nat
      BY DEF IInv, TypeInv, Pasts
    <3> QED BY <1>1, <2>1, <3>1, <3>2 DEF IInv, SentInv
  <2> QED BY <2>2, <2>3, <2>4 DEF IInv
<1>3. CASE Die
  <2>1. /\ engine' = [engine EXCEPT !.at = "dead"] /\ engine.at = "batch"
        /\ ghost.trouble < MaxTrouble /\ ghost' = [ghost EXCEPT !.trouble = @ + 1]
        /\ UNCHANGED <<lastRun, refused>>
    BY <1>3 DEF Die
  <2>2. engine' \in Engines /\ engine'.at = "dead" /\ engine'.price = engine.price
    BY <2>1, EngineIs DEF IInv, TypeInv, EngineStates
  <2>3. ghost' \in Pasts /\ ghost'.trouble # 0 /\ ghost'.crashes = ghost.crashes
    BY <2>1, PastIs DEF IInv, TypeInv
  <2>4. TypeInv' /\ EngineInv' /\ BookingInv'
    BY <1>1, <2>1, <2>2, <2>3 DEF IInv, TypeInv, EngineInv, BookingInv
  <2>5. SentInv'
    <3> SUFFICES ASSUME NEW b \in BatchNumbers
                 PROVE  sent'[b] <= ghost'.crashes + (IF Behind(b)' THEN 1 ELSE 0)
      BY DEF SentInv
    <3>1. Behind(b)'
      BY <2>2 DEF Behind
    <3>2. sent[b] \in Nat /\ ghost.crashes \in Nat
      BY DEF IInv, TypeInv, Pasts
    <3> QED BY <1>1, <2>3, <3>1, <3>2 DEF IInv, SentInv
  <2> QED BY <2>4, <2>5 DEF IInv
<1> QED BY <1>2, <1>3

\* Two weeks pass.
LEMMA ElapseIInv == ASSUME IInv, Elapse PROVE IInv'
<1>1. /\ lastRun' = "ago" /\ engine.at = "sleep"
      /\ sent' = [b \in BatchNumbers |-> 0] /\ refused' = {}
      /\ UNCHANGED <<readings, reserve, funding, engine, ghost>>
  BY DEF Elapse
<1>2. TypeInv' /\ EngineInv'
  BY <1>1 DEF IInv, TypeInv, EngineInv
<1>3. BookingInv'
  BY <1>1 DEF IInv, BookingInv
<1>4. SentInv'
  <2>1. ghost'.crashes \in Nat
    BY <1>1 DEF IInv, TypeInv, Pasts
  <2> QED BY <1>1, <2>1 DEF SentInv
<1> QED BY <1>2, <1>3, <1>4 DEF IInv

\* The next process may send every batch again, and never books what was out.
LEMMA CrashIInv == ASSUME IInv, Crash PROVE IInv'
<1> DEFINE x == IF engine.at = "spend" THEN Actual ELSE 0
<1>1. /\ ghost.crashes < MaxCrashes /\ engine' = Asleep /\ lastRun' = "never" /\ funding' = 0
      /\ ghost' = [ghost EXCEPT !.crashes = @ + 1, !.lost = @ + x]
      /\ UNCHANGED <<readings, reserve, sent, refused>>
  BY DEF Crash
<1>2. engine.price \in Nat /\ ghost \in Pasts /\ reserve \in Reserves
  BY DEF IInv, TypeInv, Engines
<1>3. x \in Nat
  BY <1>2, Costs
<1>4. /\ ghost' \in Pasts /\ ghost'.trouble = ghost.trouble /\ ghost'.crashes = ghost.crashes + 1
      /\ ghost'.burned = ghost.burned /\ ghost'.lost = ghost.lost + x
  <2> HIDE DEF x
  <2> QED BY <1>1, <1>2, <1>3, PastIs
<1>5. TypeInv' /\ EngineInv'
  BY <1>1, <1>4, AsleepIs, Bounds DEF IInv, TypeInv, EngineInv
<1>6. BookingInv'
  <2>1. ghost.trouble = 0 =>
          reserve.eth = reserve.topped + ghost.lost - ghost.burned + x
    BY DEF IInv, BookingInv
  <2>2. reserve.topped \in Nat /\ ghost.burned \in Nat /\ ghost.lost \in Nat
    BY <1>2 DEF Reserves, Pasts
  <2>3. engine'.at = "sleep" /\ reserve' = reserve
    BY <1>1, AsleepIs
  <2> HIDE DEF x
  <2> QED BY <1>3, <1>4, <2>1, <2>2, <2>3 DEF BookingInv
<1>7. SentInv'
  <2> SUFFICES ASSUME NEW b \in BatchNumbers
               PROVE  sent'[b] <= ghost'.crashes + (IF Behind(b)' THEN 1 ELSE 0)
    BY DEF SentInv
  <2>1. sent[b] <= ghost.crashes + (IF Behind(b) THEN 1 ELSE 0)
    BY DEF IInv, SentInv
  <2>2. sent[b] \in Nat /\ ghost.crashes \in Nat
    BY <1>2 DEF IInv, TypeInv, Pasts
  <2> QED BY <1>1, <1>4, <2>1, <2>2
<1> QED BY <1>5, <1>6, <1>7 DEF IInv
----------------------------------------------------------------------------
\* The invariant holds at first, and every step keeps it.
THEOREM Inductive == Spec => []IInv
<1>1. IInv /\ [Next]_vars => IInv'
  <2> SUFFICES ASSUME IInv, [Next]_vars PROVE IInv'
    OBVIOUS
  <2>1. CASE UNCHANGED vars
    BY <2>1 DEF vars, IInv, TypeInv, EngineInv, BookingInv, Actual, Estimate, SentInv, Behind
  <2> QED BY <2>1, FundingIInv, WaitIInv, BroadcastIInv, NextBatchIInv, RunEndsIInv, ElapseIInv,
             CrashIInv DEF Next, Distribute
<1> QED BY <1>1, InitIInv, PTL DEF Spec

\* The reserve is never negative, although the balance may be corrected while
\* a batch is out, and only an engine that has a price is sending batches.
THEOREM TypeCorrect == Spec => []TypeOK
<1>1. IInv => TypeOK
  <2> SUFFICES ASSUME IInv PROVE TypeOK
    OBVIOUS
  <2>1. readings \in BoundedSeq(Prices, Window)
    <3>1. readings \in [1..Len(readings) -> Prices] /\ Len(readings) \in 0..Window
      BY Bounds DEF IInv, TypeInv
    <3> QED BY <3>1 DEF BoundedSeq, SeqOf
  <2>2. /\ engine.at \in EngineStates /\ engine.waits \in 0..MaxWaits
        /\ engine.next \in 1..(Batches + 1)
    BY DEF IInv, TypeInv, Engines
  <2>3. /\ ghost.topups \in 0..MaxTopups /\ ghost.trouble \in 0..MaxTrouble
        /\ ghost.crashes \in 0..MaxCrashes /\ ghost.burned \in Nat /\ ghost.lost \in Nat
    BY DEF IInv, TypeInv, Pasts
  <2> QED BY <2>1, <2>2, <2>3 DEF IInv, TypeInv, EngineInv, EngineStates, Reserves, TypeOK
<1> QED BY <1>1, Inductive, PTL

\* What the reserve believes to hold is what was put in less what was burned,
\* but for corrections, the batch that is out and bookings lost in a crash.
THEOREM ReserveIsWallet == Spec => []ReserveMatchesWallet
<1>1. IInv => ReserveMatchesWallet
  BY DEF IInv, BookingInv, ReserveMatchesWallet
<1> QED BY <1>1, Inductive, PTL

\* However many batches and prices there are, in two weeks a batch is paid once,
\* and once more for every restart.
THEOREM PaidOncePerPeriod == Spec => []SentOncePerPeriod
<1>1. IInv => SentOncePerPeriod
  <2> SUFFICES ASSUME IInv, NEW b \in BatchNumbers PROVE sent[b] <= 1 + ghost.crashes
    BY DEF SentOncePerPeriod
  <2>1. sent[b] \in Nat /\ ghost.crashes \in Nat
    BY DEF IInv, TypeInv, Pasts
  <2> QED BY <2>1 DEF IInv, SentInv
<1> QED BY <1>1, Inductive, PTL
============================================================================
