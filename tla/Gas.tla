-------------------------------- MODULE Gas --------------------------------
(***************************************************************************)
(* payments/gas_manager.py: the ETH that pays for distributions, the gas   *)
(* price they wait for, and the engine that distributes every two weeks.   *)
(*                                                                         *)
(* Four threads: the oracle polls the price, settlements and the owner top *)
(* the reserve up, the engine waits for its time and a good price, splits  *)
(* the recipients into batches and broadcasts them one after the other.    *)
(*                                                                         *)
(* A batch is a number; the engine sends them in this order.  The price's  *)
(* 24 hours are its last Window readings.  The engine's clock is: whether  *)
(* it has run since it started, and whether two weeks have passed since.   *)
(* The recipients come from a contract, of which the code has a stub that  *)
(* returns nobody.                                                         *)
(***************************************************************************)
EXTENDS Integers, Sequences, FiniteSetsExt, SequencesExt

CONSTANTS
  Batches,                      \* how many batches a distribution has
  BatchGas,                     \* gas of one batch, at a price of 1
  CriticalEth, TriggerEth, TargetEth,
  MaxGwei, MaxMultiplier,       \* MAX_GAS_GWEI, MAX_GAS_MULTIPLIER
  DefaultGwei,                  \* the price as long as nothing was read
  MaxWaits,                     \* MAX_DISTRIBUTION_DELAY_SEC, in waits of 15 minutes
  Prices, Amounts, Window,      \* bounds: prices, top-ups, readings of a day
  MaxTopups, MaxTrouble, MaxCrashes  \* bounds

ASSUME GasAssumption ==
  /\ {Batches, BatchGas, Window} \subseteq Nat \ {0}
  /\ {CriticalEth, TriggerEth, TargetEth} \subseteq Nat
  /\ CriticalEth <= TriggerEth /\ TriggerEth <= TargetEth
  /\ {MaxGwei, MaxMultiplier, DefaultGwei} \subseteq Nat \ {0}
  /\ Prices \subseteq Nat \ {0} /\ Amounts \subseteq Nat \ {0}
  /\ {MaxWaits, MaxTopups, MaxTrouble, MaxCrashes} \subseteq Nat

VARIABLES
  readings,  \* _history, the newest first
  reserve,   \* GasReserveState, in memory and, after every change, in gas.db
  funding,   \* what a settlement is about to top the reserve up with
  engine,    \* the engine's thread
  lastRun,   \* _last_run: "never" in this process, "recent", or two weeks "ago"
  sent,      \* how often each batch was broadcast in the last two weeks
  refused,   \* the batches that failed since the distribution was due
  ghost      \* bounds, and what the properties need to know of the past

vars == <<readings, reserve, funding, engine, lastRun, sent, refused, ghost>>

BatchNumbers == 1..Batches
Asleep == [at |-> "sleep", waits |-> 0, price |-> 0, next |-> 1]
----------------------------------------------------------------------------
(* GasPriceOracle *)
Poll(p) ==
  /\ readings' = SubSeq(<<p>> \o readings, 1, Min({Window, Len(readings) + 1}))
  /\ UNCHANGED <<reserve, funding, engine, lastRun, sent, refused, ghost>>

CurrentGwei == IF readings = <<>> THEN DefaultGwei ELSE Head(readings)

ShouldProceed ==
  /\ CurrentGwei <= MaxGwei
  /\ readings # <<>> =>
       CurrentGwei * Len(readings) <= MaxMultiplier * FoldSeq(+, 0, readings)
----------------------------------------------------------------------------
(* GasReserveManager *)
CanDistribute == reserve.eth > CriticalEth

\* record_topup and record_spend; a spend stops at zero
ToppedUp(amount) == [reserve EXCEPT !.eth = @ + amount, !.topped = @ + amount]
Spent(amount) == [reserve EXCEPT !.eth = Max({0, @ - amount}), !.spent = @ + amount]

ManualTopup(amount) ==
  /\ ghost.topups < MaxTopups
  /\ reserve' = ToppedUp(amount)
  /\ ghost' = [ghost EXCEPT !.topups = @ + 1]
  /\ UNCHANGED <<readings, funding, engine, lastRun, sent, refused>>

\* on_settlement: the amount is worked out on a balance read without the lock,
\* and booked afterwards
Settlement(amount) ==
  /\ funding = 0 /\ ghost.topups < MaxTopups
  /\ reserve.eth <= TriggerEth
  /\ funding' = Min({amount, Max({0, TargetEth - reserve.eth})})
  /\ ghost' = [ghost EXCEPT !.topups = @ + 1]
  /\ UNCHANGED <<readings, reserve, engine, lastRun, sent, refused>>

AutoTopup ==
  /\ funding > 0
  /\ reserve' = ToppedUp(funding)
  /\ funding' = 0
  /\ UNCHANGED <<readings, engine, lastRun, sent, refused, ghost>>

\* sync_balance: whatever the wallet really holds
Sync(actual) ==
  /\ ghost.trouble < MaxTrouble
  /\ reserve' = [reserve EXCEPT !.eth = actual]
  /\ ghost' = [ghost EXCEPT !.trouble = @ + 1]
  /\ UNCHANGED <<readings, funding, engine, lastRun, sent, refused>>
----------------------------------------------------------------------------
(* DistributionEngine and MulticallBatcher *)

\* two weeks after the last run, for an engine that does not wait or send
Elapse ==
  /\ lastRun = "recent" /\ engine.at = "sleep"
  /\ lastRun' = "ago"
  /\ sent' = [b \in BatchNumbers |-> 0] /\ refused' = {}
  /\ UNCHANGED <<readings, reserve, funding, engine, ghost>>

Due == lastRun # "recent"

Wake ==
  /\ engine.at = "sleep" /\ Due
  /\ engine' = [engine EXCEPT !.at = "wait"]
  /\ UNCHANGED <<readings, reserve, funding, lastRun, sent, refused, ghost>>

\* _run_with_gas_wait: good conditions end the wait, and so does the deadline
WaitOverNever == FALSE
WaitOver == engine.waits = MaxWaits

Wait ==
  /\ engine.at = "wait"
  /\ \/ /\ WaitOver \/ (ShouldProceed /\ CanDistribute)
        /\ engine' = [engine EXCEPT !.at = "go"]
     \/ /\ ~WaitOver /\ ~(ShouldProceed /\ CanDistribute)
        /\ engine' = [engine EXCEPT !.waits = Min({@ + 1, MaxWaits})]
  /\ UNCHANGED <<readings, reserve, funding, lastRun, sent, refused, ghost>>

\* the run counts as done whatever came of it
RanForgets == "never"
Ran == "recent"

Skip ==
  /\ engine.at = "go" /\ ~CanDistribute
  /\ engine' = Asleep /\ lastRun' = Ran
  /\ refused' = BatchNumbers
  /\ UNCHANGED <<readings, reserve, funding, sent, ghost>>

\* build_batches: the price of now holds for every batch
Build ==
  /\ engine.at = "go" /\ CanDistribute
  /\ engine' = [engine EXCEPT !.at = "batch", !.price = CurrentGwei]
  /\ UNCHANGED <<readings, reserve, funding, lastRun, sent, refused, ghost>>

Estimate == BatchGas * engine.price
Actual == (95 * Estimate) \div 100

\* simulate
AffordsAny == CanDistribute
Affords == CanDistribute /\ 10 * reserve.eth >= 12 * Estimate
Simulates == Affords /\ ShouldProceed

Broadcast ==
  /\ engine.at = "batch" /\ engine.next <= Batches
  /\ Simulates
  /\ engine' = [engine EXCEPT !.at = "spend"]
  /\ sent' = [sent EXCEPT ![engine.next] = @ + 1]
  /\ ghost' = [ghost EXCEPT !.burned = @ + Actual]
  /\ UNCHANGED <<readings, reserve, funding, lastRun, refused>>

Spend ==
  /\ engine.at = "spend"
  /\ reserve' = Spent(Actual)
  /\ engine' = [engine EXCEPT !.at = "batch", !.next = @ + 1]
  /\ UNCHANGED <<readings, funding, lastRun, sent, refused, ghost>>

\* a batch that fails is logged and not tried again
Refuse ==
  /\ engine.at = "batch" /\ engine.next <= Batches
  /\ ~Simulates
  /\ engine' = [engine EXCEPT !.next = @ + 1]
  /\ refused' = refused \cup {engine.next}
  /\ UNCHANGED <<readings, reserve, funding, lastRun, sent, ghost>>

\* the run is recorded as completed, with whatever batches failed
Record ==
  /\ engine.at = "batch" /\ engine.next > Batches
  /\ engine' = Asleep /\ lastRun' = Ran
  /\ UNCHANGED <<readings, reserve, funding, sent, refused, ghost>>

\* a write to gas.db that fails ends the engine's thread
Die ==
  /\ engine.at = "batch" /\ engine.next > Batches
  /\ ghost.trouble < MaxTrouble
  /\ engine' = [engine EXCEPT !.at = "dead"]
  /\ ghost' = [ghost EXCEPT !.trouble = @ + 1]
  /\ UNCHANGED <<readings, reserve, funding, lastRun, sent, refused>>

\* the next process knows the prices and the reserve, not when it last ran
Crash ==
  /\ ghost.crashes < MaxCrashes
  /\ engine' = Asleep /\ lastRun' = "never" /\ funding' = 0
  /\ ghost' = [ghost EXCEPT !.crashes = @ + 1,
                 !.lost = @ + (IF engine.at = "spend" THEN Actual ELSE 0)]
  /\ UNCHANGED <<readings, reserve, sent, refused>>
----------------------------------------------------------------------------
Init ==
  /\ readings = <<>>
  /\ reserve = [eth |-> 0, topped |-> 0, spent |-> 0]
  /\ funding = 0
  /\ engine = Asleep /\ lastRun = "never"
  /\ sent = [b \in BatchNumbers |-> 0] /\ refused = {}
  /\ ghost = [topups |-> 0, trouble |-> 0, crashes |-> 0, burned |-> 0, lost |-> 0]

Distribute ==
  Wake \/ Wait \/ Skip \/ Build \/ Broadcast \/ Spend \/ Refuse \/ Record

Next ==
  \/ Distribute \/ Elapse \/ Die \/ Crash \/ AutoTopup
  \/ \E p \in Prices : Poll(p)
  \/ \E a \in Amounts : ManualTopup(a) \/ Settlement(a) \/ Sync(a)

Spec == Init /\ [][Next]_vars

\* the engine's loop runs for ever, unless a write fails
FairSpec == Spec /\ WF_vars(Distribute)
----------------------------------------------------------------------------
(***************************************************************************)
(* Properties                                                              *)
(***************************************************************************)
\* The reserve is never negative, although the balance may be corrected while
\* a batch is out, and only an engine that has a price is sending batches.
TypeOK ==
  /\ readings \in BoundedSeq(Prices, Window)
  /\ reserve \in [eth: Nat, topped: Nat, spent: Nat] /\ funding \in 0..TargetEth
  /\ engine.at \in {"sleep", "wait", "go", "batch", "spend", "dead"}
  /\ engine.waits \in 0..MaxWaits /\ engine.next \in 1..(Batches + 1)
  /\ engine.at \in {"batch", "spend", "dead"} <=> engine.price > 0
  /\ lastRun \in {"never", "recent", "ago"}
  /\ sent \in [BatchNumbers -> Nat] /\ refused \subseteq BatchNumbers
  /\ ghost.topups \in 0..MaxTopups /\ ghost.trouble \in 0..MaxTrouble
  /\ ghost.crashes \in 0..MaxCrashes /\ {ghost.burned, ghost.lost} \subseteq Nat

\* What the reserve believes to hold is what was put in less what the broadcast
\* batches burned, until somebody corrects it: settlements and the owner add to
\* it between a batch's simulation and its booking, and only a crash in
\* between loses a booking.
ReserveMatchesWallet ==
  ghost.trouble = 0 =>
    reserve.eth = reserve.topped + ghost.lost - ghost.burned
                    + (IF engine.at = "spend" THEN Actual ELSE 0)

\* In two weeks a batch of recipients is paid once, and once more for every
\* restart: when the engine last ran is not saved.
SentOncePerPeriod == \A b \in BatchNumbers : sent[b] <= 1 + ghost.crashes

\* A distribution that is due is not put off for ever, whatever gas prices do:
\* every batch is broadcast or refused, unless the engine's thread died.
DueIsDecided ==
  Due ~> engine.at = "dead" \/ \A b \in BatchNumbers : sent[b] > 0 \/ b \in refused
============================================================================
