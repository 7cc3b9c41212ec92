SPECIFICATION FairSpec
CONSTANTS
  Batches = 2
  BatchGas = 20
  CriticalEth = 40
  TriggerEth = 60
  TargetEth = 150
  MaxGwei = 5
  MaxMultiplier = 1
  DefaultGwei = 1
  MaxWaits = 1
  Prices = {1, 3, 7}
  Amounts = {100}
  Window = 2
  MaxTopups = 2
  MaxTrouble = 1
  MaxCrashes = 1
INVARIANTS ReserveMatchesWallet SentOncePerPeriod
PROPERTIES DueIsDecided
CHECK_DEADLOCK FALSE
