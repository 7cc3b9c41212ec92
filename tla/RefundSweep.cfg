SPECIFICATION FairRefundsSpec
CONSTANTS
  Jobs = {j1, j2}
  NoJob = nojob
  MaxSaves = 1
  MaxCrashes = 1
  MaxFailures = 1
INVARIANTS SettledWasCredited CreditedOncePerLife
PROPERTY FaultsRefunded
CHECK_DEADLOCK FALSE
