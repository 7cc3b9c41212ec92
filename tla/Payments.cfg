SPECIFICATION FairSpec
CONSTANTS
  d1 = d1
  d2 = d2
  d3 = d3
  x1 = x1
  x2 = x2
  dev1 = dev1
  dev2 = dev2
  j1 = j1
  j2 = j2
  Nil = Nil
  Transfers = {d1, d2, d3}
  TxOf <- MCTxOf
  Accounts = {dev1, dev2}
  Founders = {dev1}
  ToAccount <- MCToAccount
  Jobs = {j1, j2}
  OwnerOf <- MCOwnerOf
  MaxRange = 1
  MinSettle = 1
  MaxTrouble = 1
  MaxCrashes = 1
INVARIANTS TypeOK CreditedOncePerLife Solvency SettledWasPaid
PROPERTIES DepositsCredited
CHECK_DEADLOCK FALSE
