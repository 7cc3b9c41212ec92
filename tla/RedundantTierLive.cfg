SPECIFICATION FairSpec
CONSTANTS
  Jobs = {j1}
  Miners = {m1, m2, m3}
  Hashes = {a, b}
  NoHash = none
  NoJob = nojob
  NoMiner = nominer
  RosterSize = 3
  MaxSaves = 1
  MaxCrashes = 1
  MaxRegistrations = 0
PROPERTIES RosterSettles WinnersPaid FatesSpec
CHECK_DEADLOCK FALSE
