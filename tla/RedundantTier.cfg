SPECIFICATION Spec
CONSTANTS
  Jobs = {j1, j2}
  Miners = {m1, m2, m3}
  Hashes = {a, b}
  NoHash = none
  NoJob = nojob
  NoMiner = nominer
  RosterSize = 3
  MaxSaves = 0
  MaxCrashes = 0
  MaxRegistrations = 1
INVARIANTS EarnedOnce CreditCorroborated  VerdictCurrent UnservedIsRefunded
PROPERTY VerdictFinal
CHECK_DEADLOCK FALSE
SYMMETRY Symmetry
