SPECIFICATION Spec
CONSTANTS
  Jobs = {j1}
  Miners = {m1}
  Challenges = {c1}
  NoJob = nojob
  NoMiner = nominer
  NoChallenge = nochal
  MaxSaves = 0
  MaxCrashes = 0
  MaxRegistrations = 0
INVARIANT PaidOnce
CHECK_DEADLOCK FALSE
