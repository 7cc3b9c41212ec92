SPECIFICATION Spec
CONSTANTS
  Jobs = {j1, j2}
  Miners = {m1, m2}
  Challenges = {c1, c2}
  NoJob = nojob
  NoMiner = nominer
  NoChallenge = nochal
  MaxSaves = 0
  MaxCrashes = 0
  MaxRegistrations = 1
INVARIANTS TypeOK OffencesMatchVerdicts PaidPerAcceptance FailureRefunded
PROPERTY DecidedOnce
SYMMETRY Symmetry
CHECK_DEADLOCK FALSE
