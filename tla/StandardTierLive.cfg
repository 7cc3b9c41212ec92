SPECIFICATION FairSpec
CONSTANTS
  Jobs = {j1}
  Miners = {m1}
  Challenges = {c1, c2}
  NoJob = nojob
  NoMiner = nominer
  NoChallenge = nochal
  MaxSaves = 1
  MaxCrashes = 1
  MaxRegistrations = 0
PROPERTIES ChallengesSettle PassesPaid FatesSpec
CHECK_DEADLOCK FALSE
