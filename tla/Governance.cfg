SPECIFICATION Spec
CONSTANTS
  Proposals = {p1}
  Nil = Nil
  v1 = v1
  v2 = v2
  v3 = v3
  Voters = {v1, v2, v3}
  Weight <- MCWeight
  Callers = {c1, c2}
  Supply = 8
INVARIANTS TypeOK TallyFollowsBallots 
SYMMETRY Symmetry
CHECK_DEADLOCK FALSE
