SPECIFICATION Spec
CONSTANTS
  Genesis = Genesis
  Nil = Nil
  Blocks = {b1, b2}
  Txs = {t1, t2}
  NodeCoin = NodeCoin
  UserCoin = UserCoin
  Accounts = {a1}
  MaxSaves = 1
  MaxCrashes = 1
SYMMETRY Symmetry
INVARIANTS TypeOK    ClaimedOncePerLife
CHECK_DEADLOCK FALSE
