SPECIFICATION Spec
CONSTANTS
  n1 = n1
  n2 = n2
  n3 = n3
  b1 = b1
  b2 = b2
  t1 = t1
  Nil = Nil
  Nodes = {n1,n2,n3}
  Blocks = {b1}
  Txs = {t1}
  Seeds <- Star
  Makers = {n2, n3}
  Faulty = {n3}
  Cap = 1
  MaxFaults = 1
INVARIANTS TypeOK  NeverStuck
PROPERTIES ReplicationSpec
CHECK_DEADLOCK FALSE
