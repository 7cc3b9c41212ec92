SPECIFICATION FairSpec
CONSTANTS
  n1 = n1
  n2 = n2
  n3 = n3
  b1 = b1
  b2 = b2
  t1 = t1
  Nil = Nil
  Nodes = {n1, n2}
  Blocks = {b1, b2}
  Txs = {}
  Seeds <- Line
  Makers = {n1}
  Faulty = {}
  Cap = 2
  MaxFaults = 0
PROPERTY SyncsOnConnect
CHECK_DEADLOCK FALSE
