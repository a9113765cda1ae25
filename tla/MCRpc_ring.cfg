SPECIFICATION FairSpec
CONSTANTS
  m1 = m1
  m2 = m2
  Machines = {m1, m2}
  Slaves = {1, 2}
  MaxMsgCoro = 2
  RqDepth = 11
  MinRecvSlack = 2
  Batches <- TwoBatches
  MaxBatches <- OneSends
  MaxLost = 1
CHECK_DEADLOCK FALSE
INVARIANTS
  RingOfCompleteBatches
PROPERTY
  BatchesComplete
