SPECIFICATION Spec
CONSTANTS
  m1 = m1
  m2 = m2
  Machines = {m1, m2}
  Slaves = {1}
  MaxMsgCoro = 2
  RqDepth = 7
  MinRecvSlack = 2
  Batches <- SomeBatches
  MaxBatches <- BothSend
  MaxLost = 0
CHECK_DEADLOCK FALSE
INVARIANTS
  TypeOK
  RecvsSuffice
