SPECIFICATION HSpec
CONSTANTS
  c1 = c1
  c2 = c2
  k1 = k1
  k2 = k2
  k3 = k3
  b1 = b1
  b2 = b2
  Coros = {c1, c2}
  Keys = {k1, k2, k3}
  Buckets = {b1, b2}
  BucketOf <- TwoBuckets
  MachineOf <- TwoMachines
  NumBackups = 1
  MaxMsgCoro = 2
  MultiWorker = FALSE
  StaleVersions = {0, 1, 2}
  Populated = {k1, k3}
  Batches <- SmallBatches
  MaxTxns <- OneAndTwo
  NoCaller = NoCaller
  Absent = Absent
  Initial = Initial
  ItemBytes = ItemBytes
CHECK_DEADLOCK FALSE
INVARIANTS
  LockAccounting
  Serializable
  UpdatesSurvive
