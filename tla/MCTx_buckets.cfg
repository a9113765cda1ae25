SPECIFICATION FairSpec
CONSTANTS
  c1 = c1
  c2 = c2
  k1 = k1
  k2 = k2
  b1 = b1
  b2 = b2
  Coros = {c1, c2}
  Keys = {k1, k2}
  Buckets = {b1, b2}
  BucketOf <- TwoBuckets
  MachineOf <- TwoMachines
  NumBackups = 2
  MaxMsgCoro = 2
  MultiWorker = TRUE
  StaleVersions = {0, 1}
  Populated = {k1}
  Batches <- AllBatches
  MaxTxns <- OneEach
  NoCaller = NoCaller
  Absent = Absent
  Initial = Initial
  ItemBytes = ItemBytes
CHECK_DEADLOCK FALSE
INVARIANTS
  TypeOK
  SnapshotReads
  DivergenceUnderLock
  DivergenceLogged
  AbortLeavesNoTrace
  LockAccounting
  BackupWritersExclusive
  BatchesFit
PROPERTIES
  VersionedWrites
  LocksReleased
