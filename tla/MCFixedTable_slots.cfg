SPECIFICATION Spec
CONSTANTS
  c1 = c1
  c2 = c2
  k1 = k1
  k2 = k2
  k3 = k3
  k4 = k4
  k5 = k5
  Callers = {c1, c2}
  Keys = {k1, k2, k3, k4}
  Vals = {v1}
  Absent = Absent
  StaleVersions = {0}
  NumBuckets = 1
  NumExtra = 1
  Cap = 2
  BucketOf <- OneBucket
  InitKeys <- FourKeys
  InitVal = v0
  InvalidKey = InvalidKey
  NoCaller = NoCaller
  Targets <- EveryAndTwo
  MaxCalls <- TwoEach
CHECK_DEADLOCK FALSE
INVARIANTS
  BucketLockExclusive
  ChainsHoldContents
PROPERTY
  ImplementsAtomicTable
