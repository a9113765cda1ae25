SPECIFICATION FairSpec
CONSTANTS
  c1 = c1
  c2 = c2
  k1 = k1
  k2 = k2
  k3 = k3
  k4 = k4
  k5 = k5
  Callers = {c1, c2}
  Keys = {k1, k2, k3, k4, k5}
  Vals = {v1}
  Absent = Absent
  StaleVersions = {0}
  NumBuckets = 2
  NumExtra = 2
  Cap = 1
  BucketOf <- ThreeAndTwo
  InitKeys <- FourKeys
  InitVal = v0
  InvalidKey = InvalidKey
  NoCaller = NoCaller
  Targets <- DeleteAndReuse
  MaxCalls <- TwoAndOne
CHECK_DEADLOCK FALSE
INVARIANTS
  TypeOK
  ExtraBucketsAccounted
  WalkInChain
PROPERTIES
  ImplementsAtomicTable
  HandlersReturn
