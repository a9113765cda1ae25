SPECIFICATION FairSpec
CONSTANTS
  c1 = c1
  c2 = c2
  c3 = c3
  Coros = {c1, c2, c3}
  Locks = {l1, l2}
  MaxKeys = 2
  Sizes <- TwoTwoOne
  None = None
INVARIANTS
  TypeOK
  CountersMatch
  UnlockMatches
  ExclusiveFirst
PROPERTIES
  ImplementsAtomicLocks
  RequestsAnswered
