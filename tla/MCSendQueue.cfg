SPECIFICATION Spec
CONSTANTS
  MaxQps = 2
  MaxPostlist = 2
  UnsigBatch = 3
  SqDepth = 6
  RqDepth = 12
  MaxMsgs = 2
INVARIANTS
  TypeOK
  NoneRefused
  WaitIsForPosted
  BuffersIntact
