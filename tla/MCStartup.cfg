SPECIFICATION FairSpec
CONSTANTS
  Keys <- TwoKeys
  MaxWorkers = 4
  MaxThreads = 2
  MaxBackups = 2
INVARIANTS
  TypeOK
  RequestsFindKeys
  RequestsMeetRecvs
  ReplicasApart
PROPERTY
  AllRun
