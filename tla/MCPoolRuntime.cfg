SPECIFICATION EndlessLoopSpec
CONSTANTS
  j1 = j1
  j2 = j2
  j3 = j3
  a = a
  b = b
  NoJob = NoJob
  Jobs = {j1, j2}
  IDs = {a, b}
  JobID <- TwoIDs
  Bytes <- TwoIDsBytes
  Interactive = {j1}
  Guarded = {j1}
  Workers = {w1}
  Threads = {rt}
  WalletCap = 4
  MaxWaiting = 1
  MaxTotalRecords = 2
  CancelIDs = {a}
  Disturbances <- AnyTime
  Runtime = rt
  Credits = 1
INVARIANTS
  TypeOK
  LoopType
  
PROPERTIES
  QueuedJobRuns
  ShutdownTerminates
