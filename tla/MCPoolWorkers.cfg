SPECIFICATION Spec
CONSTANTS
  j1 = j1
  j2 = j2
  j3 = j3
  a = a
  b = b
  NoJob = NoJob
  Jobs = {j1, j2, j3}
  IDs = {a}
  JobID <- SameID
  Bytes <- SameIDBytes
  Interactive = {j1}
  Guarded = {j1}
  Workers = {w1, w2}
  Threads = {rt}
  WalletCap = 4
  MaxWaiting = 1
  MaxTotalRecords = 2
  CancelIDs = {}
  Disturbances = {{j1}}
SYMMETRY Symmetry
CONSTRAINT Early
INVARIANTS
  FrontierSound
  ChargeCoversWork
  BookkeepingPaired
  RecordsExact
  WakeCoversResults
  CommittedOnce
  OneLivePerID
  ChargesReturned
