SPECIFICATION FairSpec
CONSTANTS
  a = a
  b = b
  c1 = c1
  x1 = x1
  Streams = {s1}
  Conns = {c1}
  Sessions = {x1}
  Kinds = {a, b}
  Filters = {{a}, {a, b}}
  Credits = {1, 2}
  Conn <- MCConn
  Session <- MCSession
  Size <- MCSize
  MaxStreams = 2
  MaxRecords = 2
  MaxBytes = 3
  MaxRecordBytes = 2
  MaxUint = 15
  MaxHead = 3
INVARIANTS
  TypeOK
  LogContiguous
  NoSilentGap
  LiveCanContinue
  CursorsOrdered
  UnfilteredWindow
  NoLostWakeup
PROPERTIES
  Delivers
  ExpiryReported
CHECK_DEADLOCK FALSE
