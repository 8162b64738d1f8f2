SPECIFICATION Spec
CONSTANTS
  a = a
  b = b
  c1 = c1
  x1 = x1
  Streams = {s1}
  Conns = {c1}
  Sessions = {x1}
  Kinds = {a, b}
  Filters = {{a}}
  Credits = {1}
  Conn <- MCConn
  Session <- MCSession
  Size <- MCSize
  MaxStreams = 2
  MaxRecords = 4
  MaxBytes = 3
  MaxRecordBytes = 2
  MaxUint = 15
  MaxHead = 4
INVARIANTS
  WithinWindow
CHECK_DEADLOCK FALSE
