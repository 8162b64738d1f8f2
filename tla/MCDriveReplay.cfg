SPECIFICATION Spec
CONSTANTS
  s1 = s1
  Sessions = {s1}
  MaxSessions = 1
  MaxGen = 1
  MaxID = 2
  Methods = {"read", "execute", "advance", "virtual", "wall", "cancel", "revoke", "unknown"}
  MaxInbox = 2
  MaxPending = 2
  FrameCredits = 1
  Payload = 2
  MaxJobs = 1
  CancelTarget = 1
  RevokeTarget = s1
  NoOwner = NoOwner
  LedgerMaxEntries = 1
  LedgerMaxBytes = 2
  EntryOverhead = 1
  MaxSends = 2
  Workloads <- MCRetryWorkloads
INVARIANTS
  RetriesReplayed
CHECK_DEADLOCK FALSE
