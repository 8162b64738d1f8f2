SPECIFICATION Spec
CONSTANTS
  s1 = s1
  Sessions = {s1}
  MaxSessions = 1
  MaxGen = 1
  MaxID = 3
  Methods = {"read", "execute", "advance", "virtual", "wall", "cancel", "revoke", "unknown"}
  MaxInbox = 3
  MaxPending = 2
  FrameCredits = 2
  Payload = 2
  MaxJobs = 1
  CancelTarget = 1
  RevokeTarget = s1
  NoOwner = NoOwner
  LedgerMaxEntries = 1
  LedgerMaxBytes = 2
  EntryOverhead = 1
  MaxSends = 3
  Workloads <- MCTimeWorkloads
INVARIANTS
  CreditsReturned
CHECK_DEADLOCK FALSE
