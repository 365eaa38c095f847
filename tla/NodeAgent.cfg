SPECIFICATION FairSpec
CONSTANTS
  MaxSessions = 2
  None = None
  Kinds = {"run", "resume", "evaluate", "#connect", "#disconnect"}
  MaxCalls = 4
CHECK_DEADLOCK FALSE
INVARIANTS
  InOrder
  ChecksHold
  RunComesLast
PROPERTIES
  V8SessionsSpec
  NobodyWaitsForEver
