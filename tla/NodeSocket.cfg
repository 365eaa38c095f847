SPECIFICATION FairSpec
CONSTANTS
  c1 = c1
  c2 = c2
  Conns = {c1, c2}
  None = None
  Sends <- MCSends
  MaxItems = 3
  MaxSends = 1
CHECK_DEADLOCK FALSE
INVARIANTS
  ConnectedIsConnected
  NothingAfterClose
  DiesOfHasteOrCut
PROPERTIES
  SessionsSpec
  ConnectionsEnd
