SPECIFICATION FairSpec
CONSTANTS
  MaxMessages = 8
CHECK_DEADLOCK FALSE
INVARIANTS
  OneSendAtATime
PROPERTIES
  EverythingIsSent
  PipeSpec
