SPECIFICATION FairSpec
CONSTANTS
  Kinds = {"get", "stray", "refused", "nokey", "upgrade", "text", "garbled", "close", "bad"}
  MaxItems = 4
  MaxSends = 1
CHECK_DEADLOCK FALSE
INVARIANTS
  SessionThenFramesInOrder
  AnsweredInOrder
  DiesOfCutResetOrGarble
PROPERTIES
  EverythingIsServed
