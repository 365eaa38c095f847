SPECIFICATION FairSpec
CONSTANTS
  Kinds = {"run", "resume", "evaluate", "other", "connect", "disconnect"}
  MaxMessages = 4
CHECK_DEADLOCK FALSE
INVARIANTS
  FlagsMatchStack
  DispatchIsComing
  ChecksHold
PROPERTIES
  PipeSpec
  MessagesAreHandled
