SPECIFICATION Spec
CONSTANTS
  Kinds = {"run", "other"}
  MaxMessages = 3
CHECK_DEADLOCK FALSE
INVARIANTS
  StartupWaitsForRun
