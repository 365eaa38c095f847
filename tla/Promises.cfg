SPECIFICATION FairSpec
CONSTANTS
  MaxPromises = 3
  MaxDepth = 4
  MaxRoots = 3
  MaxHostCalls = 3
CHECK_DEADLOCK FALSE
INVARIANTS
  PendingForAReason
  CalledForItsOutcome
PROPERTIES
  OvertakesOnlyInHostFunctions
  ResultsArrive
