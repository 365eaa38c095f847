SPECIFICATION FairSpec
CONSTANTS
  Delays <- MCDelays
  MinDue <- MCMinDue
  MaxTimers = 3
  MaxTasks = 2
  MaxNow = 3
CHECK_DEADLOCK FALSE
INVARIANTS
  FirstDueFirst
  ClearedStaysCleared
  NoTimerLost
  OnSchedule
PROPERTIES
  EverythingIsServed
