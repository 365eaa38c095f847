SPECIFICATION Spec
CONSTANTS
  Kinds = {"upgrade", "text"}
  MaxItems = 3
  MaxSends = 1
CHECK_DEADLOCK FALSE
INVARIANTS
  FramesSurviveCuts
