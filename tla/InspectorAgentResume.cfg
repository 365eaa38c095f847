SPECIFICATION FairSpec
CONSTANTS
  Kinds = {"resume", "other"}
  MaxMessages = 3
CHECK_DEADLOCK FALSE
PROPERTIES
  ResumeResumes
