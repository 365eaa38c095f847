SPECIFICATION Spec
CONSTANTS
  IntLimit = 65550
  Limit = 512
  Scale = 10
  Precision = 64
  Units <- MCUnits
  MaxUnits = 3
  SomeBytes <- MCSomeBytes
  MaxBytes = 4
  Lengths <- MCLengths
  Characters = {"7", ".", ":", "[", "]", "localhost", "Localhost"}
  MaxHost = 5
  FieldNames <- MCFieldNames
  FieldValues <- MCFieldValues
  MaxFields = 3
  Segments = {"/", "json", "list", "protocol", "version", "x"}
  MaxPath = 4
  Clocks = {0, 1, 502, 511}
  MaxDelay = 600
INVARIANTS
  TextsSurvive
  FramesSurvive
  RequestsAnswered
  ValuesSurvive
  DelaysAreKept
