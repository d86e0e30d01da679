SPECIFICATION Spec
CONSTANTS
  Objects = {}
  PollSeconds = 60
  MaxDdl = 1
  MaxCalls = 1
  MaxTimeouts = 0
  MaxFails = 0
  MaxRenames = 0
  MaxFlips = 0
  MaxAways = 0
  Ladder = 1
  None = None
PROPERTIES
  ValidatedIsConfirmed
CHECK_DEADLOCK FALSE
