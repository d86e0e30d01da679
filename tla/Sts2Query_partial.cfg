SPECIFICATION Spec
CONSTANTS
  MaxSets = 33
  Plans <- MCLongBatch
  PageRows <- MCPageRows
  Window = 2
  MaxOrphanEvents = 32
  MaxMessages = 0
  MaxFaults = 0
  FaultyWire <- NoFaults
  SinkMayFail = FALSE
  Operations <- StreamOnly
INVARIANTS
  SuccessIsNeverPartial
CHECK_DEADLOCK FALSE
