SPECIFICATION Spec
CONSTANTS
  MaxSets = 2
  Plans <- MCSinglePlan
  PageRows <- MCPageRows
  Window = 2
  MaxOrphanEvents = 32
  MaxMessages = 0
  MaxFaults = 0
  FaultyWire <- NoFaults
  SinkMayFail = TRUE
  Operations <- StreamOnly
PROPERTIES
  SinkFailureStopsDelivery
CHECK_DEADLOCK FALSE
