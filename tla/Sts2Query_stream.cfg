SPECIFICATION FairSpec
CONSTANTS
  MaxSets = 3
  Plans <- MCStreamPlans
  PageRows <- MCPageRows
  Window = 2
  MaxOrphanEvents = 32
  MaxMessages = 1
  MaxFaults = 0
  FaultyWire <- NoFaults
  SinkMayFail = TRUE
  Operations <- StreamOnly
INVARIANTS
  TypeOK
  AckedPagesAreDurable
  SuccessIsTheWholeStream
PROPERTIES
  CompletionSettles
CHECK_DEADLOCK FALSE
