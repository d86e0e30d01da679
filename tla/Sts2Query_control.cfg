SPECIFICATION LocalSpec
CONSTANTS
  MaxSets = 2
  Plans <- OneOrTwoPages
  PageRows <- MCPageRows
  Window = 2
  MaxOrphanEvents = 2
  MaxMessages = 0
  MaxFaults = 2
  FaultyWire <- MCFaultyWire
  SinkMayFail = TRUE
  Operations <- AllOperations
CONSTRAINT FewTroubles
INVARIANTS
  CompletionIsTheTerminal
  OneTerminal
PROPERTIES
  ImplementsContract
  ControlSettles
  SessionEndSettles
CHECK_DEADLOCK FALSE
