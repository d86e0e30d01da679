SPECIFICATION FairSpec
CONSTANTS
  o1 = o1
  o2 = o2
  o3 = o3
  Opens <- ThreeOpens
  MaxHandshakes = 3
INVARIANTS
  TypeOK
  NoForgottenConnection
PROPERTIES
  FatalLosesEverySession
  OpensEnd
  DisposeEnds
CHECK_DEADLOCK FALSE
