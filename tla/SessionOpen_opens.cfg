SPECIFICATION FairSpec
CONSTANTS
  o1 = o1
  o2 = o2
  Kinds <- AllKinds
  Capable <- Openers
  TestKinds <- TestOnly
  Opens <- TwoOpens
  MaxRetries = 1
  MaxChanges = 1
  MaxHandshakes = 1
INVARIANTS
  TypeOK
  OnlyCapableProvidersAreAsked
  
PROPERTIES
  OpensEnd
CHECK_DEADLOCK FALSE
CONSTRAINT OneChange
