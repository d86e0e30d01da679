SPECIFICATION FairSpec
CONSTANTS
  sts2 = sts2
  native = native
  c1 = c1
  c2 = c2
  Kinds <- TwoKinds
  Tunable <- OneKind
  Configs = {1, 2}
  Callers <- TwoCallers
  MaxFlights = 2
INVARIANTS
  TypeOK
  SessionAccounting
  LiveServicesAreOwned
  ClaimsAreTrue
PROPERTIES
  SwapSparesSessions
  WaitersGetRunningBackends
  CallersAreAnswered
  DisposeReleasesEverything
CHECK_DEADLOCK FALSE
