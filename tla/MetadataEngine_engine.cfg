SPECIFICATION FairSpec
CONSTANTS
  Objects = {o1, o2}
  PollSeconds = 60
  MaxDdl = 1
  MaxCalls = 1
  MaxTimeouts = 1
  MaxFails = 2
  MaxRenames = 1
  MaxFlips = 1
  MaxAways = 1
  Ladder = 1
  None = None
CONSTRAINT FewTroubles
INVARIANTS
  TypeOK
  OneQueryPerSession
  DefinitionsFitTheSnapshot
  StaleMeansRefreshing
  PollFollowsTheLease
  NobodyWaitsForNothing
PROPERTIES
  LiveAnswersAreFresh
  SnapshotsMoveForward
  FailedEntriesHeal
  CallersAreAnswered
CHECK_DEADLOCK FALSE
