SPECIFICATION FairSpec
CONSTANTS
  older = older
  newer = newer
  Posts = {older, newer}
  PublishedAt <- MCPublishedAt
  Broken = {newer}
  Windows = {1, 3}
  EnvWindow = 1
  SeedWindow = 9
  SeedLimit = 1
  Limit = 1
  MinNew = 3
  Gap = 1
  YoungAge = 2
  YoungStep = 1
  OldStep = 2
  MaxStretch = 1
  StretchAfter = 1
  Delays <- MCDelays
  RecheckWindow = 2
  Offset <- MCOffset
  Nights = {3}
  MaxLate = 1
  Horizon = 5
  YoungPoints = 0
  OldPoints = 3
  MaxPoints <- MCMaxPoints
  MaxVersions = 1
  MaxInterruptions = 1
INVARIANTS TypeOK NormsSound RecheckInTime
PROPERTIES CatchesUpOnce FrozenInTime EventuallyFinal
CHECK_DEADLOCK FALSE
