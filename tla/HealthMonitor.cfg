SPECIFICATION Spec
CONSTANTS
  MaxHeight = 3
  LagThreshold = 1
  StallPolls = 2
  tronSyncedThreshold = 1
  Scenarios <- MCScenarios
INVARIANT TypeOK
INVARIANT SyncedIsHonest
INVARIANT BusyNotDegraded
INVARIANT DownNoticed
INVARIANT SlowStageSpared
INVARIANT LagIsReal
INVARIANT LagNoticed
