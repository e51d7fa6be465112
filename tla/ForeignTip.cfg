SPECIFICATION Spec
CONSTANTS
  MaxHeight = 3
  LagThreshold = 1
  StallPolls = 2
  tronSyncedThreshold = 1
  Scenarios <- MCForeign
INVARIANT LagMeansBehind
