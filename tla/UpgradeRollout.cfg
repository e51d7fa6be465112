SPECIFICATION Spec
CONSTANTS
  Images = {"v1", "v2", "v3"}
  BadImages = {"v2", "v3"}
  Clients = {"geth", "reth"}
  DefaultImage <- MCDefaultImage
  Overrides = {"none", "v2", "v3"}
  Scenarios = {{"client"}, {"crash", "restart"}, {"lag", "restart"}}
INVARIANT TypeOK
INVARIANT UpgradeNotForgotten
PROPERTY CompleteMeansReady
PROPERTY RollbackLeavesTheCrashingImage
PROPERTY UpgradeConverges
PROPERTY CrashLoopRolledBack
