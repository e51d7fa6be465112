SPECIFICATION Spec
CONSTANTS
  Images = {"v1", "v2", "v3"}
  BadImages = {"v2"}
  Clients = {"geth"}
  DefaultImage <- MCDefaultImage
  Overrides = {"v1", "v2"}
  Scenarios = {{}}
PROPERTY RollbackHolds
