SPECIFICATION Spec
CONSTANT Scenarios = {
  {"crash", "restart"},
  {"crash", "timeout", "unhealthy", "flap", "restart"},
  {"crash", "error", "stale", "timeout", "unhealthy", "flap", "restart", "delete"},
  {"crash", "error", "timeout", "unhealthy", "flap", "restart", "status", "delete"},
  {"crash", "timeout", "unhealthy", "flap", "restart", "status", "delete"},
  {"crash", "unhealthy", "flap", "restart", "status", "delete"}}
INVARIANT TypeOK
INVARIANT RemoveAfterSwitch
INVARIANT LeftoversTracked
INVARIANT AnnotationsCoherent
PROPERTY HandoverKeepsAPod
PROPERTY PhaseGraph
PROPERTY VerifyingEnds
PROPERTY RollbackResumes
CHECK_DEADLOCK FALSE
