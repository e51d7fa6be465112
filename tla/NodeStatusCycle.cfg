SPECIFICATION Spec
CONSTANTS
  MaxHeight = 1
  HasInit = TRUE
  AutoRestart = TRUE
  Scenarios = {{"crash", "rpc"}, {"rpc", "exempt"},
               {"crash", "conflict", "rpc", "exempt"}}
INVARIANT TypeOK
PROPERTY RestartEarned
PROPERTY StallEarned
PROPERTY DegradedIsRestarted
PROPERTY FreezeNoticed
