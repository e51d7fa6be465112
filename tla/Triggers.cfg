SPECIFICATION Spec
CONSTANTS
  Scenarios <- MCScenarios
  Window = 4
  CrashLoopRestarts = 2
  MaxRestarts = 3
INVARIANT TypeOK
PROPERTY CrashLoopIsReal
PROPERTY TroubleNoticed
