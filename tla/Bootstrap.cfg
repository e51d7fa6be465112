CONSTANTS
  Scenarios <- WithstoodScenarios
  MaxHits = 3
SPECIFICATION Spec
INVARIANT TypeOK
INVARIANT StartsOnPinned
PROPERTY LiveDataKept
PROPERTY ImplementsVolume
