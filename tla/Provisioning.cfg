CONSTANTS
  None = None
  Chains <- AllChains
  Representatives <- SomeChains
  Scenarios <- AllScenarios
  MaxEvents = 2
SPECIFICATION Spec
INVARIANT TypeOK
INVARIANT ProbesAnswered
INVARIANT MetricsScraped
INVARIANT ImageBeforeWorkload
PROPERTY UserSecretKept
PROPERTY Converges
