CONSTANTS
  Scenarios <- InterruptedCosmos
  MaxHits = 1
SPECIFICATION Spec
INVARIANT InterruptedStartRedone
