SPECIFICATION Spec
CONSTANTS
  MaxHeight = 1
  HasInit = FALSE
  AutoRestart = TRUE
  Scenarios = {{"exempt"}}
PROPERTY ExemptionHonoured
