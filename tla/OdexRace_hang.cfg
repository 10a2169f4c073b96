SPECIFICATION Spec
CONSTANTS
  Generations = 2
  PageCount = 1
  HasTail = FALSE
  ProducerFaults = TRUE
  MapFaults = FALSE
  OpenFaults = FALSE
  DamageAllowed = FALSE
PROPERTIES
  RunReturns
CHECK_DEADLOCK FALSE
