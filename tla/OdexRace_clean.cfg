SPECIFICATION Spec
CONSTANTS
  Generations = 3
  PageCount = 2
  HasTail = TRUE
  ProducerFaults = FALSE
  MapFaults = FALSE
  OpenFaults = FALSE
  DamageAllowed = FALSE
INVARIANTS
  CleanResultAccounted
PROPERTIES
  RunReturns
  ReplacesAsAWhole
