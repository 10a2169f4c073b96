SPECIFICATION Spec
CONSTANTS
  Generations = 2
  PageCount = 2
  HasTail = TRUE
  ProducerFaults = TRUE
  MapFaults = TRUE
  OpenFaults = TRUE
  DamageAllowed = TRUE
INVARIANTS
  IInv
  ReplacementSafe
  ValidatesWhatItTargets
CHECK_DEADLOCK FALSE
