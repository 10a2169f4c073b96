SPECIFICATION Spec
CONSTANTS
  Invocations <- MCInvocations
  MaxWork = 3
  StartFaults = TRUE
  Interrupts = TRUE
INVARIANTS
  WorkDivided
  SharesAreEven
  JobsInv
PROPERTIES
  RunEnds
