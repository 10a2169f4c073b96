SPECIFICATION Spec
CONSTANTS
  FileSize = 4
  FsyncChunk = 1
  BackgroundChunk = 2
  FsyncWorkers = 2
  BackgroundWriters = 1
  TargetFiles = 1
  WriteBound = 2
  Faults = TRUE
  Stalls = TRUE
INVARIANTS
  LedgerInv
PROPERTIES
  RunPasses
