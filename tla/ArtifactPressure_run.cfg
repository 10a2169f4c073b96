SPECIFICATION Spec
CONSTANTS
  Groups = 5
  Artifacts = {a1, a2, a3, a4}
  Candidates = {a1, a2}
  VerifyEvery = 2
  FsyncWorkerCount = 2
  FsyncBatchWidth = 3
  MinFsyncPasses = 2
  KeepSuccessFiles = FALSE
  Faults = {"hold", "writer", "replace", "evidence", "verify", "fsync", "verity", "sync"}
  DamageAllowed = TRUE
INVARIANTS
  ArtifactInv
  SyncsReachFiles
  OnlyDamageReported
