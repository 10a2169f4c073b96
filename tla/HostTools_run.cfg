SPECIFICATION HostSpec
CONSTANTS
  Commands = {c1, c2}
  PidPaths = {"default", "other"}
  DefaultPath = "default"
  MaxPid = 2
  Crashes = TRUE
  PidReuse = TRUE
  DryRuns = TRUE
  Runs = {1, 2, 3}
  Settings <- Directories
  MaxTroubles <- OneTrouble
INVARIANTS
  InstanceInv
  RunsExcluded
  SetupsUndone
PROPERTIES
  CleanupStopsFirst
  CommandsEnd
CHECK_DEADLOCK FALSE
