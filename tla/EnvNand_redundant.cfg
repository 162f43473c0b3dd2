SPECIFICATION Spec
CONSTANTS
  Redundant = TRUE
  EnvBlocks = 2
  RangeBlocks = 3
  GoodCounts = {1, 2, 3}
  InitFlags = {0, 253, 255}
  MaxVer = 3
  Faults = {}
  MaxErr = 0
  MaxCuts = 2
INVARIANTS TypeOK BackupKept SavedIsLoaded
