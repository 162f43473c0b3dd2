SPECIFICATION Spec
CONSTANTS
  Redundant = FALSE
  EnvBlocks = 2
  RangeBlocks = 3
  GoodCounts = {1, 2, 3}
  InitFlags = {0}
  MaxVer = 4
  Faults = {"erase", "write"}
  MaxErr = 2
  MaxCuts = 2
INVARIANTS NeverStale
