SPECIFICATION Spec
CONSTANTS
  Junk = junk
  EccBad = ecc
  None = none
  PEB = {p1, p2, p3}
  LEB = {l1}
  Chunk = {a}
  Torn = {junk}
  UBI_IO_RETRIES = 3
  Faults = {"append"}
  MaxErr = 1
  MaxCuts = 1
  MaxSqnum = 5
  MaxLen = 2
SYMMETRY PebSymmetry
INVARIANTS CrashSafe
CHECK_DEADLOCK FALSE
