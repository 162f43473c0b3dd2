SPECIFICATION Spec
CONSTANTS
  Junk = junk
  EccBad = ecc
  None = none
  PEB = {p1, p2, p3}
  LEB = {l1}
  Chunk = {a, b}
  Torn = {junk}
  UBI_IO_RETRIES = 3
  Faults = {"write", "erase", "io", "bitflip"}
  MaxErr = 2
  MaxCuts = 1
  MaxSqnum = 4
  MaxLen = 2
SYMMETRY PebSymmetry
INVARIANTS TypeOK CrashSafe ReadBack SqnumUnique AtMostTwoCopies NoLeak FreeIsErased
CHECK_DEADLOCK FALSE
