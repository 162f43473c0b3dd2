SPECIFICATION Spec
CONSTANTS
  Junk = junk
  EccBad = ecc
  None = none
  PEB = {p1, p2, p3, p4}
  LEB = {l1, l2}
  Chunk = {a}
  Torn = {junk}
  UBI_IO_RETRIES = 3
  Faults = {"bitflip", "novid"}
  MaxErr = 1
  MaxCuts = 1
  MaxSqnum = 5
  MaxLen = 2
SYMMETRY PebSymmetry
INVARIANTS CrashSafe ReadBack MapSound
CHECK_DEADLOCK FALSE
