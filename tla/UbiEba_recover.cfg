SPECIFICATION Spec
CONSTANTS
  Junk = junk
  EccBad = ecc
  None = none
  PEB = {p1, p2, p3, p4}
  LEB = {l1, l2}
  Chunk = {a}
  Torn = {junk}
  UBI_IO_RETRIES = 3
  Faults = {"append", "erase", "bitflip"}
  MaxErr = 2
  MaxCuts = 0
  MaxSqnum = 5
  MaxLen = 2
SYMMETRY PebSymmetry
INVARIANTS ReadBack MapSound NoLeak
CHECK_DEADLOCK FALSE
