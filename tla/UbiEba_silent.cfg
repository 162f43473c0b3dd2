SPECIFICATION Spec
CONSTANTS
  Junk = junk
  EccBad = ecc
  None = none
  PEB = {p1, p2, p3}
  LEB = {l1}
  Chunk = {a, b}
  Torn = {junk, ecc}
  UBI_IO_RETRIES = 1
  Faults = {"append", "write", "novid", "mismatch"}
  MaxErr = 2
  MaxCuts = 1
  MaxSqnum = 4
  MaxLen = 2
SYMMETRY PebSymmetry
INVARIANTS AtMostTwoCopies SqnumUnique
CHECK_DEADLOCK FALSE
