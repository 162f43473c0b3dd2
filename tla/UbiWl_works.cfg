SPECIFICATION Spec
CONSTANTS
  Peb = {1, 2, 3}
  UBI_WL_THRESHOLD = 1
  ST_PROTECTION = 2
  U_PROTECTION = 1
  LT_PROTECTION = 1
  Tortures = 1
  Dtypes = {"LONGTERM", "SHORTTERM", "UNKNOWN"}
  MaxLeast = 4
  MaxSpread = 3
  MaxErr = 1
  MaxCuts = 1
INVARIANTS TypeOK  ScrubbedAtOnce
 
CHECK_DEADLOCK FALSE
