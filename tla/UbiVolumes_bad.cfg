SPECIFICATION Spec
CONSTANTS
  va = va
  vb = vb
  NoName = noname
  Absent = absent
  TornTable = torn
  Damaged = damaged
  Name = {va, vb}
  VtblSlots = 2
  Type = {"dynamic"}
  MaxLebs = 3
  PebCount = 9
  Factory <- NoVolumes
  UpdSizes = {1}
  Faults = {"bad", "resize", "nomem", "blank", "ro"}
  MaxErr = 3
  MaxCuts = 0
  MaxImages = 1
INVARIANTS Accounting
