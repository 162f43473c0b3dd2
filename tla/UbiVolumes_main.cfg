SPECIFICATION Spec
CONSTANTS
  va = va
  vb = vb
  NoName = noname
  Absent = absent
  TornTable = torn
  Damaged = damaged
  Name = {va, vb}
  VtblSlots = 2
  Type = {"dynamic", "static"}
  MaxLebs = 2
  PebCount = 8
  Factory <- AnyFlash
  UpdSizes = {0, 1, 2}
  Faults = {"ro"}
  MaxErr = 1
  MaxCuts = 2
  MaxImages = 2
INVARIANTS TypeOK AttachOK UpdateAtomic ReadsWhole TableMatchesVolumes NoStrayLebs Accounting
PROPERTIES OthersKept StoreSpec Settles
