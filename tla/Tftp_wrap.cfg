SPECIFICATION Spec
CONSTANTS
  TFTP_SEQUENCE_SIZE = 4
  TFTP_BLOCK_SIZE = 1
  TftpBlkSizeOption = 2
  TIMEOUT_COUNT = 1
  File = 4
  Memory = 9
  Protocols = {"TFTPGET", "TFTPSRV", "AUTO"}
  OurPorts = {o1, o2, o3}
  PeerPorts = {p1, p2}
  WELL_KNOWN_PORT = wk
  NoPort = none
  MaxFaults = 1
PROPERTY IgnoredLeavesOffset
CHECK_DEADLOCK FALSE
