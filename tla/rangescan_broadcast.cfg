SPECIFICATION Spec
CONSTANTS
  NoIP = NoIP
  V4Size = 16
  FourByteMin = 8
  Confs <- MCAllConfs
  LastIPs <- MCLastIPs
  MaxVisits = 16
INVARIANT ScanStaysInSubnets
CHECK_DEADLOCK FALSE
