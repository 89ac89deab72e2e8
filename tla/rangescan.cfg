SPECIFICATION Spec
CONSTANTS
  NoIP = NoIP
  V4Size = 16
  FourByteMin = 8
  Confs <- MCConfs
  LastIPs <- MCLastIPs
  MaxVisits = 16
INVARIANTS
  AcceptedRangesDisjoint
  ScanVisitsOnce
  ScanExhaustive
PROPERTY ScanTerminates
CHECK_DEADLOCK FALSE
