SPECIFICATION Spec
CONSTANTS
  c1 = c1
  NoIP = NoIP
  Free = Free
  Blank = Blank
  Nobody = Nobody
  V4Size = 16
  FourByteMin = 8
  Att <- MCAtt
  Containers <- MCContainers
  IPs <- MCIPs
  Sets <- MCSets
  Requests <- MCRequests
  OldFiles <- MCOldFiles
  OldLast <- MCNoOldLast
  RepeatAdd = TRUE
  DiskFaults = FALSE
INVARIANT NoDuplicateAllocation
