SPECIFICATION FairSpec
CONSTANTS
  c1 = c1
  NoIP = NoIP
  Free = Free
  Blank = Blank
  Nobody = Nobody
  V4Size = 16
  FourByteMin = 8
  Att <- MCAtt
  Containers <- MCContainers
  IPs <- MCSmallIPs
  Sets <- MCSmallSets
  Requests <- MCSmallRequests
  OldFiles <- MCOldFiles
  OldLast <- MCNoOldLast
  RepeatAdd = FALSE
  DiskFaults = FALSE
INVARIANTS
  DelReleasesAll
  FailedAddLeavesNothing
  CheckFindsLive
PROPERTY CallsEnd
