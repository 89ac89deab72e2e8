SPECIFICATION Spec
CONSTANTS
  NoAtt = NoAtt
  a1 = a1
  a2 = a2
  x1 = x1
  x2 = x2
  Att <- MCAtt
  IPs <- MCIPs
  Confs <- MCConfs
INVARIANTS
  TypeOK
  AttachedIsComplete
  NoAddressTwice
  DelCleansUp
  FailedAddReleases
  DelUnmasquerades
PROPERTY BridgeReleasesLast
