SPECIFICATION Spec
CONSTANTS
  NoAtt = NoAtt
  a1 = a1
  a2 = a2
  x1 = x1
  x2 = x2
  Att <- MCIpvlanAtt
  IPs <- MCIPs
  Confs <- MCIpvlanConfs
INVARIANT IpvlanAddReleases
