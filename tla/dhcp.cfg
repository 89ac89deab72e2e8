SPECIFICATION FairSpec
CONSTANTS
  c1 = c1
  l1 = l1
  l2 = l2
  l3 = l3
  None = None
  Clients <- OneClient
  Slots <- OneCall
  Leases <- TwoLeases
INVARIANTS
  TypeOK
  OneLeasePerClient
  AttachedNotStopped
  ServerKeepsBinding
  ReleaseLeavesNothing
PROPERTIES
  ExpiredEnds
  CallsEndOrLeaseEnded
