SPECIFICATION FairSpec
CONSTANTS
  s1 = s1
  s2 = s2
  p1 = p1
  p2 = p2
  c1 = c1
  Sessions <- SessionsOne
  Customers = {c1}
  Owner <- OneCustomer
  Providers <- ProvidersTwo
  None = None
  MaxKeys = 2
  MaxStarts = 3
  MaxFailovers = 1
  MaxLosses = 1
  MaxPicks = 1
CHECK_DEADLOCK FALSE
INVARIANTS
  TypeOK
  
PROPERTIES
  CustomersBecomePeers
  AssignedGetsKey
  DegradedRecovers
