SPECIFICATION FairSpec
CONSTANTS
  r1 = r1
  r2 = r2
  c1 = c1
  c2 = c2
  Reporters <- ReportersTwo
  Subscribers <- SubscribersTwo
  Capacity = 1
  MaxEvents = 3
CHECK_DEADLOCK FALSE
INVARIANTS
  TypeOK
  NothingMissed
PROPERTIES
  LateReportsAreSafe
  ReportsEnd
