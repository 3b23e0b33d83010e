SPECIFICATION FairSpec
CONSTANTS
  s1 = s1
  s2 = s2
  Sessions <- SessionsTwo
  None = None
  BatchLimit = 2
  MaxDeliver = 3
  MaxBytes = 1
  MaxEnds = 2
  MaxFaults = 2
CHECK_DEADLOCK FALSE
INVARIANTS
  TypeOK
  BilledIsAccounted
PROPERTIES
  CreditIsFinal
  OwedIsCredited
