SPECIFICATION FairSpec
CONSTANTS
  p1 = p1
  p2 = p2
  s1 = s1
  s2 = s2
  s3 = s3
  b1 = b1
  d1 = d1
  Types <- BothTypes
  Build = "ios_build"
  None = None
  TopN = 2
  Providers <- OneProvider
  Streams <- ThreeStreams
  Owner <- AllOfP1
  Advertises <- OnlyFirstContainers
  Workloads <- OneDocker
  TypeOf <- DockerType
  Outcomes <- Succeeds
  MaxFaults = 1
CHECK_DEADLOCK FALSE
INVARIANTS
  NewestStreamHoldsSlot
  OnlyCapableAreAsked

  
