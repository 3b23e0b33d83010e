SPECIFICATION Spec
CONSTANTS
  p1 = p1
  p2 = p2
  s1 = s1
  s2 = s2
  s3 = s3
  b1 = b1
  d1 = d1
  Types <- BothTypes
  Build = "ios_build"
  None = None
  TopN = 2
  Providers <- TwoProviders
  Streams <- TwoStreams
  Owner <- OneEach
  Advertises <- EverythingTwo
  Workloads <- OneBuild
  TypeOf <- BuildType
  Outcomes <- Ends
  MaxFaults = 2
CHECK_DEADLOCK FALSE
INVARIANTS
  TypeOK
  SentAtMostOnce
  
  
PROPERTIES
  DrainedIsNotServedAgain
  AttemptEndIsKept
