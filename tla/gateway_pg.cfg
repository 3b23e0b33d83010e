SPECIFICATION FairSpec
CONSTANTS
  b1 = b1
  b2 = b2
  p1 = p1
  p2 = p2
  Builds <- BuildsOne
  Providers <- ProvidersOne
  ReportedBy <- AnyReporter
  NoProvider = NoProvider
  NoTime = NoTime
  Reported = {"running", "succeeded", "failed", "rejected"}
  TTL = 2
  TicksPerMinute = 2
  Durable = TRUE
  MaxTime = 4
  MaxReports = 2
  MaxRestarts = 1
CHECK_DEADLOCK FALSE
INVARIANTS
  TypeOK
  CancelNeverRelabelsEnded
PROPERTIES
  PausedRejectionOnlyBeforeDispatch
  EveryBuildEnds
  KeepsContract
