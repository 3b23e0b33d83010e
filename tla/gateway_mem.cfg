SPECIFICATION FairSpec
CONSTANTS
  b1 = b1
  b2 = b2
  p1 = p1
  p2 = p2
  Builds <- BuildsOne
  Providers <- ProvidersOne
  ReportedBy <- AnyReporter
  NoProvider = NoProvider
  NoTime = NoTime
  Reported = {"running", "succeeded", "rejected"}
  TTL = 2
  TicksPerMinute = 2
  Durable = FALSE
  MaxTime = 4
  MaxReports = 2
  MaxRestarts = 0
CHECK_DEADLOCK FALSE
INVARIANT
  BillsAreAttributed
PROPERTY
  FinishedRunIsBilled
