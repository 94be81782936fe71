SPECIFICATION Spec
CONSTANTS
  h1 = h1
  h2 = h2
  None = None
  Handlers = {h1, h2}
  UnknownChargerStatus = "Pending"
  GetBaseReportOnPending = "yes"
  MaxCachingSeconds = 1
  Overlap = FALSE
  MaxParts = 2
  MaxPuts = 1
INVARIANTS
  BlacklistFollowsAnswer
  OneConfiguration
  ReportIsFresh
PROPERTIES
  PendingEnds
