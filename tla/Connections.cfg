SPECIFICATION Spec
CONSTANTS
  s1 = s1
  s2 = s2
  s3 = s3
  None = None
  Sockets = {s1, s2}
  MaxFailures = 2
INVARIANTS
  OpenIsReachable
  NoOrphanQueues
  HealthyKept
  OfflineWhenGone
PROPERTIES
  ConnectionsDecided
