SPECIFICATION Spec
CONSTANTS
  c1 = c1
  c2 = c2
  c3 = c3
  m1 = m1
  m2 = m2
  m3 = m3
  None = None
  CsmsCalls = {c1, c2}
  StationCalls = {m1, m2}
  Barred = {}
  RouteOutcomes = {"ok", "failed"}
  LinkOutcomes = {TRUE}
  TimelyPeers = TRUE
INVARIANT OneAtATime
