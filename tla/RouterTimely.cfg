SPECIFICATION TimelySpec
CONSTANTS
  c1 = c1
  c2 = c2
  c3 = c3
  m1 = m1
  m2 = m2
  m3 = m3
  None = None
  CsmsCalls = {c1, c2, c3}
  StationCalls = {m1, m2}
  Barred = {c3}
  RouteOutcomes = {"ok"}
  LinkOutcomes = {TRUE}
  TimelyPeers = TRUE
INVARIANTS
  NoTimelyAnswerLost
PROPERTIES
  CsmsCallsEnd
  StationCallsAnswered
  ImplementsExchange
