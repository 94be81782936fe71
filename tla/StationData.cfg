SPECIFICATION Spec
CONSTANTS
  None = None
  s1 = s1  s2 = s2  l1 = l1  l2 = l2  t1 = t1  v1 = v1  v2 = v2
  p1 = p1  e1 = e1  d1 = d1  d2 = d2  c1 = c1  c2 = c2  c3 = c3  x1 = x1  a1 = a1  a2 = a2
  k1 = k1  k2 = k2  k3 = k3  w1 = w1  w2 = w2
  Stations <- TwoStations
  MaxCalls = 3
  MaxVersion = 2
  Lists <- TwoLists
  Operator = operator
  Tokens <- OneToken
  MaxEntries = 1
  MaxId = 2
  MaxTx = 2
  MaxStarts = 2
  MaxRepeats = 1
  MaxSamples = 1
  MaxMeter = 1
  UnknownChargerStatus = "Pending"
  Configurations = 2
  MaxBoots = 3
  MaxWrites = 1
  Evses <- TwoEvses
  TypeOf <- ConnectorTypeOf
  Authorizations <- SomeRows
  MaxChecks = 2
  Values <- TwoValues
  Factory = v1
  MaxSets = 3
  MaxQueries = 1
  CSO <- OwnProfiles
  Others <- OneOther
  Displays <- TwoDisplays
  MaxRequests = 2
  Connectors <- ThreeConnectors
  ConnectorId <- NumberOf
  MaxNotifications = 3
  MaxConnections = 3
  Exchanges <- OneExchange
  Certificates <- ThreeCertificates
  CertificateType <- TypeOfCertificate
  MaxIdCalls = 2
  Monitors <- ThreeMonitors
  MaxMonitorId = 2
  MaxMonitorRows = 3
  MaxMonitorCalls = 3
INVARIANTS
  VersionFollows
  ActiveIsHeld
  NoGhostTransaction
  FinalEnergy
  AcceptedIsConfigured
  PermissionsFollow
  OneDecision
  ValueIsActual
  ActiveIsInstalled
  ActiveIsShown
  LatestStatusKnown
  
  ActionKnown
  CertificatesKnown
  MonitorsKnown
SYMMETRY Symmetry
CHECK_DEADLOCK FALSE
