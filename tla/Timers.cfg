SPECIFICATION Spec
CONSTANTS
  k1 = k1  k2 = k2  v1 = v1  v2 = v2  w1 = w1  w2 = w2
  s1 = s1  s2 = s2  h1 = h1  h2 = h2  n1 = n1
  Null = Null
  Keys = {k1, k2}
  Values = {v1, v2}
  Waiters = {w1, w2}
  MaxTime = 2
  RemoveAwaited = FALSE
  NoSocket = NoSocket
  Sockets = {s1, s2}
  Interval = 3
  None = None
  Last = 2
  Handlers = {h1, h2}
  Runs = {n1}
  MaxTimeouts = 1
  MaxQueries = 1
INVARIANTS
  
  CostIsReal
  AnsweredIsStored
  EndedIsFinal
PROPERTIES
  ImplementsCache
  
  CostsStop
CHECK_DEADLOCK FALSE
