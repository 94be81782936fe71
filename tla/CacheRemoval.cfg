SPECIFICATION Spec
CONSTANTS
  k1 = k1
  k2 = k2
  v1 = v1
  v2 = v2
  w1 = w1
  w2 = w2
  Null = Null
  Keys = {k1, k2}
  Values = {v1, v2}
  Waiters = {w1, w2}
  MaxTime = 2
  RemoveAwaited = TRUE
PROPERTIES
  ImplementsCache
