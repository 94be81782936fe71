SPECIFICATION Spec
CONSTANTS
  s1 = s1
  s2 = s2
  s3 = s3
  None = None
  Sockets = {s1, s2}
  MaxFailures = 0
INVARIANT OneConnection
