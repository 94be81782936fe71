SPECIFICATION Spec
CONSTANTS
  None = None
  a1 = a1  a2 = a2
  Evses <- TwoEvses
  TypeOf <- SameType
  Authorizations <- SomeRows
  MaxChecks = 1
INVARIANT DisallowedIsRefused
CHECK_DEADLOCK FALSE
