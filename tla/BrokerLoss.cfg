SPECIFICATION Spec
CONSTANTS
  r1 = r1
  r2 = r2
  r3 = r3
  r4 = r4
  Undefined = Undefined
  Runs = {r1, r2, r3, r4}
INVARIANTS
  LossIsHandled
