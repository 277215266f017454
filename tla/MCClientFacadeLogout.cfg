SPECIFICATION Spec
CONSTANTS
  ann = ann
  bob = bob
  r1 = r1
  r2 = r2
  r3 = r3
  none = none
  Callers = {ann, bob}
  Bounded = {bob}
  Clients = {r1, r2, r3}
  Scenarios <- LogoutScenarios
  MaxChanges = 2
SYMMETRY ClientSymmetry
CHECK_DEADLOCK FALSE
INVARIANT
  LogoutIsComplete
