SPECIFICATION Spec
CONSTANTS
  Callers = {c1, c2}
  Keys = {k1, k2, k3}
  OrgLimit = 3
  AccountLimit = 1
  MaxCalls = 3
  MaxDays = 0
SYMMETRY Symmetry
CHECK_DEADLOCK FALSE
INVARIANTS
  AccountCountHolds
