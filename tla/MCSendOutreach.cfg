SPECIFICATION Spec
CONSTANTS
  Callers = {c1, c2}
  Keys = {k1, k2}
  OrgLimit = 1
  AccountLimit = 1
  MaxCalls = 3
  MaxDays = 1
SYMMETRY Symmetry
CHECK_DEADLOCK FALSE
INVARIANTS
  RegularWithinLimit
  DuplicateNeedsCause
  SentWasDelivered
PROPERTY
  ImplementsQuota
