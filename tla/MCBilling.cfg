SPECIFICATION Spec
CONSTANTS
  Subs = {s1, s2}
  None = None
  Paid = {pro}
  Free = free
  Handlers = {h1, h2}
  Admins = {a1}
  MaxEvents = 4
  MaxMishaps = 1
INVARIANTS
  AppliedOnce
  AnsweredWasApplied
  SettledAgrees
SYMMETRY Symmetry
CHECK_DEADLOCK FALSE
