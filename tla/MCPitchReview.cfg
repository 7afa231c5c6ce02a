SPECIFICATION Spec
CONSTANTS
  Workers = {w1, w2}
  Users = {u1, u2}
  Modes = {TRUE, FALSE}
  MaxAttempts = 2
  DailyLimit = 2
  MaxAudits = 4
  MaxClicks = 4
  MaxDeaths = 1
SYMMETRY Symmetry
INVARIANTS
  OneCurrent
  DoneHasPitch
  AuditsWithinAttempts
PROPERTY
  ApprovedStays
CHECK_DEADLOCK FALSE
