SPECIFICATION Spec
CONSTANTS
  Workers = {t1, t2}
  Enrolments = {e1}
  LastStep = 2
  ActiveSteps = {1, 2}
  Cap = 2
  MaxTake = 1
  Shadows = {FALSE}
  MaxMishaps = 0
CHECK_DEADLOCK FALSE
SYMMETRY Symmetry
INVARIANT
  StoppedNeverMailed
