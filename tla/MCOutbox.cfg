SPECIFICATION Spec
CONSTANTS
  Workers = {t1, t2}
  Enrolments = {e1}
  LastStep = 3
  ActiveSteps = {1, 2, 3}
  Cap = 1
  MaxTake = 2
  Shadows = {FALSE, TRUE}
  MaxMishaps = 2
CHECK_DEADLOCK FALSE
SYMMETRY Symmetry
INVARIANTS
  MailedOnce
  RowsTellMail
  StepsInOrder
  SuppressedNeverMailed
  CapOvershootBounded
  NoneForgotten
