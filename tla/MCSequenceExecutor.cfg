SPECIFICATION Spec
CONSTANTS
  Runs = {w1, w2}
  NoRun = none
  Users = {u1}
  LastStep = 3
  EmailSteps = {1, 3}
  ActiveSteps = {1, 2, 3}
  StopOn = {"reply"}
  News = {}
  Flows = {"active", "closed"}
  MaxRetries = 1
  MaxMishaps = 2
CHECK_DEADLOCK FALSE
SYMMETRY Symmetry
INVARIANTS
  OneWorker
  CompletedIsDone
  MailedOncePerStep
  StepsInOrder
