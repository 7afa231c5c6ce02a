SPECIFICATION FairSpec
CONSTANTS
  Runs = {w1, w2}
  NoRun = none
  Users = {}
  LastStep = 1
  EmailSteps = {1}
  ActiveSteps = {1}
  StopOn = {"reply", "unsubscribe"}
  News = {"ooo", "unsubscribe"}
  Flows = {"active", "paused"}
  MaxRetries = 1
  MaxMishaps = 1
CHECK_DEADLOCK FALSE
INVARIANT SignalledNeverSends
PROPERTIES
  ClaimsEnd
  SignalsStop
