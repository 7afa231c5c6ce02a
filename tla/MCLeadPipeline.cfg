SPECIFICATION Spec
CONSTANTS
  c1 = c1
  c2 = c2
  Companies = {c1, c2}
  Nobody = nobody
  Address = {a1}
  Emails <- MCEmails
  Owner <- MCOwner
  Pages = 2
  Found <- MCFound
  Runners = {r1, r2}
  Crawlers = {k1}
  Batches = {b1, b2}
  MaxAttempts = 1
  CreditLimit = 4
  MaxClicks = 3
  MaxMishaps = 1
SYMMETRY Symmetry
INVARIANTS
  DoneMeansFound
  CreditOvershootBounded
  BilledWithinAttempts
  EnrichedHasLead
  LeadsBounded
PROPERTY
  RebilledNeedsCause
CHECK_DEADLOCK FALSE
