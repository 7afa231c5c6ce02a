SPECIFICATION LimitsSpec
CONSTANTS
  free = free
  pro = pro
  Callers = {c1, c2, c3}
  Catalogue = {free, pro}
  Limit <- MCLimit
  Seats <- MCSeats
  Enforced = TRUE
  MaxFree = 1
INVARIANTS
  UsageOvershootBounded
  SeatOvershootBounded
SYMMETRY Symmetry
