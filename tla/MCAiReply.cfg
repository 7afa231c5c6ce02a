SPECIFICATION Spec
CONSTANTS
  Workers = {w1, w2}
  Last = 2
  MaxReplies = 1
  MaxAttempts = 2
  MaxClicks = 1
  MaxMishaps = 1
SYMMETRY Symmetry
INVARIANTS
  TwiceNeedsCause
  LateNeverSends
  SentWasMailed
  RepliesLimited
