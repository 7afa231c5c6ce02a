SPECIFICATION Spec
CONSTANTS
  Ticks = {t1, t2, t3}
  Procs = {p1, p2}
  PoolSize = 2
  Jobs = {j1, j2}
  MaxDepth = 4
  MaxMishaps = 2
SYMMETRY Symmetry
INVARIANTS
  OneTickUnlessOutlived
  ProcessesExclude
  LeftOnlyByStray
