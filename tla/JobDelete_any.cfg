SPECIFICATION DSpec
CONSTANTS
  Keys = {k1}
  Runs = {e1}
  Killers = {g1}
  Deleters = {d1, d2}
  MaxClosed = 1
  Concurrent = TRUE
  Unmade = {}
  Stray = TRUE
  Plans = {1}
  KillArgs = {}
  FirstSeq = 0
  MaxSeq = 1
  None = None
SYMMETRY Symmetry
INVARIANTS NeverClosedTwice
