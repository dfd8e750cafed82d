SPECIFICATION DSpec
CONSTANTS
  Keys = {k1}
  Runs = {e1}
  Killers = {g1}
  Deleters = {d1}
  MaxClosed = 1
  Concurrent = FALSE
  Unmade = {k1}
  Stray = TRUE
  Plans = {1}
  KillArgs = {1}
  FirstSeq = 0
  MaxSeq = 1
  None = None
INVARIANTS NoSendToClosed
