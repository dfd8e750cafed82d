SPECIFICATION HDFairSpec
CONSTANTS
  Keys = {k1}
  Runs = {e1, e2}
  Killers = {g1}
  Deleters = {d1}
  MaxClosed = 2
  Concurrent = FALSE
  Unmade = {k1}
  Stray = FALSE
  Plans = {1}
  KillArgs = {886}
  FirstSeq = 0
  MaxSeq = 1
  None = None
INVARIANTS DTypeOK SerialExecution DeleteWaitsForRuns ExecutionsNeverPanic WaitersHaveOwners
PROPERTIES SerialJobsAnew FatalOnlyByPanic DeletionEnds
