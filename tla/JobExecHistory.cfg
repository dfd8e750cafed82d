SPECIFICATION HFairSpec
CONSTANTS
  Keys = {k1}
  Runs = {e1, e2}
  Killers = {g1}
  Plans = {0, 2}
  KillArgs = {2}
  FirstSeq = 1
  MaxSeq = 3
  None = None
INVARIANTS TypeOK WaitGroupCountsRuns LockHolderNeverWaits DoneMeansStopped NeverFatal SelectListens WaitsAreForSomebody
PROPERTIES ImplementsSerialJobs KilledWasAsked OutcomeIsFinal RunsAdvance EveryRunEnds
