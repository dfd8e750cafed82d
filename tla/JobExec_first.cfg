SPECIFICATION Spec
CONSTANTS
  Keys = {k1}
  Runs = {e1}
  Killers = {g1}
  Plans = {2}
  KillArgs = {1}
  FirstSeq = 0
  MaxSeq = 1
  None = None
INVARIANTS DoneMeansStopped
