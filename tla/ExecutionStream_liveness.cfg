SPECIFICATION FairSpec
CONSTANTS
  Runs = {r1, r2}
  NoRun = NoRun
  MaxStops = 1
  MaxFaults = 0
PROPERTIES
  StreamReturns
  CancelledRunLeaves
  StreamOutlivesRun
CHECK_DEADLOCK FALSE
