SPECIFICATION Spec
CONSTANTS
  Runs = {r1, r2, r3}
  NoRun = NoRun
  MaxStops = 1
  MaxFaults = 0
INVARIANT
  SingleFlight
CHECK_DEADLOCK FALSE
