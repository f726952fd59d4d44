SPECIFICATION Spec
CONSTANTS
  Runs = {r1, r2, r3}
  NoRun = NoRun
  MaxStops = 2
  MaxFaults = 1
SYMMETRY RunSymmetry
INVARIANTS
  CancelsIsLive
  RegisteredUnlessStopped
  SettlesWhenQuiet
CHECK_DEADLOCK FALSE
