SPECIFICATION Spec
CONSTANTS
  Signals = {g1, g2, g3}
  Loops = {l1, l2}
  NoLoop = NoLoop
  ChanCap = 2
  PendCap = 2
  ReplayLimit = 2
  MaxOther = 1
  MaxRestarts = 1
INVARIANTS
  HeldOnce
  HeldChannelOpen
  ReplayComplete
PROPERTIES
  LostOnlyKnownWays
  RegistrationHeld
CHECK_DEADLOCK FALSE
