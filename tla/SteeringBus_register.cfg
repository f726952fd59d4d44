SPECIFICATION Spec
CONSTANTS
  Signals = {g1, g2, g3}
  Loops = {l1}
  NoLoop = NoLoop
  ChanCap = 1
  PendCap = 1
  ReplayLimit = 2
  MaxOther = 0
  MaxRestarts = 0
PROPERTY
  RegisterReturns
CHECK_DEADLOCK FALSE
