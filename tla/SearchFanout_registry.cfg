SPECIFICATION Spec
CONSTANTS
  Searches = {s1, s2}
  Providers = {gated, open}
  Gated = {gated}
  Deferring = {gated}
  NoEntry = NoEntry
  GlobalCap = 2
  MinCap = 2
  MaxCap = 3
  Interval = 1
  MaxWait = 1
  MaxCooldown = 2
CHECK_DEADLOCK FALSE
INVARIANTS GatedSingleFlight ReturnedSettled ReportedOnce
PROPERTIES CooldownNotShortened SearchReturns
