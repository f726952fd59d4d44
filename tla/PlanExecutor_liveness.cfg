SPECIFICATION FairSpec
CONSTANTS
  Plan <- SandboxPlan
  YoloMode = TRUE
  MaxParallelLanes = 2
  MaxReplans = 1
  EventBuffer = 1
  MaxToolCalls = 4
  MaxScriptRuns = 1
  MaxCostCents = 4
  Callers = {c1}
  MaxRequests = 1
  MaxFaults = 1
PROPERTIES
  RunEnds
INVARIANTS
  IInv
CHECK_DEADLOCK FALSE
