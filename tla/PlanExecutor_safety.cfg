SPECIFICATION Spec
CONSTANTS
  Plan <- GuidedPlan
  YoloMode = FALSE
  MaxParallelLanes = 2
  MaxReplans = 1
  EventBuffer = 1
  MaxToolCalls = 2
  MaxScriptRuns = 1
  MaxCostCents = 3
  Callers = {c1, c2}
  MaxRequests = 1
  MaxFaults = 1
SYMMETRY CallerSymmetry
INVARIANTS
  ProgressConsistent
  DispatchAllowed
  OverrunBounded
  CompleteIsHonest
PROPERTIES
  RunSettles
  ChargesKept
  RunAdvances
CHECK_DEADLOCK FALSE
