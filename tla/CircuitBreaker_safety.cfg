SPECIFICATION FairSpec
CONSTANTS
  Callers = {c1, c2, c3}
  MaxFailures = 2
  SuccessThreshold = 2
  MaxRequests = 7
INVARIANTS
  CountersFitState
  ErrorsAreCounted
PROPERTIES
  OpenHolds
  OpenIsProbed
