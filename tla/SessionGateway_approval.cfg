SPECIFICATION Spec
CONSTANTS
  Requests = {r1, r2}
  Run = run
  Keys = {k1}
  NoKey = NoKey
  NoSession = NoSession
  Actions = {"approve", "skip", "edit_payload"}
  MaxTokens = 2
  MaxFaults = 2
  MaxRestarts = 1
SYMMETRY RequestSymmetry
CHECK_DEADLOCK FALSE
INVARIANTS TokenConsumedOnce AcceptedDecisionKept DecisionAccounted RetryReplayed
