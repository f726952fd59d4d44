SPECIFICATION Spec
CONSTANTS
  Streams = {s1, s2}
  Cancels = {c1}
  ChanCap = 1
  MaxProgress = 1
  MaxFaults = 1
INVARIANTS
  ClosedHasTerminal
  RecoveryFaithful
  RecordSettled
PROPERTIES
  EndedStaysEnded
  OneOutcome
  StreamsEnd
  CancelReleases
CHECK_DEADLOCK FALSE
