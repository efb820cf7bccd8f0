\* The end of recordings: two of them with two segments each, one death, no ring.
SPECIFICATION RecoverySpec
CONSTANTS
  MaxEvents = 0
  MaxPresses = 1
  MaxRecordings = 2
  MaxSegments = 2
  MaxTime = 0
  PressWindow = 0
  RingCap = 0
  MaxRestarts = 1
INVARIANTS
  FinalizedOnce
  WholeUnlessFailed
PROPERTIES
  SubmittedEnds
CHECK_DEADLOCK FALSE
