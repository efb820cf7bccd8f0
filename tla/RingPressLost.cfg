\* The smallest instance in which a press is marked reported and never arrives.
SPECIFICATION Spec
CONSTANTS
  MaxEvents = 1
  MaxPresses = 2
  MaxRecordings = 1
  MaxSegments = 0
  MaxTime = 1
  PressWindow = 1
  RingCap = 1
  MaxRestarts = 0
INVARIANTS
  ReportedPressArrives
CHECK_DEADLOCK FALSE
