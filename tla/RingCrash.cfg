\* One event with two presses, a clock that reaches its deadline, one death.
SPECIFICATION Spec
CONSTANTS
  MaxEvents = 1
  MaxPresses = 2
  MaxRecordings = 1
  MaxSegments = 0
  MaxTime = 1
  PressWindow = 1
  RingCap = 1
  MaxRestarts = 1
INVARIANTS
  OneReportPerItem
  NothingForgotten
  AcceptedInThisLife
PROPERTIES
  EventReporting
CHECK_DEADLOCK FALSE
