\* Liveness of event reports: one event and one death.  The deadline has passed
\* from the start, so that expiry races every other step.
SPECIFICATION EventFairSpec
CONSTANTS
  MaxEvents = 1
  MaxPresses = 1
  MaxRecordings = 1
  MaxSegments = 0
  MaxTime = 0
  PressWindow = 0
  RingCap = 0
  MaxRestarts = 1
PROPERTIES
  EventsSettle
CHECK_DEADLOCK FALSE
