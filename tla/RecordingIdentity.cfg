\* Which recording a ring gets: one ring pressed twice, one recording of its own
\* and one of the recorder.  No segment is ever closed.
SPECIFICATION Spec
CONSTANTS
  MaxEvents = 1
  MaxPresses = 2
  MaxRecordings = 2
  MaxSegments = 0
  MaxTime = 1
  PressWindow = 0
  RingCap = 1
  MaxRestarts = 0
INVARIANTS
  PressKeepsRecording
  CurrentIsLive
CHECK_DEADLOCK FALSE
