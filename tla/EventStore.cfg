\* Arbitrary callers: two events of up to three presses (and a first press that
\* finds the recording of the other), one recording of two segments.
SPECIFICATION StoreSpec
CONSTANTS
  MaxEvents = 2
  MaxPresses = 3
  MaxRecordings = 1
  MaxSegments = 2
  MaxTime = 1
  PressWindow = 1
  RingCap = 1
INVARIANTS
  OneActiveRing
  PressRowsMatchCount
PROPERTIES
  HistoryIsKept
