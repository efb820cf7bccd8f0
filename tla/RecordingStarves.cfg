\* One recording whose finalization keeps failing, and one snapshot.
SPECIFICATION FairSpec
CONSTANTS
  MaxEvents = 0
  MaxPresses = 1
  MaxRecordings = 1
  MaxSegments = 0
  MaxTime = 0
  PressWindow = 0
  RingCap = 0
  MaxRestarts = 0
PROPERTIES
  SnapshotServed
CHECK_DEADLOCK FALSE
