\* Each part with all its faults; the bounds are those of its own module.
CONSTANTS
  MaxFrames = 4
  CameraRestarts = 1
  PoolSlots = 2
  MaxRecordings = 2
  MaxFragments = 2
  MaxFaults = 1
  MaxPresses = 3
  ChimeBlocks = 2
  RemoteBlocks = 1
  Window = 2
  MaxRings = 2
  MaxTime = 4
SPECIFICATION MediaSpec
INVARIANTS
  CopiesAreWhole
  SlotsAreAccounted
  AudioEndsAtEos
  SegmentsAreTold
  SnapshotFitsRing
PROPERTIES
  PressIsHeard
  SelectionIsAnswered
CHECK_DEADLOCK FALSE
