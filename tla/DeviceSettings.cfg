\* One command that sets the rotation, the time zone or both, two new sessions that
\* tell the time synchronisation, and one end of the process.
SPECIFICATION FairSpec
CONSTANTS
  Patched = {"rotate", "zone"}
  MaxCommands = 1
  MaxNotices = 2
  MaxRestarts = 1
INVARIANTS
  StoredIsInEffect
  MemoryIsOnDisk
  ZoneFilesSurvive
PROPERTIES
  OnlineSynchronizes
  WorkerStops
CHECK_DEADLOCK FALSE
