\* Up to three commands, a stop() from outside, two signals and one failure: four of
\* them together, where the stop() counts for two.
SPECIFICATION FairSpec
CONSTANTS
  Quality = {"720p", "1080p"}
  StartQuality = {"1080p"}
  MaxCommands = 3
  MaxStops = 1
  MaxSignals = 2
  MaxFaults = 1
  MaxEvents = 4
INVARIANTS
  AnsweredOnce
  BranchFollowsQuality
  CandidatesReachPeer
  HungUpIsDown
PROPERTIES
  SwitchAnswered
  StopReturns
CHECK_DEADLOCK FALSE
