\* Two publishers, two clients with two messages of publishers each, one stop.
SPECIFICATION FairSpec
CONSTANTS
  Publisher = {p1, p2}
  Subscriptions = 2
  MaxMessages = 2
  MaxSessions = 2
  MaxStops = 1
INVARIANTS
  ToldOfOwnMessage
  AckReachesItsWaiter
  OnlineMeansReady
PROPERTIES
  StopReturns
CHECK_DEADLOCK FALSE
