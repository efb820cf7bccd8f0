\* One network, so that a request may repeat the ssid with another password.  Beside
\* the attempt main may make with the saved WiFi, two connections, two long presses or one
\* of each, and one end of the process before, between or after them.
SPECIFICATION FairSpec
CONSTANTS
  Network = {n1}
  NoNetwork = NoNetwork
  MaxEvents = 2
  MaxRestarts = 1
INVARIANTS
  ResetHolds
  NeverStranded
  SavedWasReached
PROPERTIES
  RequestAnswered
  StopReturns
CHECK_DEADLOCK FALSE
