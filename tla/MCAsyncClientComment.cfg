CONSTANTS
  NumEndpoints = 2
  ConnectTimeout = 6
  ReadTimeout = 3
  HeartbeatInterval = 1
  MaxLines = 2
  UserMayStop = TRUE
  SystemCallsMayFail = TRUE
SPECIFICATION Spec
INVARIANT ClosedMeansTimedOut
