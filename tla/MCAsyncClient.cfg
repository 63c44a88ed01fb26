CONSTANTS
  NumEndpoints = 3
  ConnectTimeout = 6
  ReadTimeout = 3
  HeartbeatInterval = 1
  MaxLines = 2
  UserMayStop = TRUE
  SystemCallsMayFail = TRUE
SPECIFICATION Spec
INVARIANT OneStepPerActor
INVARIANT WaitsAreGuarded
INVARIANT StopIsFinal
PROPERTY NoEarlyTimeout
PROPERTY ImplementsLifecycle
PROPERTY SilentPeerTimesOut
PROPERTY StopEndsRun
