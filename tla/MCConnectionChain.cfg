CONSTANTS
  c1 = c1
  c2 = c2
  Connection <- MCConnection
  Task <- MCTask
  Worker = {w1, w2}
  AuthSize = 1
  Delays = {}
  NoTask = NoTask
  MaxTime = 0
SPECIFICATION ChainSpec
INVARIANT PendingIsOwned
INVARIANT StoppedByOk
PROPERTY ConnectionsClose
CHECK_DEADLOCK FALSE
