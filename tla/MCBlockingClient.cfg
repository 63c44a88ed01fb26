CONSTANTS
  Timeouts = {0, 1, 3}
  CallTimeout = 3
  MaxLines = 2
  MaxOther = 2
SPECIFICATION MCSpec
INVARIANT CallsAreGuarded
INVARIANT WriteHasConnection
PROPERTY ClosedSocketIsUseless
PROPERTY NoEarlyTimeout
PROPERTY CallsEnd
PROPERTY MainEnds
