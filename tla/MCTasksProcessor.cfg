CONSTANTS
  Main = main
  Worker = {main, other}
  Calls = 5
  StopsAt = 5
  Lambda = 6
  Throws <- MCThrows
  Task <- MCTask
  Delays = {0, 1}
  NoTask = NoTask
  MaxTime = 1
SPECIFICATION MCSpec
INVARIANT DelayedInOrder
INVARIANT LeavesTheRest
PROPERTY EveryTaskStarts
PROPERTY MainEnds
