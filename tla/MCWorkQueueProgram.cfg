CONSTANTS
  push1 = push1
  push2 = push2
  pop_sync1 = pop_sync1
  pop_sync2 = pop_sync2
  Main = main
  some_task = some_task
  NoTask = NoTask
  NoThread = NoThread
  Task = {some_task}
  Pusher <- MCPusher
  Popper <- MCPopper
  Thread <- MCThread
  tests_tasks_count = 2
  MaxPushes = 5
  MaxSpurious = 2
SPECIFICATION ProgramSpec
INVARIANT NeverAborts
PROPERTY MainReturns
