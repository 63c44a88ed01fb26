CONSTANTS
  t1 = t1
  t2 = t2
  t3 = t3
  t4 = t4
  a = a
  b = b
  Thread = {t1, t2, t3, t4}
  Task = {a, b}
  NoTask = NoTask
  NoThread = NoThread
  MaxPushes = 4
SPECIFICATION Spec
SYMMETRY Symmetry
INVARIANT TypeOK
INVARIANT FifoExactlyOnce
INVARIANT FrontIsRemoved
INVARIANT NoLostWakeup
PROPERTY Linearizable
