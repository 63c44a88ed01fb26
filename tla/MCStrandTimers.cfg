CONSTANTS
  Thread = {t1, t2}
  NoThread = NoThread
  MaxTime = 5
SPECIFICATION Spec
SYMMETRY Symmetry
INVARIANT NoLostIncrement
INVARIANT OneLinkPerChain
INVARIANT NoDrift
