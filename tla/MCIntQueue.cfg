CONSTANTS
  Numbers <- MCNumbers
  Copies = 5
  MaxSpurious = 2
SPECIFICATION Spec
INVARIANT PrintsAllInOrder
PROPERTY MainReturns
