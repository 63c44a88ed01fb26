CONSTANTS
  Length = 4
  x = x
  y = y
  Buffer = {b1, b2, b3}
  Float = {x, y}
  Value <- MCValue
  NoBuffer = NoBuffer
  Broken = Broken
  Cell = {c1, c2, c3, c4}
  nullptr = nullptr
  File = {f, g}
  Text <- MCText
  Level = {0, 2}
  Module = {Admin, Finance}
  HandWritten <- MCHandWritten
  Absent = Absent
  Unreadable = Unreadable
  Unknown = Unknown
  Limit = 5
  Times = 3
  Seconds = 2
  MaxNow = 8
SPECIFICATION MCSpec
SYMMETRY MCSymmetry
INVARIANT DoneMeansSent
PROPERTY BuffersAreValues
PROPERTY LeaksByMoveOnly
PROPERTY RoundTrip
INVARIANT FinalCount
