\* Bytes of one bit, of which 0 and 1 double as '\r' and '\n'; integers of one
\* and two bytes; a vector that starts with one byte of room and can grow.
SPECIFICATION Spec
CONSTANTS
  Base = 2
  CR = 0
  LF = 1
  kCheapPrepend = 2
  kInitialSize = 1
  ExtraSize = 2
  Widths = {1, 2}
  MaxLen = 3
  MaxSize = 6
  MaxSwap = 3
INVARIANTS
  SpaceIsMade
  ActsAsByteQueue
  IntegersReadBack
