\* Data and a half close, from the loop thread and another one; the peer may
\* close and reset.
CONSTANTS
  Threads = {t1}
  MaxUnits = 3
  MaxLen = 2
  MaxQueue = 1
  SndBuf = 1
  HighWaterMark = 2
  Used = {"send", "shutdown"}
SPECIFICATION Spec
INVARIANT ByteStream
PROPERTIES ShutdownCompletes OutputDrains
CHECK_DEADLOCK FALSE
