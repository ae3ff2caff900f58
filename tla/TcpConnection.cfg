\* Every use of a connection by the loop thread and another one.
CONSTANTS
  Threads = {t1}
  MaxUnits = 2
  MaxLen = 2
  MaxQueue = 1
  SndBuf = 1
  HighWaterMark = 2
  Used = {"send", "shutdown", "forceClose", "stopRead", "startRead"}
SPECIFICATION Spec
INVARIANTS
  AssertsHold
  WritingIffOutput
  ByteStream
  HalfCloseFlushes
  ClosedOnce
  ClosedChannelUnregistered
CHECK_DEADLOCK FALSE
