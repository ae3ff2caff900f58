\* Something is logged in every flush interval.
CONSTANTS
  KBufferSize = 3
  RollSize = 2
  MaxBacklog = 2
  MaxLines = 6
  MaxSecond = 1
  IdleTimeout = FALSE
  LogAnytime = FALSE
SPECIFICATION Spec
INVARIANTS LogComplete NoAssertionFails StopFlushes
CHECK_DEADLOCK FALSE
PROPERTIES LineReachesFile StopReturns
