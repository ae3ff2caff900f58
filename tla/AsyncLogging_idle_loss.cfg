\* A flush interval passes with nothing logged.
CONSTANTS
  KBufferSize = 3
  RollSize = 2
  MaxBacklog = 2
  MaxLines = 4
  MaxSecond = 0
  IdleTimeout = TRUE
  LogAnytime = FALSE
SPECIFICATION Spec
INVARIANT LogComplete
CHECK_DEADLOCK FALSE
