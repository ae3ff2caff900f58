\* Three timers, one-shot or repeating, late by up to a millisecond, cancelled
\* at any time.
CONSTANTS
  N = 3
  MaxDelay = 2
  MaxInterval = 1
  MaxLate = 1
  MaxQueue = 1
SPECIFICATION Spec
INVARIANTS NoForgottenTimer UseAfterFreeOnlyByStray NoLeak
PROPERTY TimerRuns
CHECK_DEADLOCK FALSE
