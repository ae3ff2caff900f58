\* Three workers, of which two may wait for futures, and a thread outside.
\* After its destructor the pool is at rest.
SPECIFICATION Spec
CONSTANTS
  Workers = {w1, w2, w3}
  Threads = {t1}
  MaxTasks = 4
  MaxBlocked = 2
CHECK_DEADLOCK FALSE
INVARIANT
  EveryTaskOnce
PROPERTY
  PoolProgresses
