\* Two other threads and three tasks, an eventfd that is full after one write.
CONSTANTS
  Threads = {t1, t2}
  LoopThread = loop
  MaxTasks = 3
  EventfdMax = 1
  QueueBeforeLoop = FALSE
SPECIFICATION Spec
INVARIANTS NoLostWakeup Fifo
PROPERTIES ImplementsExecutor QuitStopsLoop
