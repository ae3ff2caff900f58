\* The owner stops the thread at any time once loop() has begun; the owner,
\* another thread and the callbacks use the loop and may quit it too.
CONSTANTS
  Threads = {owner, t1}
  LoopThread = loop
  Owner = owner
  MaxTasks = 2
  EventfdMax = 1
  QueueBeforeLoop = FALSE
  StopEarly = FALSE
SPECIFICATION LifeSpec
PROPERTIES StartReturns StopReturns
CHECK_DEADLOCK FALSE
