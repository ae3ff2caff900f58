\* Three clients, up to two workers, two descriptors; the application keeps
\* its connections and destroys the server at any time.
CONSTANTS
  Conns = {c1, c2, c3}
  MaxThreads = 2
  MaxFds = 2
  AppKeeps = TRUE
SPECIFICATION Spec
INVARIANTS InitBeforeConnections FdsOwned
PROPERTY Served
CHECK_DEADLOCK FALSE
