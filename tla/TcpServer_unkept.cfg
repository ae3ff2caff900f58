\* The application keeps no reference, as in the README and the examples.
CONSTANTS
  Conns = {c1, c2, c3}
  MaxThreads = 2
  MaxFds = 2
  AppKeeps = FALSE
SPECIFICATION Spec
INVARIANT StaysUntilPeerCloses
CHECK_DEADLOCK FALSE
