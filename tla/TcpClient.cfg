\* Two clients of one loop on two descriptors; the three races that the code
\* does not handle are left out.
SPECIFICATION Spec
CONSTANTS
  Clients = {c1, c2}
  Fds = {1, 2}
  SyncConnect = FALSE
  AnswerRace = FALSE
  DisconnectRace = FALSE
INVARIANTS
  SocketOwned
  TimerFollowsClient
  OnlyRealConnections
PROPERTY
  KeepsTrying
