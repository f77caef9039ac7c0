\* One browser attaches while its session stops and is restarted.
CONSTANTS
  Client = {c1}
  MaxLife = 2
  MaxChunk = 2
  BufSize = 2
  QueueSize = 2
SPECIFICATION Spec
INVARIANTS
  RestartMovesClients
CHECK_DEADLOCK FALSE
