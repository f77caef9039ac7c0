\* One browser on a session that is restarted or deleted; a short queue and a
\* short ring buffer.  Browsers do not affect each other, so one is enough.
CONSTANTS
  Client = {c1}
  MaxLife = 2
  MaxChunk = 3
  BufSize = 2
  QueueSize = 2
SPECIFICATION FairSpec
INVARIANTS
  StreamComplete
  OneSession
  NoneForgotten
PROPERTIES
  IsAWatch
  ClosedIsTornDown
CHECK_DEADLOCK FALSE
