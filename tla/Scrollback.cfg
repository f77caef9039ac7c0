\* Three shells of one session, four chunks of output, every writer of the file.
CONSTANTS
  MaxLife = 3
  MaxChunk = 4
SPECIFICATION Spec
INVARIANTS
  StoppedFileIsFinal
  NoOrphanOfTheLoop
  ShutdownKeepsOutput
CHECK_DEADLOCK FALSE
