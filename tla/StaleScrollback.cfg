\* A flush is saving while the shell ends.
CONSTANTS
  MaxLife = 3
  MaxChunk = 4
SPECIFICATION Spec
INVARIANTS
  RestartSeesFinal
CHECK_DEADLOCK FALSE
