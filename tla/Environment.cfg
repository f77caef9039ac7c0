CONSTANTS
  A = A
  B = B
  Names <- MCNames
  Bodies <- MCBodies
  Files <- MCFiles
  Requests = {r1, r2}
  MaxEntries = 2
  MaxValueLen = 3
  MaxTotalBytes = 5
  MaxDotenvBytes = 7
  MaxExportBytes = 62
  Overhead = 3
  Keep = Keep
  NoOne = NoOne

SPECIFICATION Spec

INVARIANTS
  NoLostDefault
  NeverRevealed
  StoredFits
PROPERTIES
  SpawnFaithful
