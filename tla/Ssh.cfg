SPECIFICATION FairSpec
CONSTANTS
  Caller = {c1, c2}
  MaxOutput = 3
  PipeSize = 1
INVARIANTS
  FailedStartHoldsNothing
  NoneReadsARemovedFile
PROPERTIES
  EndedGivesBack
  IsABackend
CHECK_DEADLOCK FALSE
