SPECIFICATION FairSpec
CONSTANTS
  Caller = {c1, c2}
  MaxOutput = 3
  PipeSize = 1
PROPERTY DiscardReturns
CHECK_DEADLOCK FALSE
