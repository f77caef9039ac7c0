SPECIFICATION ScannersSpec
CONSTANTS
  Fragments <- MCFragments
  MaxRead = 1
  MaxOutput = 5
  RingSize = 10
  MaxParams = 4
  MaxTitle = 4
INVARIANT QueriesRemoved
CHECK_DEADLOCK FALSE
