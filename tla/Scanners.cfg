SPECIFICATION ScannersSpec
CONSTANTS
  Fragments <- MCFragments
  MaxRead = 1
  MaxOutput = 5
  RingSize = 10
  MaxParams = 4
  MaxTitle = 4
INVARIANTS
  TitleFollows
  AttachRestores
  ReplayIsInert
  SeparatorResets
CHECK_DEADLOCK FALSE
