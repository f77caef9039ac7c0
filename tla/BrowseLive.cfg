\* Two requests and one change on one host, under fairness.
CONSTANTS
  Host = {h1}
  Req = {r1, r2}
  Editor = {d1}
  Entry = {x1, x2}
  None = None
  MaxPerUser = 1
SPECIFICATION FairSpec
PROPERTIES
  RequestsReturn
CHECK_DEADLOCK FALSE
