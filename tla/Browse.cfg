\* Two requests and one change on two hosts, room for one connection.
CONSTANTS
  Host = {h1, h2}
  Req = {r1, r2}
  Editor = {d1}
  Entry = {x1, x2, x3}
  None = None
  MaxPerUser = 1
SPECIFICATION Spec
SYMMETRY Symmetry
INVARIANTS
  NoLeakedConnection
  WithinCap
  CountsExact
  AbandonedDialCancelled
CHECK_DEADLOCK FALSE
