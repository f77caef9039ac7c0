\* One request and one key exchange of a host record.
CONSTANTS
  Host = {h1}
  Req = {r1}
  Editor = {d1}
  Entry = {x1, x2}
  None = None
  MaxPerUser = 1
SPECIFICATION Spec
INVARIANTS
  ConnectionIsCurrent
CHECK_DEADLOCK FALSE
