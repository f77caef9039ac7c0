\* A Delete and a Restart of one session at the same time.
CONSTANTS
  Id = {i1}
  Obj = {o1, o2}
  Caller = {c1, c2}
  Env = {e1}
  Label = {l1}
  None = None
  Ops = {"create", "restart", "delete"}
  MaxFaults = 0
  MaxBoots = 0
SPECIFICATION Spec
INVARIANTS
  LiveSessionHasRow
CHECK_DEADLOCK FALSE
