\* Two concurrent calls and the read loops under fairness, with environment edits
\* against restarts and deletes.  Names are not edited here (an overlapping rename
\* does upset EnvPersisted) and nothing shuts down: Manager.cfg has both.
CONSTANTS
  Id = {i1}
  Obj = {o1, o2}
  Caller = {c1, c2}
  Env = {e1, e2}
  Label = {l1}
  None = None
  Ops = {"create", "restart", "delete", "env"}
  MaxFaults = 0
  MaxBoots = 0
SPECIFICATION FairSpec
INVARIANTS
  EnvPersisted
PROPERTIES
  IsALifecycle
  CallsReturn
CHECK_DEADLOCK FALSE
