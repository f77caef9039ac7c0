\* Every operation, two concurrent calls, one session, two incarnations of it and
\* a store write that may fail.
CONSTANTS
  Id = {i1}
  Obj = {o1, o2}
  Caller = {c1, c2}
  Env = {e1}
  Label = {l1}
  None = None
  Ops = {"create", "restart", "delete", "label", "env", "shutdown"}
  MaxFaults = 1
  MaxBoots = 1
SPECIFICATION Spec
SYMMETRY Symmetry
INVARIANTS
  ReservationExclusive
  NoOrphanShell
  NoShellAfterShutdown
  QuietAfterDelete
PROPERTIES
  IsALifecycle
CHECK_DEADLOCK FALSE
