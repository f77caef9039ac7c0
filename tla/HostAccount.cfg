CONSTANTS
  Here = a1
  There = a2
  Me = u1
  MeWithBlank = u1blank
  Addresses = {a1, a2}
  Users <- MCUsers
  Trim <- MCTrim
  Forms <- MCForms
  HostKeys = {f1, f2}
  Requests = {r1, r2}
  Generated = {k1, k2}
  MaxRekeys = 1
  Unset = Unset

SPECIFICATION Spec
SYMMETRY Symmetry

INVARIANT
  ExchangedAccount

CHECK_DEADLOCK FALSE
