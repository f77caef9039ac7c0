SPECIFICATION Spec
SYMMETRY Symmetry
CONSTANTS
  Ids = {u1, u2, u3}
  Names = {n1, n2}
  Tokens = {t1, t2}
  Sessions = {s1}
  Requests = {r1, r2}
  Ttl = 1
  MaxCrashes = 1
  NoUser = NoUser
INVARIANTS
  AdminRemains
  DeletedIsClean
PROPERTIES
  FirstAdminOnce
  TokenStaysDead
