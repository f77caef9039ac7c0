CONSTANTS
  root = root
  dir = dir
  dest = dest
  link = link
  other = other
  inside = inside
  r1 = r1
  r2 = r2
  r3 = r3
  s1 = s1
  s2 = s2
  s3 = s3
  Paths <- MCPaths
  Parent <- MCParent
  Depth = 3
  Root = root
  Dest = dest
  Target <- MCTarget
  Stub <- MCStub
  Requests = {r1, r2, r3}
  Movable <- MCMovable
  Kinds = {"local", "posix", "plain"}

SPECIFICATION FilesSpec

INVARIANTS
  NoPartialUpload
  KeepsDestination

CHECK_DEADLOCK FALSE
