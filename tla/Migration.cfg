SPECIFICATION Spec
CONSTANTS
  personal = personal
  other = other
  shared = shared
  p1 = p1
  p2 = p2
  Connections = {personal, other, shared}
  Projects = {p1, p2}
  Scope <- Scopes
  User = User
  Removers = {r1, r2}
  None = None
INVARIANTS
  ServiceKept
  
PROPERTIES
  InitSettles
