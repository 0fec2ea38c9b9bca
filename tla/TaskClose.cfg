SPECIFICATION Spec
CONSTANTS
  t1 = t1
  t2 = t2
  x1 = x1
  x2 = x2
  a1 = a1
  a2 = a2
  doc = doc
  key = key
  none = none
  None = None
  NoTarget = none
  Policies <- OnlyLight
  Modes = {"direct", "work", "advisor"}
  Requests = {0}
  Intents = {"approval", "acceptance", "cancellation"}
  Tasks = {t1}
  Tickets = {x1}
  Actions = {a1, a2}
  Targets = {none, doc}
  MaxScope = 2
  MaxBasis = 3
  MaxTime = 0
SYMMETRY ActionSymmetry
INVARIANTS
  CompletedIsAccepted
  
  CancelledIsAuthorized
