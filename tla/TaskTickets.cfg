SPECIFICATION Spec
CONSTANTS
  t1 = t1
  t2 = t2
  x1 = x1
  x2 = x2
  a1 = a1
  a2 = a2
  doc = doc
  key = key
  none = none
  None = None
  NoTarget = none
  Policies <- TicketPolicies
  Modes = {"direct"}
  Requests = {0}
  Intents = {"approval"}
  Tasks = {t1}
  Tickets = {x1, x2}
  Actions = {a1}
  Targets = {none, key}
  MaxScope = 2
  MaxBasis = 2
  MaxTime = 1
SYMMETRY TicketSymmetry
PROPERTIES
  RunsAuthorized
