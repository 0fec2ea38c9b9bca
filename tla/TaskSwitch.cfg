SPECIFICATION Spec
CONSTANTS
  t1 = t1
  t2 = t2
  x1 = x1
  x2 = x2
  a1 = a1
  a2 = a2
  doc = doc
  key = key
  none = none
  None = None
  NoTarget = none
  Policies <- RisingPolicies
  Modes = {"direct", "work"}
  Requests = {0}
  Intents = {"cancellation"}
  Tasks = {t1, t2}
  Tickets = {x1}
  Actions = {}
  Targets = {none, doc}
  MaxScope = 1
  MaxBasis = 1
  MaxTime = 0
INVARIANTS
  ActiveTicketsCurrent
  TicketControlCurrent
PROPERTIES
  MarksOnlySettled
