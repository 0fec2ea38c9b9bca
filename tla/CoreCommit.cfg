SPECIFICATION FairSpec
CONSTANTS
  h1 = h1
  h2 = h2
  k1 = k1
  k2 = k2
  b1 = b1
  c1 = c1
  c2 = c2
  p1 = p1
  p2 = p2
  None = None
  Handles = {h1, h2}
  Bodies = {b1}
  Keys = {k1}
  Contexts = {c1}
  Policies = {p1}
  MaxStateVersion = 2
  MaxTime = 1
INVARIANTS
  EventTimesOrdered
  PlannedOnBasis
  PolicyVersionsCounted

  
  
