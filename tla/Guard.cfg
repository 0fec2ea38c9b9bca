SPECIFICATION Spec
CONSTANTS
  None = None
  i1 = i1
  t1 = t1
  t2 = t2
  s1 = s1
  a = a
  b = b
  k1 = k1
  h1 = h1
  h2 = h2
  h3 = h3
  Invocations = {i1}
  Sessions = {s1}
  Turns = {t1, t2}
  SessionOf <- MCSessionOf
  TurnOf <- MCTurnOf
  EffectOf <- MCEffectOf
  TargetsOf <- MCTargetsOf
  Paths = {a, b}
  UserPaths = {b}
  Tickets = {k1}
  ScopeOf <- MCScopeOf
  Hooks = {h1, h2, h3}
  TerminalizationLimit = 1
  MaxTime = 1
  ClockMayStepBack = TRUE
  SetupMayRun = TRUE
SYMMETRY HookSymmetry
INVARIANTS DecisionStands BaselineBeforeRun WritesAccounted ClosedByItsBoundary
