CONSTANTS
  s1 = s1
  s2 = s2
  None = None
  Servers = {s1, s2}
  Driven = {s1}
  RecoveryLimit = 2
  LeaseTtl = 1
  MaxRevision = 2
  MaxTime = 1
SYMMETRY IdleSymmetry
SPECIFICATION Spec
INVARIANTS
  RowsCoherent
  LeaseMatchesRuntime
  TerminatedByItsEnd
  RecoveredBeforeServing
