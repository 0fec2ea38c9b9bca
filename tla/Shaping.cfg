SPECIFICATION ShapingSpec
CONSTANTS
  b1 = b1
  b2 = b2
  scope = scope
  product = product
  technical = technical
  Null = Null
  Kinds <- MCKinds
  Scope = scope
  Baselines <- MCBaselines
  Modes <- MCModes
  MaxRev = 3
SYMMETRY MCSymmetry
CHECK_DEADLOCK FALSE
INVARIANTS
  ReadersAccept
  ImplementationSettled
  AdviceBasisCurrent
  NotStranded
PROPERTIES
  StaleConsumedWhole
