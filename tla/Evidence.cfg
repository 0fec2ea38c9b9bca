SPECIFICATION Spec
CONSTANTS
    Agents = {a1, a2}
    Captures = {p1, p2}
    Intents = {i1, i2}
    Handles = {h1, h2}
    ToolCalls = {t1}
    IntentTtl = 1
    StagingTtl = 1
    MaxTime = 1
    MaxScope = 2
    MaxRuns = 2
    MaxLost = 1
    None = None
SYMMETRY Symmetry
CHECK_DEADLOCK FALSE
INVARIANTS OneSourceOneIntent ProducersGrounded
