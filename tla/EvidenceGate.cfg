SPECIFICATION ProvenanceSpec
CONSTANTS
    Agents = {a1}
    Artifacts = {h1, h2}
    Actions = {q1}
    Targets = {c1, c2}
    Required = {c1}
    MaxScope = 2
    MaxRuns = 3
    MaxDamaged = 1
    Absent = Absent
SYMMETRY Symmetry
CHECK_DEADLOCK FALSE
INVARIANTS ReuseGrounded 
 
