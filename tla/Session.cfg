SPECIFICATION Spec
CONSTANTS
  Runtimes = {r1, r2}
  Projects = {p1, p2}
  Hosts = {h1}
  Threads = {t1}
  Policies = {a, b}
  MaxRevision = 2
  None = None
SYMMETRY Perms
CONSTRAINT FewAnchors
INVARIANTS
  ReplayCompletes

  
