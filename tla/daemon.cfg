CONSTANTS
  Conns = {c1, c2, c3}
  Pids = {p1, p2}
  None = None
SPECIFICATION Spec
INVARIANT TypeOK
PROPERTY NoOrphans
CHECK_DEADLOCK FALSE
