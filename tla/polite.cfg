SPECIFICATION PoliteSpec
CONSTANTS
  None = None
  Client = {c1, c2, c3}
  Path = {p1}
  MaxContent = 2
  Ops <- PoliteOps
SYMMETRY ClientSymmetry
CHECK_DEADLOCK FALSE
INVARIANTS
  OpenIsCurrent
  NothingMissed
