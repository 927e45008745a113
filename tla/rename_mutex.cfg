SPECIFICATION Spec
CONSTANTS
  None = None
  Client = {c1, c2}
  Path = {p1, p2}
  MaxContent = 2
  Ops <- Renaming
CHECK_DEADLOCK FALSE
INVARIANT
  OpenIsUsable
