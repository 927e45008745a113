SPECIFICATION MCSpec
CONSTANTS
  None = None
  Client = {c1, c2}
  Path = {p1, p2}
  MaxContent = 2
  MaxCalls = 4
  Ops <- Namespace
SYMMETRY Symmetry
CHECK_DEADLOCK FALSE
INVARIANTS
  UnflushedIsOpen
  CallOwnsEntry
PROPERTIES
  UnflushedSurvives
