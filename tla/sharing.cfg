SPECIFICATION FairSpec
CONSTANTS
  None = None
  Client = {c1, c2}
  Path = {p1}
  MaxContent = 3
  Ops <- SharingBreak
INVARIANTS
  TypeOK
  CachedIsRegistered
  StaleIsExcused
PROPERTIES
  ImplementsCoherentCache
  CallsReturn
  EventuallyCoherent
