SPECIFICATION Spec
CONSTANTS
  Path <- Paths
  MaxNew = 1
CHECK_DEADLOCK FALSE
INVARIANTS
  TypeOK
  CleanIsServers
  DirtyHasItsFile
  DirtyCanBeStored
  SeenExists
