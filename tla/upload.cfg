SPECIFICATION Spec
CONSTANTS
  Reader = {r1}
  Chunks = 2
  MaxTries = 2
  MaxVersion = 3
  MaxFaults = 2
CHECK_DEADLOCK FALSE
INVARIANTS
  TypeOK
  ChangeIsAnnounced
  ModificationIsKept
  FileIsOneVersion
PROPERTIES
  CloseReturns
  StaleCopyIsDropped
