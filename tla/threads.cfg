SPECIFICATION Spec
CONSTANTS
  NoThread = NoThread
  Thread = {t1, t2}
  MaxCalls = 6
CHECK_DEADLOCK FALSE
INVARIANTS
  TypeOK
  UploadIsAlone
  ModificationIsMarked
PROPERTIES
  OperationsReturn
