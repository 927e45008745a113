SPECIFICATION Spec
CONSTANTS
  Nobody = Nobody
  Client = {c1, c2}
  MaxCalls = 2
CHECK_DEADLOCK FALSE
INVARIANTS
  TypeOK
  QueuesAreServed
PROPERTIES
  PushedIsRead
  BrokenIsForgotten
  CallbacksReturn
  ImplementsChannel
