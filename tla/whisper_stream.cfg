SPECIFICATION Spec
CONSTANTS
  Window = 2
  MaxConnections = 2
  MaxSegments = 3
INVARIANT FinalsArePrefix
PROPERTIES FinalsAreDelivered NoFinalAfterEnd
CHECK_DEADLOCK FALSE
