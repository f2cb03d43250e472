SPECIFICATION Spec
CONSTANTS
  Ops <- AllOps
  EarlyMedia = TRUE
  SessionTimer = TRUE
  QueueCap = 2
  MaxHolds = 2
INVARIANTS
  TypeOK
  
  NoSendOnClosed
  
PROPERTIES
  ImplementsCallService
CHECK_DEADLOCK FALSE
