SPECIFICATION Spec
CONSTANTS
  Ops <- HoldOps
  EarlyMedia = FALSE
  SessionTimer = FALSE
  QueueCap = 4
  MaxHolds = 1
INVARIANT
  HoldArmsLongTimeout
CHECK_DEADLOCK FALSE
