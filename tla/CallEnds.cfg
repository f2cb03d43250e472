SPECIFICATION FairSpec
CONSTANTS
  Ops <- EndingOps
  EarlyMedia = TRUE
  SessionTimer = FALSE
  QueueCap = 2
  MaxHolds = 1
PROPERTIES
  HangUpEnds
  EndedIsForgotten
CHECK_DEADLOCK FALSE
