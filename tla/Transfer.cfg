SPECIFICATION FairSpec
CONSTANTS
  Calls = {c1, c2}
INVARIANTS
  TypeOK
  NoHandlerOfEnded
PROPERTIES
  HandlerEndsCalls
CHECK_DEADLOCK FALSE
