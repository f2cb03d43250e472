SPECIFICATION FairSpec
CONSTANTS
  Rereg = {d1, d2}
  Refreshers = {r1, r2}
  MaxRetry = 2
INVARIANTS
  TypeOK
  
  
PROPERTIES
  
  StopStopsAll
CHECK_DEADLOCK FALSE
