SPECIFICATION FairSpec
CONSTANTS
  Subs = {s1}
  Refreshers = {g1, g2, g3}
  Notifies = {n1, n2}
INVARIANTS
  TypeOK
  ActiveIsRefreshed
PROPERTIES
  StopEndsRefresh
CHECK_DEADLOCK FALSE
