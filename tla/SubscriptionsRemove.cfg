SPECIFICATION Spec
CONSTANTS
  Subs = {s1}
  Refreshers = {g1, g2, g3}
  Notifies = {n1, n2}
INVARIANTS
  RemovedIsNotRefreshed
CHECK_DEADLOCK FALSE
