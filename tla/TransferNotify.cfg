SPECIFICATION Spec
CONSTANTS
  Calls = {c1, c2}
INVARIANT
  NotifyEndsBoth
CHECK_DEADLOCK FALSE
