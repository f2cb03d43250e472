SPECIFICATION Spec
CONSTANTS
  Threads = {t1, t2}
  Ops <- AllOps
  Voicemail = FALSE
  MaxGen = 3
SYMMETRY ThreadSymmetry
INVARIANTS
  NoTransportLeak
CHECK_DEADLOCK FALSE
