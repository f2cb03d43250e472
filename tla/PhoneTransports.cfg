SPECIFICATION FairSpec
CONSTANTS
  Threads = {t1, t2}
  Ops <- SetupOps
  Voicemail = FALSE
  MaxGen = 3
INVARIANTS
  NoTransportLeak
PROPERTIES
  CallsReturn
  DetachedIsClosed
CHECK_DEADLOCK FALSE
