SPECIFICATION Spec
CONSTANTS
  Threads = {t1, t2}
  Ops <- AllOps
  Voicemail = TRUE
  MaxGen = 3
SYMMETRY ThreadSymmetry
INVARIANTS
  TypeOK
  ReadyHasTransport
  ServicesMatchRegistration
  NoOrphanService
  OnlyCurrentAttemptRegisters
  TransientHasOwner
  NoOrphanRegistry
PROPERTIES
  StaleTouchesNothing
  ImplementsService
CHECK_DEADLOCK FALSE
