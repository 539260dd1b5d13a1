CONSTANTS
  m1 = m1
  m2 = m2
  m3 = m3
  signaling = signaling
  other = other
  NoMessage = NoMessage
  Messages <- ThreeMessages
  Threads <- TwoThreads
  Caller <- TwoCallers
  Silent <- NoneSilent
  AppDisconnects = FALSE

SPECIFICATION FairSpec
INVARIANTS TypeOK SingleWriter Accounted NoLostWakeup ReaderAlive EndsTrue
PROPERTIES ImplementsOutbox Delivered LossEndsRun
