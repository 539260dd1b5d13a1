CONSTANTS
  m1 = m1
  m2 = m2
  m3 = m3
  signaling = signaling
  other = other
  NoMessage = NoMessage
  Messages <- ThreeMessages
  Threads <- OneThread
  Caller <- OneCaller
  Silent <- FirstSilent
  AppDisconnects = TRUE

SPECIFICATION FairSpec
INVARIANTS Accounted
PROPERTIES EndsOnce ToldRight LossEndsRun
