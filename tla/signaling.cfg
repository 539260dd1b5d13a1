CONSTANTS
  c1 = c1
  c2 = c2
  NoConnection = NoConnection
  Consumers <- OneConsumer
  MaxSessions = 2

SPECIFICATION FairSpec
INVARIANTS TypeOK NeedIsOffered ClientOutlivesCalls RepliesFit
PROPERTIES Served CaptureEnds
CHECK_DEADLOCK FALSE
