CONSTANTS
  s1 = s1
  s2 = s2
  s3 = s3
  NoSource = NoSource
  Sources <- TwoSources
  MaxUpdates = 3
  MaxFaults = 2

SPECIFICATION FairSpec
INVARIANTS TypeOK ContextExclusive GoneIsQuiet
PROPERTIES StopEnds UpdateShown
