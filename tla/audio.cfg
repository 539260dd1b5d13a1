CONSTANTS
  s1 = s1
  s2 = s2
  s3 = s3
  NoSource = NoSource
  Sources <- TwoSources
  Needed = 2
  PacketSizes <- ShortAndLong
  MaxPackets = 3

SPECIFICATION FairSpec
INVARIANTS TypeOK CountIsUsers LoopNotCutShort QuietWhenUnused GoneIsQuiet ChunksFit
PROPERTIES StopEnds
