CONSTANTS
  s1 = s1
  s2 = s2
  s3 = s3
  NoSource = NoSource
  Sources <- TwoSources
  Needed = 2
  PacketSizes <- ShortAndLong
  MaxPackets = 2

SPECIFICATION Spec
INVARIANTS DeviceRunsForAll
