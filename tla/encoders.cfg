CONSTANTS
  f1 = f1
  f2 = f2
  a1 = a1
  FrameEncoders <- TwoFrameEncoders
  AudioEncoders <- OneAudioEncoder
  Delay = 1
  MaxOpens = 3

SPECIFICATION Spec
INVARIANTS TypeOK NotPulledAway OpenHasContext ContextsFreed
