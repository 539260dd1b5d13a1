CONSTANTS
  Target = 33333
  MaxFailures = 1
  InitialBackoff = 10
  MaxBackoff = 25
  Works <- QuickAndSlow
  MaxWork = 33000
  Lates <- OnTimeOrLate
  MaxLate = 15000
  MaxLoops = 6

SPECIFICATION Spec
INVARIANTS TypeOK AtMostTwoPerPeriod NoBusyLoop BackoffFollows StopIsPrompt
