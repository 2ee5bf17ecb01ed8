SPECIFICATION FairSpec
CONSTANTS
  Timeouts <- ManyTimeouts
  DialTimeout = 2
  MaxRedirects = 2
  Pauses = {1, 30, 483018, 999999969}
  MaxPauses = 3
  MaxTime = 1000000100
INVARIANT NeverCutShort
INVARIANT SuccessSound
PROPERTY EndsUnlessHeld
CHECK_DEADLOCK FALSE
