SPECIFICATION Spec
CONSTANTS
  Timeouts = {30}
  DialTimeout = 10
  MaxRedirects = 2
  Pauses = {1, 30, 3600}
  MaxPauses = 3
  MaxTime = 7200
INVARIANT TimeoutHonoured
CHECK_DEADLOCK FALSE
