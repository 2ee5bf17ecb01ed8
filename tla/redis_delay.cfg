SPECIFICATION FairSpec
CONSTANTS
  m1 = m1
  m2 = m2
  r1 = r1
  Msgs = {m1, m2, r1}
  RawMsgs = {r1}
  Foreign = {}
  IsDelayQueue = TRUE
  IsDelayRaw = FALSE
  Concurency = 1
  DelayConcurency = 1
  DelayOnFailure <- RepeatedTiers
  PopperCap = 1
  DeliveryCap = 1
  Replies = {"ok", "fail"}
  Faults = {}
  MaxTime = 3
  MaxStops = 0
INVARIANT NeverEarly
PROPERTY DeliveryPromise
PROPERTY Settles
CHECK_DEADLOCK TRUE
