SPECIFICATION FairSpec
CONSTANTS
  m1 = m1
  m2 = m2
  Msgs = {m1, m2}
  RawMsgs = {}
  Foreign = {}
  IsDelayQueue = FALSE
  IsDelayRaw = FALSE
  Concurency = 2
  DelayConcurency = 1
  DelayOnFailure <- TwoTiers
  PopperCap = 1
  DeliveryCap = 1
  Replies = {"ok", "fail"}
  Faults = {}
  MaxTime = 5
  MaxStops = 0
INVARIANT TypeOK
INVARIANT ConcurrencyBound
INVARIANT SlotsAccounted
INVARIANT AtMostOnce
INVARIANT NothingForgotten
INVARIANT NeverEarly
INVARIANT NoTierTwice
INVARIANT TiersExhausted
PROPERTY DeliveryPromise
PROPERTY Settles
CHECK_DEADLOCK TRUE
