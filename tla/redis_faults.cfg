SPECIFICATION Spec
CONSTANTS
  m1 = m1
  m2 = m2
  f1 = f1
  Msgs = {m1, m2, f1}
  RawMsgs = {}
  Foreign = {f1}
  IsDelayQueue = FALSE
  IsDelayRaw = FALSE
  Concurency = 1
  DelayConcurency = 2
  DelayOnFailure <- TwoTiers
  PopperCap = 1
  DeliveryCap = 1
  Replies = {"ok", "fail", "null"}
  Faults = {"rpop", "exec", "zadd", "incr"}
  MaxTime = 3
  MaxStops = 1
SYMMETRY MsgSymmetry
INVARIANT AtMostOnce
INVARIANT NoTierTwice
PROPERTY DeliveryPromise
CHECK_DEADLOCK TRUE
