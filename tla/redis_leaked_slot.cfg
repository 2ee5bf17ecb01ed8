SPECIFICATION FairSpec
CONSTANTS
  m1 = m1
  f1 = f1
  Msgs = {m1, f1}
  RawMsgs = {}
  Foreign = {f1}
  IsDelayQueue = FALSE
  IsDelayRaw = FALSE
  Concurency = 1
  DelayConcurency = 1
  DelayOnFailure <- TwoTiers
  PopperCap = 1
  DeliveryCap = 1
  Replies = {"ok", "fail"}
  Faults = {}
  MaxTime = 5
  MaxStops = 0
PROPERTY Settles
CHECK_DEADLOCK FALSE
