SPECIFICATION Spec
CONSTANTS
  m1 = m1
  m2 = m2
  Msgs = {m1, m2}
  RawMsgs = {}
  Foreign = {}
  IsDelayQueue = FALSE
  IsDelayRaw = FALSE
  Concurency = 1
  DelayConcurency = 1
  DelayOnFailure <- TwoTiers
  PopperCap = 1
  DeliveryCap = 1
  Replies = {"ok", "fail", "null"}
  Faults = {}
  MaxTime = 5
  MaxStops = 0
SYMMETRY MsgSymmetry
INVARIANT NothingForgotten
CHECK_DEADLOCK FALSE
