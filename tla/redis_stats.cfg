SPECIFICATION StatsSpec
CONSTANTS
  m1 = m1
  m2 = m2
  m3 = m3
  m4 = m4
  m5 = m5
  Msgs = {m1, m2, m3, m4, m5}
  RawMsgs = {}
  Foreign = {}
  IsDelayQueue = FALSE
  IsDelayRaw = FALSE
  Concurency = 1
  DelayConcurency = 1
  DelayOnFailure <- OneTier
  PopperCap = 1
  DeliveryCap = 1
  Replies = {"ok", "fail"}
  Faults = {}
  MaxTime = 1
  MaxStops = 0
SYMMETRY MsgSymmetry
INVARIANT PageMisses
INVARIANT PageRepeats
INVARIANT MemoryBound
CHECK_DEADLOCK FALSE
