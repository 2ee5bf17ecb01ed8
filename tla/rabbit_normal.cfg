SPECIFICATION Spec
CONSTANTS
  m1 = m1
  m2 = m2
  Msgs = {m1, m2}
  Concurency = 1
  DelayConcurency = 1
  DelayOnFailure <- OneTier
  Replies = {"ok", "fail", "null"}
  Setups <- SideBySide
  MaxTime = 1
SYMMETRY MsgSymmetry
INVARIANT TypeOK
INVARIANT ConcurrencyBound
INVARIANT SlotsAccounted
INVARIANT UnackedAccounted
INVARIANT NothingForgotten
INVARIANT OnceUninterrupted
PROPERTY RedeliveryPromise
CHECK_DEADLOCK FALSE
