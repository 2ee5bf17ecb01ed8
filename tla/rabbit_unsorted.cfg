SPECIFICATION Spec
CONSTANTS
  m1 = m1
  m2 = m2
  Msgs = {m1, m2}
  Concurency = 1
  DelayConcurency = 1
  DelayOnFailure <- UnsortedTiers
  Replies = {"ok", "fail"}
  Setups <- JustQuiet
  MaxTime = 2
SYMMETRY MsgSymmetry
INVARIANT TiersExhausted
CHECK_DEADLOCK FALSE
