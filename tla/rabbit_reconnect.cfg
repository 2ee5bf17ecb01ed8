SPECIFICATION FairSpec
CONSTANTS
  m1 = m1
  Msgs = {m1}
  Concurency = 2
  DelayConcurency = 1
  DelayOnFailure <- TwoTiers
  Replies = {"ok", "fail", "null"}
  Setups <- OneByOne
  MaxTime = 2
INVARIANT NothingForgotten
INVARIANT DuplicatesBounded
INVARIANT NeverEarly
INVARIANT TiersExhausted
PROPERTY RedeliveryPromise
PROPERTY Drains
CHECK_DEADLOCK FALSE
