-------------------------- MODULE RedisDeliveryProofs --------------------------
(***************************************************************************)
(* What RedisQueue does for a message, for every value of its constants:   *)
(* when it is posted, with which delays, that none is left out, that       *)
(* nothing is forgotten, and at the end that RedisQueue implements         *)
(* Delivery.                                                               *)
(***************************************************************************)
EXTENDS RedisDelivery, RedisQueueProofs

(***************************************************************************)
(* Time.  A copy carries the promise that its delay has passed: a stored   *)
(* one at its score, a held one now.                                       *)
(***************************************************************************)
PassedAt(c, t) ==
  c.cur > 0 => failedAt[c.msg] # Never /\ failedAt[c.msg] + c.cur <= t

TimeInv ==
  /\ \A m \in Msgs : failedAt[m] = Never \/ failedAt[m] \in 0..now
  /\ \A c \in stored : PassedAt(c, c.score)
  /\ \A c \in stored : c.at = "list" => c.score = 0
  /\ \A c \in held : c.score <= now /\ PassedAt(c, now)
  /\ \A c \in held : c.at = "failed" => failedAt[c.msg] # Never

(* The invariant holds at first.                                           *)
LEMMA TimeInvInit == Init => TimeInv
BY DEF Init, TimeInv

(* A step after which there are fewer copies keeps the times.              *)
LEMMA TimeDropped ==
  ASSUME TypeInv, TimeInv, held' \subseteq held, stored' \subseteq stored,
         UNCHANGED <<now, failedAt>>
  PROVE  TimeInv'
BY DEF TimeInv, PassedAt

(* So does one that moves a copy without a failure.                        *)
LEMMA TimeMoved ==
  ASSUME TypeInv, TimeInv, NEW c \in held, NEW p \in HeldAt \ {"failed"},
         held' = Moved(c, p), UNCHANGED <<stored, now, failedAt>>
  PROVE  TimeInv'
<1> DEFINE d == [c EXCEPT !.at = p]
<1>1. c \in Copy
  BY DEF TypeInv
<1>2. d.at = p /\ d.msg = c.msg /\ d.score = c.score /\ d.cur = c.cur
  BY <1>1, MovedCopy
<1>3. held' = (held \ {c}) \cup {d}
  BY DEF Moved
<1> HIDE DEF d
<1> QED  BY <1>2, <1>3 DEF TimeInv, PassedAt

(* Every step keeps it.                                                    *)
LEMMA TimeInvNext == TypeInv /\ TimeInv /\ [Next]_vars => TimeInv'
<1> SUFFICES ASSUME TypeInv, TimeInv, [Next]_vars  PROVE TimeInv'
  OBVIOUS
<1>1. ASSUME NEW m \in Msgs, Push(m)  PROVE TimeInv'
  BY <1>1 DEF Push, TimeInv, PassedAt
<1>2. ASSUME NEW m \in Msgs, PushForeign(m)  PROVE TimeInv'
  BY <1>2 DEF PushForeign, TimeInv, PassedAt
<1>3. CASE Tick
  <2>1. now' = now + 1 /\ now \in Nat /\ UNCHANGED <<stored, held, failedAt>>
    BY <1>3 DEF Tick, TypeInv
  <2>2. \A c \in held : c.score \in Int /\ c.cur \in Int /\ failedAt[c.msg] \in Int
    BY DEF TypeInv, Copy
  <2>3. \A c \in held : c.score <= now' /\ PassedAt(c, now)'
    BY <2>1, <2>2 DEF TimeInv, PassedAt
  <2> QED  BY <2>1, <2>3 DEF TimeInv, PassedAt
<1>4. CASE Stop
  BY <1>4, TimeDropped DEF Stop, MemoryLost
<1>5. CASE QueueHandle
  BY <1>5, TimeDropped DEF QueueHandle
<1>6. CASE StartMain
  BY <1>6, TimeDropped DEF StartMain
<1>7. ASSUME NEW c \in stored, NEW p \in HeldAt \ {"failed"},
             c.score <= now
      PROVE  /\ [c EXCEPT !.at = p].score <= now
             /\ PassedAt([c EXCEPT !.at = p], now)
             /\ [c EXCEPT !.at = p].at # "failed"
  <2> DEFINE d == [c EXCEPT !.at = p]
  <2>1. c \in Copy /\ now \in Nat
    BY DEF TypeInv
  <2>2. d.at = p /\ d.msg = c.msg /\ d.score = c.score /\ d.cur = c.cur
    BY <2>1, MovedCopy
  <2>3. c.cur \in Int /\ c.score \in Int /\ failedAt[c.msg] \in Int
    BY <2>1 DEF Copy, TypeInv
  <2> HIDE DEF d
  <2>4. d.score <= now /\ PassedAt(d, now) /\ d.at # "failed"
    BY <1>7, <2>1, <2>2, <2>3 DEF TimeInv, PassedAt
  <2> QED  BY <2>4 DEF d
<1>8. ASSUME NEW c \in stored, Pop(c)  PROVE TimeInv'
  <2> DEFINE d == [c EXCEPT !.at = "popped"]
  <2>1. c.score <= now
    BY <1>8 DEF Pop, TimeInv, TypeInv
  <2>2. d.score <= now /\ PassedAt(d, now) /\ d.at # "failed"
    BY <1>7, <2>1 DEF HeldAt
  <2>3. /\ stored' = stored \ {c} /\ (held' = held \cup {d} \/ held' = held)
        /\ UNCHANGED <<now, failedAt>>
    BY <1>8 DEF Pop
  <2> HIDE DEF d
  <2> QED  BY <2>2, <2>3 DEF TimeInv, PassedAt
<1>9. ASSUME NEW c \in held, Deliver(c)  PROVE TimeInv'
  BY <1>9, TimeMoved DEF Deliver, HeldAt
<1>10. ASSUME NEW c \in held, Receive(c)  PROVE TimeInv'
  BY <1>10, TimeMoved DEF Receive, HeldAt
<1>11. ASSUME NEW l \in Loops, Acquire(l)  PROVE TimeInv'
  BY <1>11, TimeDropped DEF Acquire
<1>12. ASSUME NEW l \in Loops, DelayPop(l)  PROVE TimeInv'
  <2> DEFINE due == {c \in stored : c.at = "zset" /\ c.loop = l /\ Due(c)}
             read == {c \in due : Unwraps(c)}
             batch == {[c EXCEPT !.at = "batch"] : c \in read}
  <2>1. /\ stored' = stored \ due
        /\ held' = held \cup batch \/ held' = held
        /\ UNCHANGED <<now, failedAt>>
    BY <1>12 DEF DelayPop
  <2>2. ASSUME NEW e \in batch
        PROVE  e.score <= now /\ PassedAt(e, now) /\ e.at # "failed"
    <3>1. PICK c \in read : e = [c EXCEPT !.at = "batch"]
      OBVIOUS
    <3>2. c \in stored /\ c.score <= now /\ "batch" \in HeldAt \ {"failed"}
      BY DEF Due, HeldAt
    <3> HIDE DEF read
    <3> QED  BY <1>7, <3>1, <3>2
  <2> HIDE DEF due, batch
  <2> QED  BY <2>1, <2>2 DEF TimeInv, PassedAt
<1>13. ASSUME NEW c \in held, Spawn(c)  PROVE TimeInv'
  BY <1>13, TimeMoved DEF Spawn, HeldAt
<1>14. ASSUME NEW c \in held, SpawnUndecodable(c)  PROVE TimeInv'
  BY <1>14, TimeDropped DEF SpawnUndecodable
<1>15. ASSUME NEW c \in held, Reply(c)  PROVE TimeInv'
  <2>1. CASE held' = Moved(c, "ok") /\ UNCHANGED failedAt
    BY <1>15, <2>1, TimeMoved DEF Reply, HeldAt
  <2>2. CASE /\ held' = Moved(c, "failed")
             /\ failedAt' = [failedAt EXCEPT ![c.msg] = IF @ = Never THEN now ELSE @]
    <3> DEFINE d == [c EXCEPT !.at = "failed"]
    <3>1. c \in Copy /\ "failed" \in HeldAt /\ c.msg \in Msgs
      BY DEF TypeInv, Copy, HeldAt
    <3>2. d.at = "failed" /\ d.msg = c.msg /\ d.score = c.score /\ d.cur = c.cur
      BY <3>1, MovedCopy
    <3>3. held' = (held \ {c}) \cup {d} /\ UNCHANGED <<stored, now>>
      BY <1>15, <2>2 DEF Reply, Moved
    <3> HIDE DEF d
    <3>4. \A m \in Msgs : failedAt[m] # Never => failedAt'[m] = failedAt[m]
      BY <2>2, <3>1 DEF TypeInv
    <3>5. \A m \in Msgs : failedAt'[m] = failedAt[m] \/ failedAt'[m] = now
      BY <2>2, <3>1 DEF TypeInv
    <3>6. failedAt'[c.msg] # Never
      BY <2>2, <3>1 DEF TypeInv, Never
    <3>7. \A e \in stored \cup held : e.msg \in Msgs
      BY DEF TypeInv, Copy
    <3>8. \A e \in stored' : PassedAt(e, e.score)'
      BY <3>3, <3>4, <3>7 DEF TimeInv, PassedAt
    <3>9. \A e \in held' : e.score <= now' /\ PassedAt(e, now)'
      BY <3>2, <3>3, <3>4, <3>7 DEF TimeInv, PassedAt
    <3>10. \A e \in held' : e.at = "failed" => failedAt'[e.msg] # Never
      BY <3>2, <3>3, <3>4, <3>6, <3>7 DEF TimeInv
    <3>11. \A m \in Msgs : failedAt'[m] = Never \/ failedAt'[m] \in 0..now'
      BY <3>3, <3>5 DEF TimeInv, TypeInv
    <3> QED  BY <3>3, <3>8, <3>9, <3>10, <3>11 DEF TimeInv
  <2> QED  BY <1>15, <2>1, <2>2 DEF Reply
<1>16. ASSUME NEW c \in held, ReplyNull(c)  PROVE TimeInv'
  BY <1>16, TimeDropped DEF ReplyNull, MemoryLost
<1>17. ASSUME NEW c \in held, CountSuccess(c)  PROVE TimeInv'
  BY <1>17, TimeDropped DEF CountSuccess
<1>18. ASSUME NEW c \in held, Requeue(c)  PROVE TimeInv'
  <2> DEFINE d == Delayed(c)
  <2>1. c.at = "failed" /\ c \in Copy /\ c.msg \in Msgs /\ c.cur \in Int
    BY <1>18 DEF Requeue, TypeInv, Copy
  <2>2. DelayFor(c) \in Int /\ TriggerTime(c) = now + DelayFor(c) - c.cur /\ now \in Nat
    BY <2>1, DelayForType DEF TriggerTime, TypeInv
  <2>3. failedAt[c.msg] \in 0..now /\ failedAt[c.msg] # Never
    BY <2>1 DEF TimeInv
  <2>4. failedAt[c.msg] + c.cur <= now
    BY <2>1, <2>2, <2>3 DEF TimeInv, PassedAt
  <2>5. PassedAt(d, d.score) /\ d.at # "list"
    BY <2>1, <2>2, <2>3, <2>4 DEF Delayed, PassedAt
  <2>6. /\ stored' = stored \cup {d} \/ stored' = stored
        /\ held' \subseteq held /\ UNCHANGED <<now, failedAt>>
    BY <1>18 DEF Requeue
  <2> HIDE DEF d
  <2> QED  BY <2>5, <2>6 DEF TimeInv, PassedAt
<1>19. ASSUME NEW c \in held, GiveUp(c)  PROVE TimeInv'
  BY <1>19, TimeDropped DEF GiveUp
<1>20. CASE UNCHANGED vars
  BY <1>20, TimeDropped DEF vars
<1> QED
  BY <1>1, <1>2, <1>3, <1>4, <1>5, <1>6, <1>8, <1>9, <1>10, <1>11, <1>12, <1>13,
     <1>14, <1>15, <1>16, <1>17, <1>18, <1>19, <1>20 DEF Next, Fetching, Dispatching

(* No message is posted before its trigger time, and no retry before its   *)
(* delay has passed since the first failure: for every schedule of delays, *)
(* every interleaving of posts, stops and restarts.                        *)
THEOREM NeverEarlyHolds == Spec => []NeverEarly
<1>1. TimeInv => NeverEarly
  BY DEF TimeInv, PassedAt, NeverEarly
<1> QED  BY <1>1, TypeInvInit, TypeInvNext, TimeInvInit, TimeInvNext, PTL DEF Spec
-----------------------------------------------------------------------------
(***************************************************************************)
(* Tiers.  What a message has been posted with is exactly what its copy's  *)
(* delay says: every tier below it, and that tier too once its receiver    *)
(* has answered.                                                           *)
(***************************************************************************)
Answered == {"ok", "failed"}

UpTo(d) == StagesUpTo(DelayOnFailure, d)
Below(d) == StagesBelow(DelayOnFailure, d)

OnTier(c) ==
  /\ c.cur \in {0} \cup AllTiers
  /\ c.loop = "main" => c.cur = 0
  /\ c.loop = "retry" => c.cur > 0 \/ c.msg \in Foreign
  /\ c.at \in AtWork => Decodes(c)
  /\ tried[c.msg] = IF c.at \in Answered THEN UpTo(c.cur) ELSE Below(c.cur)

TierInv ==
  /\ \A c \in stored \cup held : OnTier(c)
  /\ \A m \in Msgs \ pushed : tried[m] = {}

(* The tiers of the model are those the schedule reaches.                  *)
LEMMA Tiered == AllTiers = TiersReached(DelayOnFailure)
BY DEF AllTiers, TiersReached

(* Nothing comes before the first post.                                    *)
LEMMA BelowZero == Below(0) = {} /\ UpTo(0) = {0}
BY ConfigAssumption, StagesAtZero DEF UpTo, Below

(* The next delay is the tier after the one a copy was posted with, or the *)
(* tiers are exhausted.                                                    *)
LEMMA DelayForAbove ==
  ASSUME TypeInv, NEW c \in held, OnTier(c), c.at \in AtWork
  PROVE  \/ /\ DelayFor(c) <= 0
            /\ UpTo(c.cur) = {0} \cup AllTiers
         \/ /\ DelayFor(c) > 0
            /\ DelayFor(c) \in AllTiers
            /\ Below(DelayFor(c)) = UpTo(c.cur)
<1>1. c.loop \in Loops /\ c.cur \in Stages(DelayOnFailure)
  BY Tiered DEF TypeInv, Copy, OnTier, Stages
<1>2. /\ RunMode(c.loop) = "retry" => c.cur > 0
      /\ RunMode(c.loop) # "retry" => c.cur = 0
  BY <1>1 DEF OnTier, Decodes, RunMode, Loops
<1> QED
  BY <1>1, <1>2, Tiered, ConfigAssumption, DelayAfterNextStage
  DEF DelayFor, UpTo, Below, Stages

(* A copy that moves keeps its tier as long as nobody answers it.          *)
LEMMA OnTierMoved ==
  ASSUME NEW c \in Copy, OnTier(c), c.at \notin Answered,
         NEW p \in (StoredAt \cup HeldAt) \ Answered, p \in AtWork => Decodes(c)
  PROVE  OnTier([c EXCEPT !.at = p])
<1> DEFINE d == [c EXCEPT !.at = p]
<1>1. d.at = p /\ d.msg = c.msg /\ d.loop = c.loop /\ d.cur = c.cur
  BY MovedCopy
<1> HIDE DEF d
<1>2. OnTier(d)
  BY <1>1 DEF OnTier, Decodes
<1> QED  BY <1>2 DEF d

(* The steps in which no receiver answers.                                 *)
LEMMA TierKept ==
  ASSUME TierInv, UNCHANGED tried, pushed \subseteq pushed',
         \A d \in stored' \cup held' : d \in stored \cup held \/ OnTier(d)
  PROVE  TierInv'
BY DEF TierInv, OnTier, Decodes, UpTo, Below, AllTiers

(* The invariant holds at first.                                           *)
LEMMA TierInvInit == Init => TierInv
BY DEF Init, TierInv

(* Every step keeps it.                                                    *)
LEMMA TierInvNext == TypeInv /\ OnceInv /\ TierInv /\ [Next]_vars => TierInv'
<1> SUFFICES ASSUME TypeInv, OnceInv, TierInv, [Next]_vars  PROVE TierInv'
  OBVIOUS
<1>1. ASSUME held' \subseteq held, stored' \subseteq stored,
             UNCHANGED <<tried, pushed>>
      PROVE  TierInv'
  BY <1>1, TierKept
<1>2. ASSUME NEW m \in Msgs, Push(m)  PROVE TierInv'
  <2>1. PICK t \in Int, p \in StoredAt :
          stored' = stored \cup
            {[msg |-> m, at |-> p, loop |-> "main", score |-> t, cur |-> 0]}
    BY <1>2, ConfigAssumption DEF Push, StoredAt
  <2> DEFINE d == [msg |-> m, at |-> p, loop |-> "main", score |-> t, cur |-> 0]
  <2>2. d.msg = m /\ d.cur = 0 /\ d.loop = "main" /\ d.at \in StoredAt
    OBVIOUS
  <2>3. m \notin pushed /\ pushed' = pushed \cup {m} /\ UNCHANGED <<held, tried>>
    BY <1>2 DEF Push
  <2>4. OnTier(d)
    BY <2>2, <2>3, BelowZero DEF OnTier, TierInv, StoredAt, AtWork, Answered
  <2> HIDE DEF d
  <2>5. stored' = stored \cup {d}
    BY <2>1 DEF d
  <2> QED  BY <2>3, <2>4, <2>5, TierKept
<1>3. ASSUME NEW m \in Msgs, PushForeign(m)  PROVE TierInv'
  <2> DEFINE d == [msg |-> m, at |-> "zset", loop |-> "retry", score |-> now, cur |-> 0]
  <2>1. /\ m \notin pushed /\ m \in Foreign /\ pushed' = pushed \cup {m}
        /\ stored' = stored \cup {d} /\ UNCHANGED <<held, tried>>
    BY <1>3 DEF PushForeign
  <2>2. OnTier(d)
    BY <2>1, BelowZero DEF OnTier, TierInv, AtWork, Answered
  <2> HIDE DEF d
  <2> QED  BY <2>1, <2>2, TierKept
<1>4. CASE Tick
  BY <1>1, <1>4 DEF Tick
<1>5. ASSUME MemoryLost  PROVE TierInv'
  BY <1>1, <1>5 DEF MemoryLost
<1>6. CASE QueueHandle
  BY <1>1, <1>6 DEF QueueHandle
<1>7. CASE StartMain
  BY <1>1, <1>7 DEF StartMain
<1>8. ASSUME NEW c \in stored, Pop(c)  PROVE TierInv'
  <2>1. c \in Copy /\ OnTier(c) /\ c.at \notin Answered
        /\ "popped" \in HeldAt \ Answered /\ "popped" \notin AtWork
    BY <1>8 DEF TypeInv, TierInv, Pop, Answered, HeldAt, AtWork
  <2>2. OnTier([c EXCEPT !.at = "popped"])
    BY <2>1, OnTierMoved
  <2> QED  BY <1>8, <2>2, TierKept DEF Pop
<1>9. ASSUME NEW c \in held, NEW p \in HeldAt \ Answered, c.at \notin Answered,
             p \in AtWork => Decodes(c), held' = Moved(c, p),
             UNCHANGED <<stored, tried, pushed>>
      PROVE  TierInv'
  <2>1. c \in Copy /\ OnTier(c)
    BY DEF TypeInv, TierInv
  <2>2. OnTier([c EXCEPT !.at = p])
    BY <1>9, <2>1, OnTierMoved
  <2> QED  BY <1>9, <2>2, TierKept DEF Moved
<1>10. ASSUME NEW c \in held, Deliver(c)  PROVE TierInv'
  BY <1>9, <1>10 DEF Deliver, HeldAt, Answered, AtWork
<1>11. ASSUME NEW c \in held, Receive(c)  PROVE TierInv'
  BY <1>9, <1>11 DEF Receive, HeldAt, Answered, AtWork
<1>12. ASSUME NEW l \in Loops, Acquire(l)  PROVE TierInv'
  BY <1>1, <1>12 DEF Acquire
<1>13. ASSUME NEW l \in Loops, DelayPop(l)  PROVE TierInv'
  <2> DEFINE due == {c \in stored : c.at = "zset" /\ c.loop = l /\ Due(c)}
             read == {c \in due : Unwraps(c)}
             batch == {[c EXCEPT !.at = "batch"] : c \in read}
  <2>1. /\ stored' = stored \ due
        /\ held' = held \cup batch \/ held' = held
        /\ UNCHANGED <<tried, pushed>>
    BY <1>13 DEF DelayPop
  <2>2. ASSUME NEW e \in batch  PROVE OnTier(e)
    <3>1. PICK c \in read : e = [c EXCEPT !.at = "batch"]
      OBVIOUS
    <3>2. c \in Copy /\ OnTier(c) /\ c.at \notin Answered
          /\ "batch" \in HeldAt \ Answered /\ "batch" \notin AtWork
      BY DEF TypeInv, TierInv, Answered, HeldAt, AtWork
    <3> HIDE DEF read
    <3> QED  BY <3>1, <3>2, OnTierMoved
  <2> HIDE DEF due, batch
  <2> QED  BY <2>1, <2>2, TierKept
<1>14. ASSUME NEW c \in held, Spawn(c)  PROVE TierInv'
  BY <1>9, <1>14 DEF Spawn, HeldAt, Answered
<1>15. ASSUME NEW c \in held, SpawnUndecodable(c)  PROVE TierInv'
  BY <1>1, <1>15 DEF SpawnUndecodable
<1>16. ASSUME NEW c \in held, Reply(c)  PROVE TierInv'
  <2>1. PICK p \in Answered : held' = Moved(c, p)
    BY <1>16 DEF Reply, Answered
  <2> DEFINE d == [c EXCEPT !.at = p]
  <2>2. /\ c.at = "post" /\ tried' = [tried EXCEPT ![c.msg] = @ \cup {c.cur}]
        /\ UNCHANGED <<stored, pushed>>
    BY <1>16 DEF Reply
  <2>3. c \in Copy /\ c.msg \in Msgs /\ OnTier(c)
    BY DEF TypeInv, Copy, TierInv
  <2>4. d.at = p /\ d.msg = c.msg /\ d.loop = c.loop /\ d.cur = c.cur
    BY <2>3, MovedCopy DEF Answered, HeldAt
  <2>5. held' = (held \ {c}) \cup {d}
    BY <2>1 DEF Moved
  <2> HIDE DEF d
  <2>6. tried'[c.msg] = UpTo(c.cur)
    <3>1. tried[c.msg] = Below(c.cur) /\ c.cur \in {0} \cup AllTiers
      BY <2>2, <2>3 DEF OnTier, Answered
    <3>2. Below(c.cur) \cup {c.cur} = UpTo(c.cur)
      BY <3>1, Tiered, ConfigAssumption, StagesAdd DEF Below, UpTo, Stages
    <3> QED  BY <2>2, <2>3, <3>1, <3>2 DEF TypeInv
  <2>7. OnTier(d)'
    BY <2>2, <2>3, <2>4, <2>6 DEF OnTier, Decodes, AtWork, UpTo, Below, AllTiers
  <2>8. ASSUME NEW e \in (stored \cup held) \ {c}  PROVE OnTier(e)'
    <3>1. e.msg \in Msgs /\ e.msg # c.msg /\ OnTier(e)
      BY DEF TypeInv, Copy, OnceInv, Unique, TierInv
    <3>2. tried'[e.msg] = tried[e.msg]
      BY <2>2, <3>1 DEF TypeInv
    <3> QED  BY <3>1, <3>2 DEF OnTier, Decodes, UpTo, Below, AllTiers
  <2>9. c.msg \in pushed
    BY DEF OnceInv, Owned
  <2>10. \A m \in Msgs \ pushed' : tried'[m] = {}
    BY <2>2, <2>9 DEF TierInv, TypeInv
  <2>11. c \notin stored
    BY StoredNotHeld
  <2> QED  BY <2>2, <2>5, <2>7, <2>8, <2>10, <2>11 DEF TierInv
<1>17. ASSUME NEW c \in held, ReplyNull(c)  PROVE TierInv'
  BY <1>5, <1>17 DEF ReplyNull
<1>18. ASSUME NEW c \in held, CountSuccess(c)  PROVE TierInv'
  BY <1>1, <1>18 DEF CountSuccess
<1>19. ASSUME NEW c \in held, Requeue(c)  PROVE TierInv'
  <2> DEFINE d == Delayed(c)
  <2>1. c.at = "failed" /\ DelayFor(c) > 0 /\ OnTier(c) /\ DelayFor(c) \in Int
    BY <1>19, DelayForType DEF Requeue, TierInv, TypeInv
  <2>2. DelayFor(c) \in AllTiers /\ Below(DelayFor(c)) = UpTo(c.cur)
    BY <2>1, DelayForAbove DEF AtWork
  <2>3. OnTier(d)
    BY <2>1, <2>2 DEF Delayed, OnTier, Answered, AtWork
  <2>4. /\ stored' = stored \cup {d} \/ stored' = stored
        /\ held' \subseteq held /\ UNCHANGED <<tried, pushed>>
    BY <1>19 DEF Requeue
  <2> HIDE DEF d
  <2> QED  BY <2>3, <2>4, TierKept
<1>20. ASSUME NEW c \in held, GiveUp(c)  PROVE TierInv'
  BY <1>1, <1>20 DEF GiveUp
<1>21. CASE UNCHANGED vars
  BY <1>1, <1>21 DEF vars
<1> QED
  BY <1>2, <1>3, <1>4, <1>5, <1>6, <1>7, <1>8, <1>10, <1>11, <1>12, <1>13, <1>14,
     <1>15, <1>16, <1>17, <1>18, <1>19, <1>20, <1>21
  DEF Next, Fetching, Dispatching, Stop

(* Retries move up the tiers: no message is posted twice with one delay,   *)
(* neither by two goroutines nor before and after a restart.               *)
THEOREM NoTierTwiceHolds == Spec => []NoTierTwice
<1>1. TypeInv /\ TierInv => NoTierTwice
  <2> SUFFICES ASSUME TypeInv, TierInv, NEW c \in held, c.at = "post"
               PROVE  c.cur \notin tried[c.msg]
    BY DEF NoTierTwice
  <2>1. tried[c.msg] = Below(c.cur) /\ c.cur \in Int
    BY DEF TierInv, OnTier, Answered, TypeInv, Copy
  <2> QED  BY <2>1 DEF Below, StagesBelow
<1> QED  BY <1>1, TypeInvInit, TypeInvNext, OnceInvInit, OnceInvNext,
            TierInvInit, TierInvNext, PTL DEF Spec

(* All that a stop can take from the memory of a normal queue: no more on  *)
(* the main loop than the capacities, and on the retry loop, whose batch   *)
(* has no bound, only what has failed before and is due, whatever was      *)
(* lost, stopped and started in between.                                   *)
THEOREM MemoryBoundHolds == Spec => []MemoryBound
<1>1. MainBounded /\ TypeInv /\ TierInv /\ TimeInv => MemoryBound
  <2> SUFFICES ASSUME MainBounded, TypeInv, TierInv, TimeInv, ~IsDelayQueue,
                      NEW c \in held, c.loop = "retry"
               PROVE  c.score <= now /\ (c.msg \in Foreign \/ failedAt[c.msg] # Never)
    BY DEF MemoryBound, MainBounded
  <2>1. c.cur > 0 \/ c.msg \in Foreign
    BY DEF TierInv, OnTier
  <2> QED  BY <2>1 DEF TimeInv, PassedAt
<1> QED  BY <1>1, MainBoundedHolds, TypeInvInit, TypeInvNext, OnceInvInit, OnceInvNext,
            TierInvInit, TierInvNext, TimeInvInit, TimeInvNext, PTL DEF Spec

(* A counted message is no longer posted, so what it was tried with stays. *)
LEMMA ExhaustedNext ==
  ASSUME "encode" \notin Faults
  PROVE  TypeInv /\ OnceInv /\ TierInv /\ TiersExhausted /\ [Next]_vars => TiersExhausted'
<1> SUFFICES ASSUME TypeInv, OnceInv, TierInv, TiersExhausted, [Next]_vars
             PROVE  TiersExhausted'
  OBVIOUS
<1>1. ASSUME UNCHANGED <<tried, failure>>  PROVE TiersExhausted'
  BY <1>1 DEF TiersExhausted, AllTiers
<1>2. ASSUME NEW c \in held, Reply(c)  PROVE TiersExhausted'
  <2>1. c.msg \in Msgs /\ failure[c.msg] = 0
    BY DEF TypeInv, Copy, OnceInv, Owned
  <2>2. \A m \in Msgs : m # c.msg => tried'[m] = tried[m]
    BY <1>2 DEF Reply, TypeInv
  <2> QED  BY <1>2, <2>1, <2>2 DEF Reply, TiersExhausted, AllTiers
<1>3. ASSUME NEW c \in held, GiveUp(c)  PROVE TiersExhausted'
  <2>1. c.at = "failed" /\ DelayFor(c) <= 0 /\ c.msg \in Msgs /\ UNCHANGED tried
    BY <1>3 DEF GiveUp, TypeInv, Copy
  <2>2. OnTier(c) /\ DelayFor(c) \in Int
    BY DelayForType DEF TierInv, TypeInv
  <2>3. UpTo(c.cur) = {0} \cup AllTiers
    BY <2>1, <2>2, DelayForAbove DEF AtWork
  <2>4. tried[c.msg] = {0} \cup AllTiers
    BY <2>1, <2>2, <2>3 DEF OnTier, Answered
  <2>5. \A m \in Msgs : m # c.msg => failure'[m] = failure[m]
    BY <1>3 DEF GiveUp, Counted, TypeInv
  <2> QED  BY <2>1, <2>4, <2>5 DEF TiersExhausted, AllTiers
<1> QED
  BY <1>1, <1>2, <1>3 DEF Next, Fetching, Dispatching, Push, PushForeign, Tick, Stop,
     MemoryLost, QueueHandle, StartMain, Pop, Deliver, Receive, Acquire, DelayPop,
     Spawn, SpawnUndecodable, ReplyNull, CountSuccess, Requeue, vars

(* A message is counted as a failure only after one post for each delay of *)
(* its sorted schedule, however long that is and however often it repeats  *)
(* a delay.  (An encoding error would give it up earlier.)                 *)
THEOREM TiersExhaustedHolds ==
  ASSUME "encode" \notin Faults
  PROVE  Spec => []TiersExhausted
<1>1. Init => TiersExhausted
  BY DEF Init, TiersExhausted
<1>2. TypeInv /\ OnceInv /\ TierInv /\ TiersExhausted /\ [Next]_vars => TiersExhausted'
  BY ExhaustedNext
<1> QED  BY <1>1, <1>2, TypeInvInit, TypeInvNext, OnceInvInit, OnceInvNext,
            TierInvInit, TierInvNext, PTL DEF Spec
-----------------------------------------------------------------------------
(***************************************************************************)
(* Nothing is forgotten.                                                   *)
(***************************************************************************)

(* An entry DelayPop takes out but cannot read, and one its goroutine      *)
(* cannot decode, are none the configuration promises to read.  DelayPop   *)
(* is in a normal queue the retry loop's only: that is PopInv.             *)
LEMMA ReadableUnwraps ==
  ASSUME TypeInv, PopInv, NEW l \in Loops, pc[l] = "pop",
         NEW c, c.loop = l, c.msg \in Readable
  PROVE  Unwraps(c)
<1>1. l = "main" => IsDelayQueue
  BY DEF PopInv
<1> QED  BY <1>1 DEF Readable, Unwraps, Loops

(* A readable message can be decoded wherever it came from.                *)
LEMMA ReadableDecodes ==
  ASSUME NEW c, c.msg \in Readable
  PROVE  Decodes(c)
BY DEF Readable, Decodes

(* Every readable message that had a copy still has one.                   *)
LEMMA Remembered ==
  ASSUME NothingForgotten, UNCHANGED <<pushed, success, failure>>,
         \A c \in stored \cup held :
           c.msg \in Readable => \E d \in stored' \cup held' : d.msg = c.msg
  PROVE  NothingForgotten'
BY DEF NothingForgotten, Readable

(* A copy that moves is remembered.                                        *)
LEMMA RememberedMoved ==
  ASSUME TypeInv, NothingForgotten, NEW c \in held, NEW p \in HeldAt,
         held' = Moved(c, p), UNCHANGED <<stored, pushed, success, failure>>
  PROVE  NothingForgotten'
<1> DEFINE d == [c EXCEPT !.at = p]
<1>1. c \in Copy
  BY DEF TypeInv
<1>2. d.msg = c.msg
  BY <1>1, MovedCopy
<1>3. held' = (held \ {c}) \cup {d}
  BY DEF Moved
<1> HIDE DEF d
<1> QED  BY <1>2, <1>3, Remembered

(* The dispatch of c is over and counted.                                  *)
LEMMA RememberedCounted ==
  ASSUME TypeInv, NothingForgotten, NEW c \in held, held' = held \ {c},
         UNCHANGED <<stored, pushed>>,
         \/ success' = Counted(success, c.msg) /\ UNCHANGED failure
         \/ failure' = Counted(failure, c.msg) /\ UNCHANGED success
  PROVE  NothingForgotten'
<1>1. c.msg \in Msgs /\ \A m \in Msgs : success[m] \in Nat /\ failure[m] \in Nat
  BY DEF TypeInv, Copy
<1>2. \A m \in Msgs : m # c.msg => success'[m] = success[m] /\ failure'[m] = failure[m]
  BY DEF TypeInv, Counted
<1>3. success'[c.msg] + failure'[c.msg] > 0
  BY <1>1 DEF TypeInv, Counted
<1>4. pushed \in SUBSET Msgs
  BY DEF TypeInv
<1> QED  BY <1>1, <1>2, <1>3, <1>4 DEF NothingForgotten, Readable

(* Without losses every step that takes a copy away puts it elsewhere or   *)
(* counts it.                                                              *)
LEMMA NothingForgottenNext ==
  ASSUME Faults \subseteq {"encode"}, MaxStops = 0, "null" \notin Replies
  PROVE  TypeInv /\ PopInv /\ NothingForgotten /\ [Next]_vars => NothingForgotten'
<1> SUFFICES ASSUME TypeInv, PopInv, NothingForgotten, [Next]_vars
             PROVE  NothingForgotten'
  OBVIOUS
<1>1. ASSUME NEW m \in Msgs, Push(m) \/ PushForeign(m)  PROVE NothingForgotten'
  <2>1. PICK d : d.msg = m /\ stored' = stored \cup {d}
    BY <1>1 DEF Push, PushForeign
  <2>2. pushed' = pushed \cup {m} /\ UNCHANGED <<held, success, failure>>
    BY <1>1 DEF Push, PushForeign
  <2> QED  BY <2>1, <2>2 DEF NothingForgotten, Readable
<1>2. ASSUME held \subseteq held', UNCHANGED <<stored, pushed, success, failure>>
      PROVE  NothingForgotten'
  BY <1>2, Remembered
<1>3. ASSUME \/ Tick \/ QueueHandle \/ StartMain \/ UNCHANGED vars
             \/ \E l \in Loops : Acquire(l)
      PROVE  NothingForgotten'
  BY <1>2, <1>3 DEF Tick, QueueHandle, StartMain, Acquire, vars
<1>4. ~Stop /\ \A c \in held : ~ReplyNull(c)
  BY DEF Stop, ReplyNull, TypeInv
<1>5. ASSUME NEW c \in stored, Pop(c)  PROVE NothingForgotten'
  <2> DEFINE d == [c EXCEPT !.at = "popped"]
  <2>1. c \in Copy /\ "popped" \in HeldAt
    BY DEF TypeInv, HeldAt
  <2>2. d.msg = c.msg
    BY <2>1, MovedCopy
  <2>3. /\ stored' = stored \ {c} /\ held' = held \cup {d}
        /\ UNCHANGED <<pushed, success, failure>>
    BY <1>5 DEF Pop
  <2> HIDE DEF d
  <2> QED  BY <2>2, <2>3, Remembered
<1>6. ASSUME NEW l \in Loops, DelayPop(l)  PROVE NothingForgotten'
  <2> DEFINE due == {c \in stored : c.at = "zset" /\ c.loop = l /\ Due(c)}
             read == {c \in due : Unwraps(c)}
             batch == {[c EXCEPT !.at = "batch"] : c \in read}
  <2>1. /\ pc[l] = "pop" /\ stored' = stored \ due /\ held' = held \cup batch
        /\ UNCHANGED <<pushed, success, failure>>
    BY <1>6 DEF DelayPop
  <2>2. ASSUME NEW c \in due, c.msg \in Readable  PROVE \E d \in batch : d.msg = c.msg
    <3>1. c.loop = l /\ c \in Copy /\ "batch" \in HeldAt
      BY DEF TypeInv, HeldAt
    <3>2. Unwraps(c)
      BY <2>1, <2>2, <3>1, ReadableUnwraps
    <3>3. [c EXCEPT !.at = "batch"] \in batch
      BY <2>2, <3>2
    <3>4. [c EXCEPT !.at = "batch"].msg = c.msg
      BY <3>1, MovedCopy
    <3> QED  BY <3>3, <3>4
  <2> HIDE DEF due, batch
  <2> QED  BY <2>1, <2>2, Remembered
<1>7. ASSUME NEW c \in held, Deliver(c) \/ Receive(c) \/ Spawn(c) \/ Reply(c)
      PROVE  NothingForgotten'
  BY <1>7, RememberedMoved DEF Deliver, Receive, Spawn, Reply, HeldAt
<1>8. ASSUME NEW c \in held, SpawnUndecodable(c)  PROVE NothingForgotten'
  BY <1>8, Remembered, ReadableDecodes DEF SpawnUndecodable
<1>9. ASSUME NEW c \in held, CountSuccess(c) \/ GiveUp(c)  PROVE NothingForgotten'
  BY <1>9, RememberedCounted DEF CountSuccess, GiveUp
<1>10. ASSUME NEW c \in held, Requeue(c)  PROVE NothingForgotten'
  <2>1. /\ stored' = stored \cup {Delayed(c)} /\ held' = held \ {c}
        /\ UNCHANGED <<pushed, success, failure>>
    BY <1>10 DEF Requeue
  <2>2. Delayed(c).msg = c.msg
    BY DEF Delayed
  <2> QED  BY <2>1, <2>2, Remembered
<1> QED
  BY <1>1, <1>3, <1>4, <1>5, <1>6, <1>7, <1>8, <1>9, <1>10 DEF Next, Fetching, Dispatching

(* As long as the process runs, Redis answers and no receiver replies      *)
(* null, every message the configuration can read is somewhere from its    *)
(* push to its counting.                                                   *)
THEOREM NothingForgottenHolds ==
  ASSUME Faults \subseteq {"encode"}, MaxStops = 0, "null" \notin Replies
  PROVE  Spec => []NothingForgotten
<1>1. Init => NothingForgotten
  BY DEF Init, NothingForgotten
<1>2. Init => PopInv
  BY MemoryInvInit
<1> QED  BY <1>1, <1>2, TypeInvInit, TypeInvNext, PopInvNext, NothingForgottenNext, PTL
         DEF Spec
-----------------------------------------------------------------------------
(***************************************************************************)
(* The refinement.  A message has at most one copy (OnceInv), so its place *)
(* and its delay are what Delivery calls status and served; TierInv makes  *)
(* a retry's delay the next one.                                           *)
(***************************************************************************)
Here == stored \cup held

(* What Delivery sees of a message with the copy c, and of one without.    *)
SeenAt(c) ==
  /\ c.msg \in Msgs
  /\ CopiesOf(c.msg) = {c}
  /\ ServedOf(c.msg) = c.cur
  /\ StatusOf(c.msg) = IF c.at \in AtWork THEN "trying" ELSE "waiting"

SeenGone(m) ==
  /\ CopiesOf(m) = {}
  /\ ServedOf(m) = 0
  /\ m \notin pushed => StatusOf(m) = "absent"
  /\ m \in pushed /\ success[m] > 0 => StatusOf(m) = "succeeded"
  /\ m \in pushed /\ ~(success[m] > 0) /\ failure[m] > 0 => StatusOf(m) = "failed"
  /\ m \in pushed /\ ~(success[m] > 0) /\ ~(failure[m] > 0) => StatusOf(m) = "lost"

Gone(m) == \A c \in Here : c.msg # m

Seen ==
  /\ \A c \in Here : SeenAt(c)
  /\ \A m \in Msgs : Gone(m) => SeenGone(m)

(* With one copy at most, a status is what that copy says.                 *)
LEMMA SeenCorrect == TypeInv /\ OnceInv => Seen
<1>1. ASSUME TypeInv, OnceInv, NEW c \in Here  PROVE SeenAt(c)
  <2>1. c.msg \in Msgs
    BY <1>1 DEF TypeInv, Copy, Here
  <2>2. CopiesOf(c.msg) = {c}
    BY <1>1 DEF OnceInv, Unique, CopiesOf, Here
  <2>3. c.msg \in pushed /\ ~(success[c.msg] > 0) /\ ~(failure[c.msg] > 0)
    <3>1. success[c.msg] \in Nat /\ failure[c.msg] \in Nat
      BY <1>1, <2>1 DEF TypeInv
    <3> QED  BY <1>1, <3>1 DEF OnceInv, Owned, Here
  <2>4. (\E d \in CopiesOf(c.msg) : d.at \in AtWork) <=> c.at \in AtWork
    BY <2>2
  <2>5. ServedOf(c.msg) = c.cur
    BY <2>2 DEF ServedOf
  <2>6. StatusOf(c.msg) = IF c.at \in AtWork THEN "trying" ELSE "waiting"
    BY <2>2, <2>3, <2>4 DEF StatusOf
  <2> QED  BY <2>1, <2>2, <2>5, <2>6 DEF SeenAt
<1>2. ASSUME NEW m \in Msgs, Gone(m)  PROVE SeenGone(m)
  <2>1. CopiesOf(m) = {}
    BY <1>2 DEF CopiesOf, Here, Gone
  <2>2. ~\E c \in CopiesOf(m) : c.at \in AtWork
    BY <2>1
  <2>3. m \notin pushed => StatusOf(m) = "absent"
    BY DEF StatusOf
  <2>4. m \in pushed /\ success[m] > 0 => StatusOf(m) = "succeeded"
    BY DEF StatusOf
  <2>5. m \in pushed /\ ~(success[m] > 0) /\ failure[m] > 0 => StatusOf(m) = "failed"
    BY DEF StatusOf
  <2>6. m \in pushed /\ ~(success[m] > 0) /\ ~(failure[m] > 0) => StatusOf(m) = "lost"
    BY <2>1 DEF StatusOf
  <2>7. ServedOf(m) = 0
    BY <2>1 DEF ServedOf
  <2> QED  BY <2>1, <2>3, <2>4, <2>5, <2>6, <2>7 DEF SeenGone
<1> QED  BY <1>1, <1>2 DEF Seen

(* And of the state after a step.                                          *)
LEMMA SeenNext == TypeInv' /\ OnceInv' => Seen'
BY SeenCorrect, PTL
-----------------------------------------------------------------------------
(* What a step does to a message: nothing Delivery sees, or it is lost.    *)
Kept(m) == UNCHANGED <<StatusOf(m), ServedOf(m)>>

LostNow(m) ==
  /\ m \in Losable
  /\ StatusOf(m) \in {"waiting", "trying"}
  /\ StatusOf(m)' = "lost"
  /\ ServedOf(m)' = 0

(* A step in which some messages are lost and the others stay.             *)
LEMMA StutterOrLoss ==
  ASSUME \A m \in Msgs : Kept(m) \/ LostNow(m)
  PROVE  Abstract!Next
<1> DEFINE S == {m \in Msgs : LostNow(m)}
<1>1. S \in SUBSET Losable /\ S \in SUBSET Msgs
  BY DEF LostNow
<1>2. \A m \in S : StatusOf(m) \in {"waiting", "trying"} /\ StatusOf(m)' = "lost"
                   /\ ServedOf(m)' = 0
  BY DEF LostNow
<1>3. \A m \in Msgs \ S : StatusOf(m)' = StatusOf(m) /\ ServedOf(m)' = ServedOf(m)
  BY DEF Kept
<1> HIDE DEF S
<1>4. Abstract!Lose(S)
  BY <1>1, <1>2, <1>3 DEF Abstract!Lose
<1> QED  BY <1>1, <1>4 DEF Abstract!Next

(* A step that concerns one message.                                       *)
LEMMA OneMoves ==
  ASSUME NEW m \in Msgs, \A k \in Msgs \ {m} : Kept(k)
  PROVE  /\ Abstract!Become(m, StatusOf(m), StatusOf(m)')
         /\ [k \in Msgs |-> ServedOf(k)]'
              = [[k \in Msgs |-> ServedOf(k)] EXCEPT ![m] = ServedOf(m)']
BY DEF Kept, Abstract!Become

(* All that Delivery sees of a message.                                    *)
StatusFrom(isPushed, succeeded, failed, copies) ==
  IF ~isPushed THEN "absent"
  ELSE IF succeeded > 0 THEN "succeeded"
  ELSE IF failed > 0 THEN "failed"
  ELSE IF copies = {} THEN "lost"
  ELSE IF \E c \in copies : c.at \in AtWork THEN "trying"
  ELSE "waiting"

(* A status is a function of what is known of the message.                 *)
LEMMA StatusRead ==
  \A m : StatusOf(m) = StatusFrom(m \in pushed, success[m], failure[m], CopiesOf(m))
<1> SUFFICES ASSUME NEW m
             PROVE  StatusOf(m) = StatusFrom(m \in pushed, success[m], failure[m], CopiesOf(m))
  OBVIOUS
<1> QED  BY DEF StatusOf, StatusFrom, CopiesOf

(* The same of the next state.                                             *)
LEMMA StatusReadNext ==
  \A m : StatusOf(m)' = StatusFrom(m \in pushed', success'[m], failure'[m], CopiesOf(m)')
<1>1. (\A m : StatusOf(m) = StatusFrom(m \in pushed, success[m], failure[m], CopiesOf(m)))'
  BY StatusRead, PTL
<1> QED  BY <1>1

(* A step that concerns one message only.                                  *)
LEMMA OthersKept ==
  ASSUME NEW m,
         \A c : c.msg # m => (c \in Here' <=> c \in Here),
         \A k \in Msgs \ {m} :
           (k \in pushed' <=> k \in pushed) /\ success'[k] = success[k] /\ failure'[k] = failure[k]
  PROVE  \A k \in Msgs \ {m} : Kept(k)
<1> SUFFICES ASSUME NEW k \in Msgs \ {m}  PROVE Kept(k)
  OBVIOUS
<1>1. CopiesOf(k)' = CopiesOf(k)
  BY DEF CopiesOf, Here
<1>2. StatusOf(k)' = StatusOf(k)
  <2>1. (k \in pushed') = (k \in pushed) /\ success'[k] = success[k] /\ failure'[k] = failure[k]
    OBVIOUS
  <2> QED  BY <1>1, <2>1, StatusRead, StatusReadNext
<1>3. ServedOf(k)' = ServedOf(k)
  BY <1>1 DEF ServedOf
<1> QED  BY <1>2, <1>3 DEF Kept

(* A message without a copy before and after.                              *)
LEMMA KeptGone ==
  ASSUME Seen, Seen', NEW m \in Msgs, Gone(m), Gone(m)', UNCHANGED <<pushed, success, failure>>
  PROVE  Kept(m)
<1>1. CopiesOf(m)' = CopiesOf(m) /\ ServedOf(m)' = ServedOf(m)
  BY DEF Seen, SeenGone
<1>2. StatusOf(m)' = StatusOf(m)
  BY <1>1, StatusRead, StatusReadNext
<1> QED  BY <1>1, <1>2 DEF Kept

(* A copy moves, but not into or out of a dispatch.                        *)
LEMMA KeptMoved ==
  ASSUME Seen, Seen', NEW c \in Here, NEW d \in Here',
         d.msg = c.msg, d.cur = c.cur, d.at \in AtWork <=> c.at \in AtWork
  PROVE  Kept(c.msg)
<1>1. SeenAt(c) /\ SeenAt(d)'
  BY DEF Seen
<1> QED  BY <1>1 DEF SeenAt, Kept

(* The only copy of a message is gone and the message was not counted.     *)
LEMMA LostWhenGone ==
  ASSUME TypeInv, OnceInv, Seen, Seen', NEW c \in Here, Gone(c.msg)',
         UNCHANGED <<pushed, success, failure>>, c.msg \in Losable
  PROVE  LostNow(c.msg)
<1>1. SeenAt(c) /\ c.msg \in Msgs
  BY DEF Seen, SeenAt
<1>2. success[c.msg] \in Nat /\ failure[c.msg] \in Nat
  BY <1>1 DEF TypeInv
<1>3. c.msg \in pushed /\ ~(success[c.msg] > 0) /\ ~(failure[c.msg] > 0)
  BY <1>2 DEF OnceInv, Owned, Here
<1>4. SeenGone(c.msg)'
  BY <1>1 DEF Seen
<1>5. StatusOf(c.msg)' = "lost" /\ ServedOf(c.msg)' = 0
  BY <1>3, <1>4 DEF SeenGone
<1>6. StatusOf(c.msg) \in {"waiting", "trying"}
  BY <1>1 DEF SeenAt
<1> QED  BY <1>5, <1>6 DEF LostNow

(* Under which constants the abstract specification lets a message be      *)
(* lost.                                                                   *)
LEMMA LosableWhen ==
  /\ Losable \in SUBSET Msgs
  /\ \A m \in Msgs \ Readable : m \in Losable
  /\ Faults # {} \/ MaxStops # 0 \/ "null" \in Replies => Losable = Msgs
BY DEF Losable, Readable

(* The steps after which Delivery sees the same.                           *)
LEMMA SameSeen ==
  ASSUME UNCHANGED <<stored, held, pushed, success, failure>>
  PROVE  Abstract!Next
<1>1. \A m \in Msgs : Kept(m)
  BY DEF Kept, StatusOf, ServedOf, CopiesOf
<1> QED  BY <1>1, StutterOrLoss

(* One copy is replaced by another one of the same message and delay.      *)
LEMMA SeenMoved ==
  ASSUME Seen, Seen', NEW c \in Here, NEW d \in Here',
         d.msg = c.msg, d.cur = c.cur, d.at \in AtWork <=> c.at \in AtWork,
         \A e : e.msg # c.msg => (e \in Here' <=> e \in Here),
         UNCHANGED <<pushed, success, failure>>
  PROVE  Abstract!Next
<1>1. Kept(c.msg)
  BY KeptMoved
<1>2. \A k \in Msgs \ {c.msg} : Kept(k)
  BY OthersKept
<1> QED  BY <1>1, <1>2, StutterOrLoss

(* One copy is gone, its message not counted.                              *)
LEMMA SeenLost ==
  ASSUME TypeInv, OnceInv, Seen, Seen', NEW c \in Here, Here' = Here \ {c},
         UNCHANGED <<pushed, success, failure>>, c.msg \in Losable
  PROVE  Abstract!Next
<1>1. Gone(c.msg)' /\ \A e : e.msg # c.msg => (e \in Here' <=> e \in Here)
  BY DEF Gone, OnceInv, Unique, Here
<1>2. LostNow(c.msg)
  BY <1>1, LostWhenGone
<1>3. \A k \in Msgs \ {c.msg} : Kept(k)
  BY <1>1, OthersKept
<1> QED  BY <1>2, <1>3, StutterOrLoss

(* A held copy moves on in memory.                                         *)
LEMMA HeldMoved ==
  ASSUME TypeInv, OnceInv, NEW c \in held, NEW p \in HeldAt, held' = Moved(c, p), UNCHANGED stored
  PROVE  \E d \in Here' : /\ d.msg = c.msg /\ d.cur = c.cur /\ d.at = p
                          /\ \A e : e.msg # c.msg => (e \in Here' <=> e \in Here)
<1> DEFINE d == [c EXCEPT !.at = p]
<1>1. c \in Copy
  BY DEF TypeInv
<1>2. d.msg = c.msg /\ d.cur = c.cur /\ d.at = p
  BY <1>1, MovedCopy
<1>3. held' = (held \ {c}) \cup {d}
  BY DEF Moved
<1> HIDE DEF d
<1> QED  BY <1>2, <1>3 DEF Here

(* A message is pushed: Accept.                                            *)
LEMMA PushAccepts ==
  ASSUME TypeInv, OnceInv, Seen, Seen', NEW m \in Msgs, Push(m) \/ PushForeign(m)
  PROVE  Abstract!Next
<1>1. PICK d : d.msg = m /\ d.at \in StoredAt /\ d.cur = 0 /\ stored' = stored \cup {d}
  BY DEF Push, PushForeign, StoredAt
<1>2. /\ m \notin pushed /\ pushed' = pushed \cup {m}
      /\ UNCHANGED <<held, success, failure>>
  BY DEF Push, PushForeign
<1>3. Gone(m)
  BY <1>2 DEF Gone, OnceInv, Owned, Here
<1>4. SeenGone(m) /\ SeenAt(d)'
  BY <1>1, <1>3 DEF Seen, Here
<1>5. /\ StatusOf(m) = "absent" /\ StatusOf(m)' = "waiting"
      /\ ServedOf(m) = 0 /\ ServedOf(m)' = 0
  BY <1>1, <1>2, <1>4 DEF SeenGone, SeenAt, StoredAt, AtWork
<1>6. \A k \in Msgs \ {m} : Kept(k)
  <2>1. \A e : e.msg # m => (e \in Here' <=> e \in Here)
    BY <1>1, <1>2 DEF Here
  <2> QED  BY <1>2, <2>1, OthersKept
<1>7. Abstract!Become(m, "absent", "waiting")
  BY <1>5, <1>6, OneMoves
<1>8. UNCHANGED [k \in Msgs |-> ServedOf(k)]
  BY <1>5, <1>6 DEF Kept
<1>9. Abstract!Accept(m)
  BY <1>7, <1>8 DEF Abstract!Accept
<1> QED  BY <1>9 DEF Abstract!Next

(* A dispatch goroutine is started: Try.                                   *)
LEMMA SpawnTries ==
  ASSUME TypeInv, OnceInv, Seen, Seen', NEW c \in held, Spawn(c)
  PROVE  Abstract!Next
<1> DEFINE m == c.msg
<1>1. PICK d \in Here' : /\ d.msg = m /\ d.cur = c.cur /\ d.at = "post"
                         /\ \A e : e.msg # m => (e \in Here' <=> e \in Here)
  BY HeldMoved DEF Spawn, HeldAt
<1>2. SeenAt(c) /\ SeenAt(d)' /\ c.at = "batch" /\ UNCHANGED <<pushed, success, failure>>
  BY DEF Seen, Here, Spawn
<1>3. /\ StatusOf(m) = "waiting" /\ StatusOf(m)' = "trying" /\ ServedOf(m)' = ServedOf(m)
      /\ m \in Msgs
  BY <1>1, <1>2 DEF SeenAt, AtWork
<1>4. \A k \in Msgs \ {m} : Kept(k)
  BY <1>1, <1>2, OthersKept
<1> HIDE DEF m
<1>5. Abstract!Become(m, "waiting", "trying")
  BY <1>3, <1>4, OneMoves
<1>6. UNCHANGED [k \in Msgs |-> ServedOf(k)]
  BY <1>3, <1>4 DEF Kept
<1>7. Abstract!Try(m)
  BY <1>5, <1>6 DEF Abstract!Try
<1> QED  BY <1>3, <1>7 DEF Abstract!Next

(* A dispatch that ends with its message counted: Succeed or GiveUp.       *)
LEMMA Ended ==
  ASSUME TypeInv, OnceInv, OnceInv', Seen, Seen', NEW c \in held, c.at \in AtWork,
         held' = held \ {c}, UNCHANGED <<stored, pushed>>
  PROVE  /\ c.msg \in Msgs
         /\ StatusOf(c.msg) = "trying" /\ ServedOf(c.msg) = c.cur
         /\ ServedOf(c.msg)' = 0
         /\ success' = Counted(success, c.msg) /\ UNCHANGED failure
              => StatusOf(c.msg)' = "succeeded"
         /\ failure' = Counted(failure, c.msg) /\ UNCHANGED success
              => StatusOf(c.msg)' = "failed"
         /\ \/ success' = Counted(success, c.msg) /\ UNCHANGED failure
            \/ failure' = Counted(failure, c.msg) /\ UNCHANGED success
            => \A k \in Msgs \ {c.msg} : Kept(k)
<1>1. SeenAt(c)
  BY DEF Seen, Here
<1>2. Here' = Here \ {c}
  BY StoredNotHeld DEF Here
<1>3. Gone(c.msg)' /\ \A e : e.msg # c.msg => (e \in Here' <=> e \in Here)
  BY <1>2 DEF Gone, OnceInv, Unique, Here
<1>4. SeenGone(c.msg)'
  BY <1>1, <1>3 DEF SeenAt, Seen
<1>5. /\ c.msg \in pushed /\ success[c.msg] = 0 /\ failure[c.msg] = 0
  <2>1. success[c.msg] \in Nat /\ failure[c.msg] \in Nat
    BY <1>1 DEF TypeInv, SeenAt
  <2> QED  BY <2>1 DEF OnceInv, Owned
<1>6. ASSUME success' = Counted(success, c.msg), UNCHANGED failure
      PROVE  StatusOf(c.msg)' = "succeeded" /\ \A k \in Msgs \ {c.msg} : Kept(k)
  <2>1. success'[c.msg] = 1 /\ \A k \in Msgs \ {c.msg} : success'[k] = success[k]
    BY <1>1, <1>5, <1>6 DEF Counted, TypeInv, SeenAt
  <2>2. StatusOf(c.msg)' = "succeeded"
    BY <1>4, <1>5, <2>1 DEF SeenGone
  <2>3. \A k \in Msgs \ {c.msg} : Kept(k)
    BY <1>3, <1>6, <2>1, OthersKept
  <2> QED  BY <2>2, <2>3
<1>7. ASSUME failure' = Counted(failure, c.msg), UNCHANGED success
      PROVE  StatusOf(c.msg)' = "failed" /\ \A k \in Msgs \ {c.msg} : Kept(k)
  <2>1. failure'[c.msg] = 1 /\ \A k \in Msgs \ {c.msg} : failure'[k] = failure[k]
    BY <1>1, <1>5, <1>7 DEF Counted, TypeInv, SeenAt
  <2>2. StatusOf(c.msg)' = "failed"
    BY <1>4, <1>5, <1>7, <2>1 DEF SeenGone
  <2>3. \A k \in Msgs \ {c.msg} : Kept(k)
    BY <1>3, <1>7, <2>1, OthersKept
  <2> QED  BY <2>2, <2>3
<1>8. ServedOf(c.msg)' = 0
  BY <1>4 DEF SeenGone
<1> QED  BY <1>1, <1>6, <1>7, <1>8 DEF SeenAt

(* Counting a success is the abstract success.                             *)
LEMMA SuccessSucceeds ==
  ASSUME TypeInv, OnceInv, OnceInv', Seen, Seen', NEW c \in held, CountSuccess(c)
  PROVE  Abstract!Next
<1> DEFINE m == c.msg
<1>1. c.at \in AtWork /\ held' = held \ {c} /\ UNCHANGED <<stored, pushed, failure>>
  BY DEF CountSuccess, AtWork
<1>2. CASE success' = Counted(success, c.msg)
  <2>1. /\ m \in Msgs /\ StatusOf(m) = "trying" /\ StatusOf(m)' = "succeeded"
        /\ ServedOf(m)' = 0 /\ \A k \in Msgs \ {m} : Kept(k)
    BY <1>1, <1>2, Ended
  <2> HIDE DEF m
  <2>2. Abstract!Succeed(m)
    BY <2>1, OneMoves DEF Abstract!Succeed
  <2> QED  BY <2>1, <2>2 DEF Abstract!Next
<1>3. CASE "incr" \in Faults /\ UNCHANGED success
  <2>1. Losable = Msgs /\ Here' = Here \ {c} /\ c \in Here /\ c.msg \in Msgs
    BY <1>1, <1>3, LosableWhen, StoredNotHeld DEF Here, TypeInv, Copy
  <2> QED  BY <1>1, <1>3, <2>1, SeenLost
<1> QED  BY <1>2, <1>3 DEF CountSuccess

(* The next stage is what Delivery calls the least greater delay.          *)
LEMMA NextIsLeastGreater ==
  ASSUME TypeInv, TierInv, NEW c \in held, c.at = "failed"
  PROVE  /\ DelayFor(c) \in Int
         /\ DelayFor(c) <= 0 => Abstract!Greater(c.cur) = {}
         /\ DelayFor(c) > 0 => /\ DelayFor(c) \in Abstract!Greater(c.cur)
                               /\ \A e \in Abstract!Greater(c.cur) : DelayFor(c) <= e
<1>1. c \in Copy /\ OnTier(c) /\ DelayFor(c) \in Int /\ c.cur \in Int
  BY DelayForType DEF TypeInv, TierInv, Copy
<1>2. c.cur \in Stages(DelayOnFailure) /\ \A e \in AllTiers : e \in Int /\ e \in Stages(DelayOnFailure)
  BY <1>1, Tiered, StagesPositive, ConfigAssumption DEF OnTier, Stages
<1>3. \A d : Abstract!Greater(d) = {e \in AllTiers : d < e}
  BY DEF Abstract!Greater
<1>4. CASE /\ DelayFor(c) <= 0
           /\ UpTo(c.cur) = {0} \cup AllTiers
  <2>1. \A e \in AllTiers : e <= c.cur
    BY <1>4 DEF UpTo, StagesUpTo
  <2>2. Abstract!Greater(c.cur) = {}
    BY <1>1, <1>2, <1>3, <2>1
  <2> QED  BY <1>1, <1>4, <2>2
<1>5. CASE /\ DelayFor(c) > 0
           /\ DelayFor(c) \in AllTiers
           /\ Below(DelayFor(c)) = UpTo(c.cur)
  <2>1. c.cur \in UpTo(c.cur)
    BY <1>1, <1>2 DEF UpTo, StagesUpTo
  <2>2. c.cur < DelayFor(c)
    BY <1>5, <2>1 DEF Below, StagesBelow
  <2>3. ASSUME NEW e \in AllTiers, c.cur < e  PROVE DelayFor(c) <= e
    <3>1. e \notin Below(DelayFor(c))
      BY <1>1, <1>2, <1>5, <2>3 DEF UpTo, StagesUpTo
    <3> QED  BY <1>1, <1>2, <3>1 DEF Below, StagesBelow
  <2> QED  BY <1>1, <1>3, <1>5, <2>2, <2>3
<1> QED  BY <1>1, <1>4, <1>5, DelayForAbove DEF AtWork

(* Writing a message into the retry queue is an abstract retry.            *)
LEMMA RequeueRetries ==
  ASSUME TypeInv, OnceInv, TierInv, Seen, Seen', NEW c \in held, Requeue(c)
  PROVE  Abstract!Next
<1> DEFINE m == c.msg
<1>1. /\ c.at = "failed" /\ DelayFor(c) > 0 /\ c.msg \in Msgs /\ c \in Here
      /\ held' = held \ {c} /\ UNCHANGED <<pushed, success, failure>>
  BY DEF Requeue, TypeInv, Copy, Here
<1>2. CASE stored' = stored \cup {Delayed(c)}
  <2> DEFINE new == Delayed(c)
  <2>0. new.msg = m /\ new.at = "zset" /\ new.cur = DelayFor(c) /\ stored' = stored \cup {new}
    BY <1>2 DEF Delayed
  <2> HIDE DEF new
  <2>1. PICK d : d.msg = m /\ d.at = "zset" /\ d.cur = DelayFor(c) /\ stored' = stored \cup {d}
    BY <2>0
  <2>2. d \in Here' /\ \A e : e.msg # m => (e \in Here' <=> e \in Here)
    BY <1>1, <2>1 DEF Here
  <2>3. SeenAt(c) /\ SeenAt(d)'
    BY <1>1, <2>2 DEF Seen
  <2>4. /\ StatusOf(m) = "trying" /\ StatusOf(m)' = "waiting"
        /\ ServedOf(m) = c.cur /\ ServedOf(m)' = DelayFor(c)
    BY <1>1, <2>1, <2>3 DEF SeenAt, AtWork
  <2>5. \A k \in Msgs \ {m} : Kept(k)
    BY <1>1, <2>2, OthersKept
  <2>6. /\ DelayFor(c) \in Abstract!Greater(c.cur)
        /\ \A e \in Abstract!Greater(c.cur) : DelayFor(c) <= e
    BY <1>1, NextIsLeastGreater
  <2>7. m \in Msgs
    BY <1>1
  <2> HIDE DEF m
  <2>8. Abstract!Become(m, "trying", "waiting")
    BY <2>4, <2>5, <2>7, OneMoves
  <2>9. [k \in Msgs |-> ServedOf(k)]'
          = [[k \in Msgs |-> ServedOf(k)] EXCEPT ![m] = DelayFor(c)]
    BY <2>4, <2>5, <2>7, OneMoves
  <2>10. [k \in Msgs |-> ServedOf(k)][m] = c.cur
    BY <2>4, <2>7
  <2>11. Abstract!Retry(m)
    BY <2>6, <2>8, <2>9, <2>10 DEF Abstract!Retry
  <2> QED  BY <2>7, <2>11 DEF Abstract!Next
<1>3. CASE "zadd" \in Faults /\ UNCHANGED stored
  <2>1. Losable = Msgs /\ Here' = Here \ {c}
    BY <1>1, <1>3, LosableWhen, StoredNotHeld DEF Here
  <2> QED  BY <1>1, <2>1, SeenLost
<1> QED  BY <1>2, <1>3 DEF Requeue

(* Counting a failure is the abstract failure, after all tiers.            *)
LEMMA GiveUpGivesUp ==
  ASSUME "encode" \notin Faults,
         TypeInv, OnceInv, OnceInv', TierInv, Seen, Seen', NEW c \in held, GiveUp(c)
  PROVE  Abstract!Next
<1> DEFINE m == c.msg
<1>1. /\ c.at = "failed" /\ DelayFor(c) <= 0 /\ held' = held \ {c}
      /\ UNCHANGED <<stored, pushed, success>>
  BY DEF GiveUp
<1>2. CASE failure' = Counted(failure, c.msg)
  <2>1. /\ m \in Msgs /\ StatusOf(m) = "trying" /\ StatusOf(m)' = "failed"
        /\ ServedOf(m) = c.cur /\ ServedOf(m)' = 0 /\ \A k \in Msgs \ {m} : Kept(k)
    BY <1>1, <1>2, Ended DEF AtWork
  <2>2. Abstract!Greater(c.cur) = {}
    BY <1>1, NextIsLeastGreater
  <2> HIDE DEF m
  <2>3. [k \in Msgs |-> ServedOf(k)][m] = c.cur
    BY <2>1
  <2>4. Abstract!GiveUp(m)
    BY <2>1, <2>2, <2>3, OneMoves DEF Abstract!GiveUp
  <2> QED  BY <2>1, <2>4 DEF Abstract!Next
<1>3. CASE "incr" \in Faults /\ UNCHANGED failure
  <2>1. Losable = Msgs /\ Here' = Here \ {c} /\ c \in Here /\ c.msg \in Msgs
    BY <1>1, <1>3, LosableWhen, StoredNotHeld DEF Here, TypeInv, Copy
  <2> QED  BY <1>1, <1>3, <2>1, SeenLost
<1> QED  BY <1>2, <1>3 DEF GiveUp

(* An element is popped; its answer may be lost.                           *)
LEMMA PopSeen ==
  ASSUME TypeInv, OnceInv, Seen, Seen', NEW c \in stored, Pop(c)
  PROVE  Abstract!Next
<1> DEFINE d == [c EXCEPT !.at = "popped"]
<1>1. c \in Copy /\ "popped" \in HeldAt /\ c \in Here /\ c.msg \in Msgs
  BY DEF TypeInv, HeldAt, Copy, Here
<1>2. d.msg = c.msg /\ d.cur = c.cur /\ d.at = "popped"
  BY <1>1, MovedCopy
<1>3. /\ c.at = "list" /\ stored' = stored \ {c} /\ UNCHANGED <<pushed, success, failure>>
      /\ \/ held' = held \cup {d}
         \/ "rpop" \in Faults /\ UNCHANGED held
  BY DEF Pop
<1> HIDE DEF d
<1>4. CASE held' = held \cup {d}
  <2>1. d \in Here' /\ \A e : e.msg # c.msg => (e \in Here' <=> e \in Here)
    BY <1>2, <1>3, <1>4 DEF Here
  <2>2. d.at \in AtWork <=> c.at \in AtWork
    BY <1>2, <1>3 DEF AtWork
  <2> QED  BY <1>1, <1>2, <1>3, <2>1, <2>2, SeenMoved
<1>5. CASE "rpop" \in Faults /\ UNCHANGED held
  <2>1. Losable = Msgs /\ Here' = Here \ {c}
    BY <1>3, <1>5, LosableWhen, StoredNotHeld DEF Here
  <2> QED  BY <1>1, <1>3, <2>1, SeenLost
<1> QED  BY <1>3, <1>4, <1>5

(* All that is due moves to the batch; what cannot be read, or all if the  *)
(* answer is lost, is lost together.                                       *)
LEMMA DelayPopSeen ==
  ASSUME TypeInv, OnceInv, PopInv, Seen, Seen', NEW l \in Loops, DelayPop(l)
  PROVE  Abstract!Next
<1> DEFINE due == {c \in stored : c.at = "zset" /\ c.loop = l /\ Due(c)}
           read == {c \in due : Unwraps(c)}
           batch == {[c EXCEPT !.at = "batch"] : c \in read}
<1>1. /\ pc[l] = "pop" /\ stored' = stored \ due
      /\ \/ held' = held \cup batch
         \/ "exec" \in Faults /\ held' = held
      /\ UNCHANGED <<pushed, success, failure>>
  BY DEF DelayPop
<1>2. ASSUME NEW c \in read
      PROVE  \E d \in batch : d.msg = c.msg /\ d.cur = c.cur /\ d.at = "batch"
  <2>1. c \in Copy /\ "batch" \in HeldAt
    BY DEF TypeInv, HeldAt
  <2> DEFINE d == [c EXCEPT !.at = "batch"]
  <2>2. d \in batch /\ d.msg = c.msg /\ d.cur = c.cur /\ d.at = "batch"
    BY <2>1, MovedCopy
  <2> HIDE DEF d, batch
  <2> QED  BY <2>2
<1>3. ASSUME NEW d \in batch  PROVE \E c \in read : d.msg = c.msg
  <2>1. PICK c \in read : d = [c EXCEPT !.at = "batch"]
    OBVIOUS
  <2>2. c \in Copy /\ "batch" \in HeldAt
    BY DEF TypeInv, HeldAt
  <2>3. d.msg = c.msg
    BY <2>1, <2>2, MovedCopy
  <2> QED  BY <2>3
<1>4. ASSUME NEW c \in due, c \notin read  PROVE c.msg \in Losable
  <2>1. c.loop = l /\ ~Unwraps(c) /\ c.msg \in Msgs
    BY <1>4 DEF TypeInv, Copy
  <2>2. c.msg \notin Readable
    BY <1>1, <2>1, ReadableUnwraps
  <2> QED  BY <2>1, <2>2, LosableWhen
<1>5. /\ due \subseteq stored /\ read \subseteq due
      /\ \A c \in due : c.at = "zset"
  OBVIOUS
<1> HIDE DEF due, read, batch
<1>6. ASSUME NEW m \in Msgs  PROVE Kept(m) \/ LostNow(m)
  <2>1. CASE \E c \in Here : c.msg = m
    <3>1. PICK c \in Here : c.msg = m
      BY <2>1
    <3>2. \A e \in Here : e.msg = m => e = c
      BY <3>1 DEF OnceInv, Unique, Here
    <3>3. CASE c \notin due
      <4>1. c \in Here'
        BY <1>1, <3>3 DEF Here
      <4> QED  BY <3>1, <4>1, KeptMoved
    <3>4. CASE c \in read /\ held' = held \cup batch
      <4>1. PICK d \in batch : d.msg = c.msg /\ d.cur = c.cur /\ d.at = "batch"
        BY <1>2, <3>4
      <4>2. d \in Here'
        BY <3>4, <4>1 DEF Here
      <4>3. c.at \notin AtWork /\ d.at \notin AtWork
        BY <1>5, <3>4, <4>1 DEF AtWork
      <4> QED  BY <3>1, <4>1, <4>2, <4>3, KeptMoved
    <3>5. CASE c \in due /\ (c \notin read \/ (held' = held /\ "exec" \in Faults))
      <4>1. c.msg \in Losable
        BY <1>4, <3>1, <3>5, LosableWhen
      <4>2. c \notin held
        BY <1>5, <3>5, StoredNotHeld
      <4>3. Gone(c.msg)'
        <5>1. ASSUME NEW e \in Here', e.msg = c.msg  PROVE FALSE
          <6>1. e \notin stored' /\ e \notin held
            BY <1>1, <3>1, <3>2, <3>5, <4>2, <5>1 DEF Here
          <6>2. e \in batch /\ held' = held \cup batch
            BY <1>1, <5>1, <6>1 DEF Here
          <6>3. PICK b \in read : e.msg = b.msg
            BY <1>3, <6>2
          <6>4. b = c
            BY <1>5, <3>1, <3>2, <5>1, <6>3 DEF Here
          <6>5. held' = held /\ e \in held'
            BY <3>5, <5>1, <6>1, <6>3, <6>4 DEF Here
          <6> QED  BY <6>1, <6>5
        <5> QED  BY <5>1 DEF Gone
      <4> QED  BY <1>1, <3>1, <4>1, <4>3, LostWhenGone
    <3>6. held' = held \cup batch \/ ("exec" \in Faults /\ held' = held)
      BY <1>1
    <3> QED  BY <3>3, <3>4, <3>5, <3>6
  <2>2. CASE ~\E c \in Here : c.msg = m
    <3>1. Gone(m)
      BY <2>2 DEF Gone
    <3>2. Gone(m)'
      <4>1. \A e \in Here' : e \in Here \/ e \in batch
        BY <1>1, <1>5 DEF Here
      <4>2. \A e \in batch : e.msg # m
        BY <1>3, <1>5, <2>2 DEF Here
      <4> QED  BY <2>2, <4>1, <4>2 DEF Gone
    <3> QED  BY <1>1, <3>1, <3>2, KeptGone
  <2> QED  BY <2>1, <2>2
<1> QED  BY <1>6, StutterOrLoss

(* The process ends: everything in its memory is lost together.            *)
LEMMA MemoryLostSeen ==
  ASSUME TypeInv, OnceInv, Seen, Seen', MemoryLost, Losable = Msgs
  PROVE  Abstract!Next
<1>1. held' = {} /\ UNCHANGED <<stored, pushed, success, failure>> /\ Here' = stored
  BY DEF MemoryLost, Here
<1>2. ASSUME NEW m \in Msgs  PROVE Kept(m) \/ LostNow(m)
  <2>1. ASSUME NEW c \in stored, c.msg = m  PROVE Kept(m)
    <3>1. c \in Here /\ c \in Here'
      BY <1>1 DEF Here
    <3> QED  BY <2>1, <3>1, KeptMoved
  <2>2. ASSUME NEW c \in held, c.msg = m  PROVE LostNow(m)
    <3>1. c \in Here /\ Gone(c.msg)'
      BY <1>1, StoredNotHeld DEF Gone, OnceInv, Unique, Here
    <3> QED  BY <1>1, <2>2, <3>1, LostWhenGone
  <2>3. ASSUME Gone(m)  PROVE Kept(m)
    <3>1. Gone(m)'
      BY <1>1, <2>3 DEF Gone, Here
    <3> QED  BY <1>1, <2>3, <3>1, KeptGone
  <2> QED  BY <2>1, <2>2, <2>3 DEF Gone, Here
<1> QED  BY <1>2, StutterOrLoss

(* The initial states map to initial states.                               *)
LEMMA DeliveryInit == Init => Abstract!Init
<1> SUFFICES ASSUME Init  PROVE Abstract!Init
  OBVIOUS
<1>1. ASSUME NEW m \in Msgs  PROVE StatusOf(m) = "absent" /\ ServedOf(m) = 0
  <2>1. Seen
    BY TypeInvInit, OnceInvInit, SeenCorrect
  <2>2. Gone(m) /\ m \notin pushed
    BY DEF Init, Gone, Here
  <2> QED  BY <2>1, <2>2 DEF Seen, SeenGone
<1> QED  BY <1>1 DEF Abstract!Init

(* Every step maps to a step or to a stutter.                              *)
LEMMA DeliveryNext ==
  ASSUME "encode" \notin Faults
  PROVE  TypeInv /\ OnceInv /\ TierInv /\ PopInv /\ Seen
         /\ TypeInv' /\ OnceInv' /\ Seen' /\ [Next]_vars => Abstract!Next
<1> SUFFICES ASSUME TypeInv, OnceInv, TierInv, PopInv, Seen, TypeInv', OnceInv', Seen', [Next]_vars
             PROVE  Abstract!Next
  OBVIOUS
<1>1. ASSUME \/ Tick \/ QueueHandle \/ StartMain \/ UNCHANGED vars
             \/ \E l \in Loops : Acquire(l)
      PROVE  Abstract!Next
  BY <1>1, SameSeen DEF Tick, QueueHandle, StartMain, Acquire, vars
<1>2. ASSUME Stop  PROVE Abstract!Next
  <2>1. MemoryLost /\ MaxStops # 0
    BY <1>2 DEF Stop, TypeInv
  <2> QED  BY <2>1, MemoryLostSeen, LosableWhen
<1>3. ASSUME NEW c \in held, ReplyNull(c)  PROVE Abstract!Next
  BY <1>3, MemoryLostSeen, LosableWhen DEF ReplyNull
<1>4. ASSUME NEW c \in held, Deliver(c) \/ Receive(c) \/ Reply(c)  PROVE Abstract!Next
  <2>1. PICK p \in HeldAt : /\ held' = Moved(c, p) /\ (p \in AtWork <=> c.at \in AtWork)
                            /\ UNCHANGED <<stored, pushed, success, failure>>
    BY <1>4 DEF Deliver, Receive, Reply, HeldAt, AtWork
  <2>2. PICK d \in Here' : /\ d.msg = c.msg /\ d.cur = c.cur /\ d.at = p
                           /\ \A e : e.msg # c.msg => (e \in Here' <=> e \in Here)
    BY <2>1, HeldMoved
  <2>3. c \in Here
    BY DEF Here
  <2> QED  BY <2>1, <2>2, <2>3, SeenMoved
<1>5. ASSUME NEW c \in held, SpawnUndecodable(c)  PROVE Abstract!Next
  <2>1. Here' = Here \ {c} /\ c \in Here /\ UNCHANGED <<pushed, success, failure>>
    BY <1>5, StoredNotHeld DEF SpawnUndecodable, Here
  <2>2. c.msg \in Losable
    <3>1. c.msg \in Msgs /\ c.msg \notin Readable
      BY <1>5, ReadableDecodes DEF SpawnUndecodable, TypeInv, Copy
    <3> QED  BY <3>1, LosableWhen
  <2> QED  BY <2>1, <2>2, SeenLost
<1>6. ASSUME NEW c \in held, Spawn(c) \/ CountSuccess(c) \/ Requeue(c) \/ GiveUp(c)
      PROVE  Abstract!Next
  BY <1>6, SpawnTries, SuccessSucceeds, RequeueRetries, GiveUpGivesUp
<1>7. ASSUME NEW m \in Msgs, Push(m) \/ PushForeign(m)  PROVE Abstract!Next
  BY <1>7, PushAccepts
<1>8. ASSUME NEW c \in stored, Pop(c)  PROVE Abstract!Next
  BY <1>8, PopSeen
<1>9. ASSUME NEW l \in Loops, DelayPop(l)  PROVE Abstract!Next
  BY <1>9, DelayPopSeen
<1> QED
  BY <1>1, <1>2, <1>3, <1>4, <1>5, <1>6, <1>7, <1>8, <1>9 DEF Next, Fetching, Dispatching

(* RedisQueue implements Delivery: whatever the goroutines, Redis, the     *)
(* receivers and the stops of the process do, a message is tried, retried  *)
(* with the next delay, counted once, and lost only where Losable says.    *)
(* (An encoding error would give a message up with delays left.)           *)
THEOREM DeliveryPromiseHolds ==
  ASSUME "encode" \notin Faults
  PROVE  Spec => DeliveryPromise
<1>1. Init => Abstract!Init
  BY DeliveryInit
<1>2. Init => PopInv
  BY MemoryInvInit
<1>3. TypeInv /\ OnceInv /\ TierInv /\ PopInv /\ Seen
      /\ TypeInv' /\ OnceInv' /\ Seen' /\ [Next]_vars
        => [Abstract!Next]_<<[m \in Msgs |-> StatusOf(m)], [m \in Msgs |-> ServedOf(m)]>>
  BY DeliveryNext
<1> QED
  BY <1>1, <1>2, <1>3, TypeInvInit, TypeInvNext, OnceInvInit, OnceInvNext, TierInvInit,
     TierInvNext, PopInvNext, SeenCorrect, SeenNext, PTL
  DEF Spec, DeliveryPromise, Abstract!Spec
=============================================================================
