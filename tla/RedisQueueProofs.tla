-------------------------- MODULE RedisQueueProofs --------------------------
(***************************************************************************)
(* Theorems about RedisQueue, for every value of its constants.            *)
(***************************************************************************)
EXTENDS RedisQueue, RetryScheduleProofs, FiniteSetTheorems, TLAPS

(* The delays the code computes are integers, and a retry's delay is       *)
(* greater than the one already served.                                    *)
LEMMA DelayForType ==
  ASSUME NEW c \in Copy
  PROVE  /\ DelayFor(c) \in Int
         /\ c.loop = "retry" => DelayFor(c) = 0 \/ DelayFor(c) > c.cur
BY ConfigAssumption, FirstDelayType, NextDelayGreater
   DEF DelayFor, DelayAfter, RunMode, Copy, Loops

(* Moving a copy changes its place and nothing else.                       *)
LEMMA MovedCopy ==
  ASSUME NEW c \in Copy, NEW p \in StoredAt \cup HeldAt
  PROVE  LET d == [c EXCEPT !.at = p]
         IN  /\ d \in Copy
             /\ d.at = p
             /\ d.msg = c.msg
             /\ d.loop = c.loop
             /\ d.score = c.score
             /\ d.cur = c.cur
BY DEF Copy
-----------------------------------------------------------------------------
(***************************************************************************)
(* Types.  TypeOK is not inductive: that slots stays a natural number      *)
(* needs the accounting of slots below.  TypeInv leaves that open and adds *)
(* that the sets of copies are finite.                                     *)
(***************************************************************************)
TypeInv ==
  /\ stored \in SUBSET {c \in Copy : c.at \in StoredAt}
  /\ held \in SUBSET {c \in Copy : c.at \in HeldAt}
  /\ IsFiniteSet(stored)
  /\ IsFiniteSet(held)
  /\ pc \in [Loops -> {"off", "sleep", "idle", "pop", "spawn"}]
  /\ slots \in [Loops -> Int]
  /\ success \in [Msgs -> Nat]
  /\ failure \in [Msgs -> Nat]
  /\ now \in Nat
  /\ stops \in Nat
  /\ pushed \in SUBSET Msgs
  /\ tried \in [Msgs -> SUBSET Int]
  /\ failedAt \in [Msgs -> Int]

(* A copy that moves within memory.                                        *)
LEMMA MovedHeld ==
  ASSUME TypeInv, NEW c \in held, NEW p \in HeldAt
  PROVE  /\ Moved(c, p) \in SUBSET {d \in Copy : d.at \in HeldAt}
         /\ IsFiniteSet(Moved(c, p))
<1> DEFINE d == [c EXCEPT !.at = p]
<1>1. c \in Copy
  BY DEF TypeInv
<1>2. d \in Copy /\ d.at = p
  BY <1>1, MovedCopy DEF StoredAt, HeldAt
<1> HIDE DEF d
<1>3. IsFiniteSet((held \ {c}) \cup {d})
  BY FS_AddElement, FS_RemoveElement DEF TypeInv
<1>4. Moved(c, p) = (held \ {c}) \cup {d}
  BY DEF Moved, d
<1> QED  BY <1>2, <1>3, <1>4 DEF TypeInv

(* Tokens are integers.                                                    *)
LEMMA SlotsType ==
  ASSUME TypeInv, NEW l \in Loops
  PROVE  Taken(l) \in [Loops -> Int] /\ Released(l) \in [Loops -> Int]
BY DEF TypeInv, Taken, Released

(* The invariant holds at first.                                           *)
LEMMA TypeInvInit == Init => TypeInv
BY FS_EmptySet DEF Init, TypeInv, Never

(* Every step keeps it.                                                    *)
LEMMA TypeInvNext == TypeInv /\ [Next]_vars => TypeInv'
<1> SUFFICES ASSUME TypeInv, [Next]_vars  PROVE TypeInv'
  OBVIOUS
<1>1. ASSUME NEW m \in Msgs, Push(m)  PROVE TypeInv'
  <2>1. CASE ~IsDelayQueue
    <3> DEFINE d == [msg |-> m, at |-> "list", loop |-> "main", score |-> 0, cur |-> 0]
    <3>1. d \in Copy /\ d.at \in StoredAt
      BY DEF Copy, StoredAt, Loops
    <3>2. stored' = stored \cup {d}
      BY <1>1, <2>1 DEF Push
    <3> HIDE DEF d
    <3>3. IsFiniteSet(stored')
      BY <3>2, FS_AddElement DEF TypeInv
    <3> QED  BY <1>1, <3>1, <3>2, <3>3 DEF Push, TypeInv
  <2>2. CASE IsDelayQueue
    <3>1. PICK t \in 0..MaxTime : stored' = stored \cup
            {[msg |-> m, at |-> "zset", loop |-> "main", score |-> t, cur |-> 0]}
      BY <1>1, <2>2 DEF Push
    <3> DEFINE d == [msg |-> m, at |-> "zset", loop |-> "main", score |-> t, cur |-> 0]
    <3>2. d \in Copy /\ d.at \in StoredAt
      BY ConfigAssumption DEF Copy, StoredAt, Loops
    <3>3. stored' = stored \cup {d}
      BY <3>1
    <3> HIDE DEF d
    <3>4. IsFiniteSet(stored')
      BY <3>3, FS_AddElement DEF TypeInv
    <3> QED  BY <1>1, <3>2, <3>3, <3>4 DEF Push, TypeInv
  <2> QED  BY <2>1, <2>2
<1>2. ASSUME NEW m \in Msgs, PushForeign(m)  PROVE TypeInv'
  <2> DEFINE d == [msg |-> m, at |-> "zset", loop |-> "retry", score |-> now, cur |-> 0]
  <2>1. d \in Copy /\ d.at \in StoredAt
    BY DEF TypeInv, Copy, StoredAt, Loops
  <2>2. stored' = stored \cup {d}
    BY <1>2 DEF PushForeign
  <2> HIDE DEF d
  <2>3. IsFiniteSet(stored')
    BY <2>2, FS_AddElement DEF TypeInv
  <2> QED  BY <1>2, <2>1, <2>2, <2>3 DEF PushForeign, TypeInv
<1>3. CASE Tick
  BY <1>3 DEF Tick, TypeInv
<1>4. ASSUME MemoryLost, stops' \in Nat  PROVE TypeInv'
  BY <1>4, FS_EmptySet DEF MemoryLost, TypeInv
<1>5. CASE Stop
  BY <1>4, <1>5 DEF Stop, TypeInv
<1>6. CASE QueueHandle
  BY <1>6 DEF QueueHandle, TypeInv, Loops
<1>7. CASE StartMain
  BY <1>7 DEF StartMain, TypeInv, Loops
<1>8. ASSUME NEW c \in stored, Pop(c)  PROVE TypeInv'
  <2> DEFINE d == [c EXCEPT !.at = "popped"]
  <2>1. d \in Copy /\ d.at \in HeldAt
    BY MovedCopy DEF TypeInv, HeldAt
  <2>2. held' = held \cup {d} \/ held' = held
    BY <1>8 DEF Pop
  <2> HIDE DEF d
  <2>3. IsFiniteSet(held') /\ IsFiniteSet(stored \ {c})
    BY <2>2, FS_AddElement, FS_RemoveElement DEF TypeInv
  <2> QED  BY <1>8, <2>1, <2>2, <2>3 DEF Pop, TypeInv
<1>9. ASSUME NEW c \in held, Deliver(c)  PROVE TypeInv'
  BY <1>9, MovedHeld DEF Deliver, TypeInv, HeldAt
<1>10. ASSUME NEW c \in held, Receive(c)  PROVE TypeInv'
  BY <1>10, MovedHeld DEF Receive, TypeInv, HeldAt, Loops
<1>11. ASSUME NEW l \in Loops, Acquire(l)  PROVE TypeInv'
  BY <1>11, SlotsType DEF Acquire, TypeInv
<1>12. ASSUME NEW l \in Loops, DelayPop(l)  PROVE TypeInv'
  <2> DEFINE due == {c \in stored : c.at = "zset" /\ c.loop = l /\ Due(c)}
             read == {c \in due : Unwraps(c)}
             batch == {[c EXCEPT !.at = "batch"] : c \in read}
  <2>1. /\ stored' = stored \ due
        /\ held' = held \cup batch \/ held' = held
        /\ pc' = [pc EXCEPT ![l] = "idle"] \/ pc' = [pc EXCEPT ![l] = "spawn"]
        /\ slots' = Released(l)
        /\ UNCHANGED <<success, failure, now, stops, pushed, tried, failedAt>>
    BY <1>12 DEF DelayPop
  <2>2. batch \in SUBSET {c \in Copy : c.at \in HeldAt}
    <3>1. ASSUME NEW c \in read
          PROVE  [c EXCEPT !.at = "batch"] \in {e \in Copy : e.at \in HeldAt}
      <4>1. c \in Copy /\ "batch" \in HeldAt
        BY <3>1 DEF TypeInv, HeldAt
      <4> QED  BY <4>1, MovedCopy
    <3> HIDE DEF read
    <3> QED  BY <3>1
  <2>3. IsFiniteSet(read) /\ IsFiniteSet(stored \ due)
    BY FS_Subset DEF TypeInv
  <2>4. IsFiniteSet(batch)
    <3> HIDE DEF read
    <3> DEFINE move == [c \in read |-> [c EXCEPT !.at = "batch"]]
    <3>1. move \in Surjection(read, batch)
      BY DEF Surjection
    <3> QED  BY <2>3, <3>1, FS_Surjection
  <2> HIDE DEF batch
  <2>5. IsFiniteSet(held \cup batch)
    BY <2>4, FS_Union DEF TypeInv
  <2> QED  BY <2>1, <2>2, <2>3, <2>5, SlotsType DEF TypeInv
<1>13. ASSUME NEW c \in held, Spawn(c)  PROVE TypeInv'
  <2>1. c.loop \in Loops
    BY DEF TypeInv, Copy
  <2>2. AfterSpawn(c) \in [Loops -> {"off", "sleep", "idle", "pop", "spawn"}]
    BY DEF AfterSpawn, TypeInv
  <2> QED  BY <1>13, <2>1, <2>2, MovedHeld, SlotsType DEF Spawn, TypeInv, HeldAt
<1>14. ASSUME NEW c \in held, SpawnUndecodable(c)  PROVE TypeInv'
  <2>1. c.loop \in Loops
    BY DEF TypeInv, Copy
  <2>2. AfterSpawn(c) \in [Loops -> {"off", "sleep", "idle", "pop", "spawn"}]
    BY DEF AfterSpawn, TypeInv
  <2> QED  BY <1>14, <2>1, <2>2, SlotsType, FS_RemoveElement DEF SpawnUndecodable, TypeInv
<1>15. ASSUME NEW c \in held, Reply(c)  PROVE TypeInv'
  <2>1. c.msg \in Msgs /\ c.cur \in Int
    BY DEF TypeInv, Copy
  <2>2. held' = Moved(c, "ok") \/ held' = Moved(c, "failed")
    BY <1>15 DEF Reply
  <2>3. tried' \in [Msgs -> SUBSET Int] /\ failedAt' \in [Msgs -> Int]
    BY <1>15, <2>1 DEF Reply, TypeInv
  <2> QED  BY <1>15, <2>2, <2>3, MovedHeld DEF Reply, TypeInv, HeldAt
<1>16. ASSUME NEW c \in held, ReplyNull(c)  PROVE TypeInv'
  BY <1>4, <1>16 DEF ReplyNull, TypeInv
<1>17. ASSUME NEW c \in held, CountSuccess(c)  PROVE TypeInv'
  <2>1. c.loop \in Loops /\ c.msg \in Msgs
    BY DEF TypeInv, Copy
  <2> QED  BY <1>17, <2>1, SlotsType, FS_RemoveElement DEF CountSuccess, Counted, TypeInv
<1>18. ASSUME NEW c \in held, Requeue(c)  PROVE TypeInv'
  <2> DEFINE d == Delayed(c)
  <2>1. c \in Copy /\ c.loop \in Loops /\ c.msg \in Msgs /\ c.cur \in Int
    BY DEF TypeInv, Copy
  <2>2. DelayFor(c) \in Int /\ TriggerTime(c) \in Int
    BY <2>1, DelayForType DEF TriggerTime, TypeInv
  <2>3. d \in Copy /\ d.at \in StoredAt
    BY <2>1, <2>2 DEF Delayed, Copy, StoredAt, Loops
  <2>4. stored' = stored \cup {d} \/ stored' = stored
    BY <1>18 DEF Requeue
  <2> HIDE DEF d
  <2>5. IsFiniteSet(stored') /\ IsFiniteSet(held \ {c})
    BY <2>4, FS_AddElement, FS_RemoveElement DEF TypeInv
  <2> QED  BY <1>18, <2>1, <2>3, <2>4, <2>5, SlotsType DEF Requeue, TypeInv
<1>19. ASSUME NEW c \in held, GiveUp(c)  PROVE TypeInv'
  <2>1. c.loop \in Loops /\ c.msg \in Msgs
    BY DEF TypeInv, Copy
  <2> QED  BY <1>19, <2>1, SlotsType, FS_RemoveElement DEF GiveUp, Counted, TypeInv
<1>20. CASE UNCHANGED vars
  BY <1>20 DEF vars, TypeInv
<1> QED
  BY <1>1, <1>2, <1>3, <1>5, <1>6, <1>7, <1>8, <1>9, <1>10, <1>11, <1>12, <1>13,
     <1>14, <1>15, <1>16, <1>17, <1>18, <1>19, <1>20 DEF Next, Fetching, Dispatching

(* Every reachable state has the types the code's declarations give it,    *)
(* and the messages in Redis and in memory are finitely many.              *)
THEOREM TypeCorrect == Spec => []TypeInv
<1> QED  BY TypeInvInit, TypeInvNext, PTL DEF Spec
-----------------------------------------------------------------------------
(***************************************************************************)
(* Custody: where a message is kept.  AtMostOnce is inductive once it is   *)
(* known that only a pushed message has copies or was counted.             *)
(***************************************************************************)
Unique(S) == \A c, d \in S : c.msg = d.msg => c = d

Owned(S) == \A c \in S : c.msg \in pushed /\ success[c.msg] + failure[c.msg] = 0

OnceInv ==
  /\ Unique(stored \cup held)
  /\ Owned(stored \cup held)
  /\ \A m \in Msgs : success[m] + failure[m] <= 1
  /\ \A m \in Msgs \ pushed : success[m] + failure[m] = 0

(* Stored and held copies are never the same: they say where they are.     *)
LEMMA StoredNotHeld ==
  ASSUME TypeInv
  PROVE  stored \cap held = {}
BY DEF TypeInv, StoredAt, HeldAt

(* Replacing the copy of a message by another one, or by none, keeps it    *)
(* the only one.                                                           *)
LEMMA UniqueReplaced ==
  ASSUME NEW S, Unique(S), Owned(S), NEW c \in S,
         NEW d, d.msg = c.msg,
         NEW T, T \subseteq (S \ {c}) \cup {d}
  PROVE  Unique(T) /\ Owned(T)
BY DEF Unique, Owned

(* Fewer copies are as unique, and as owned.                               *)
LEMMA UniqueSubset ==
  ASSUME NEW S, Unique(S), Owned(S), NEW T, T \subseteq S
  PROVE  Unique(T) /\ Owned(T)
BY DEF Unique, Owned

(* The steps that neither push nor count a message.                        *)
LEMMA OnceKept ==
  ASSUME OnceInv, Unique(stored' \cup held'), Owned(stored' \cup held'),
         UNCHANGED <<pushed, success, failure>>
  PROVE  OnceInv'
BY DEF OnceInv, Unique, Owned

(* A held copy moves on in memory.                                         *)
LEMMA OnceMoved ==
  ASSUME TypeInv, OnceInv, NEW c \in held, NEW p \in HeldAt,
         held' = Moved(c, p), UNCHANGED <<stored, pushed, success, failure>>
  PROVE  OnceInv'
<1> DEFINE d == [c EXCEPT !.at = p]
<1>1. c \in Copy
  BY DEF TypeInv
<1>2. d.msg = c.msg
  BY <1>1, MovedCopy DEF StoredAt, HeldAt
<1>3. stored' \cup held' \subseteq ((stored \cup held) \ {c}) \cup {d}
  BY StoredNotHeld DEF Moved
<1> HIDE DEF d
<1> QED  BY <1>2, <1>3, UniqueReplaced, OnceKept DEF OnceInv

(* A copy is gone and its message is not counted.                          *)
LEMMA OnceDropped ==
  ASSUME OnceInv, stored' \cup held' \subseteq stored \cup held,
         UNCHANGED <<pushed, success, failure>>
  PROVE  OnceInv'
BY UniqueSubset, OnceKept DEF OnceInv

(* A held copy is gone and its message is counted.                         *)
LEMMA OnceCounted ==
  ASSUME TypeInv, OnceInv, NEW c \in held, held' = held \ {c},
         UNCHANGED <<stored, pushed>>,
         \/ success' = Counted(success, c.msg) /\ UNCHANGED failure
         \/ failure' = Counted(failure, c.msg) /\ UNCHANGED success
  PROVE  OnceInv'
<1>1. c.msg \in pushed /\ c.msg \in Msgs /\ success[c.msg] + failure[c.msg] = 0
  BY DEF TypeInv, Copy, OnceInv, Owned
<1>2. \A m \in Msgs : success[m] \in Nat /\ failure[m] \in Nat
  BY DEF TypeInv
<1>3. \A m \in Msgs : m # c.msg => success'[m] = success[m] /\ failure'[m] = failure[m]
  BY DEF TypeInv, Counted
<1>4. success'[c.msg] + failure'[c.msg] = 1
  BY <1>1, <1>2 DEF TypeInv, Counted
<1>5. \A e \in stored' \cup held' : e \in stored \cup held /\ e.msg \in Msgs /\ e.msg # c.msg
  BY StoredNotHeld DEF TypeInv, Copy, OnceInv, Unique
<1>6. Unique(stored' \cup held')
  BY <1>5 DEF OnceInv, Unique
<1>7. \A e \in stored' \cup held' :
        e.msg \in pushed' /\ success'[e.msg] + failure'[e.msg] = 0
  BY <1>3, <1>5 DEF OnceInv, Owned
<1>8. \A m \in Msgs : success'[m] + failure'[m] <= 1
  BY <1>3, <1>4 DEF OnceInv
<1>9. \A m \in Msgs \ pushed' : success'[m] + failure'[m] = 0
  BY <1>1, <1>3 DEF OnceInv
<1> QED  BY <1>6, <1>7, <1>8, <1>9 DEF OnceInv, Unique, Owned

(* The invariant holds at first.                                           *)
LEMMA OnceInvInit == Init => OnceInv
BY DEF Init, OnceInv, Unique, Owned

(* Every step keeps it.                                                    *)
LEMMA OnceInvNext == TypeInv /\ OnceInv /\ [Next]_vars => OnceInv'
<1> SUFFICES ASSUME TypeInv, OnceInv, [Next]_vars  PROVE OnceInv'
  OBVIOUS
<1>1. ASSUME NEW m \in Msgs \ pushed, NEW d, d.msg = m,
             stored' = stored \cup {d}, pushed' = pushed \cup {m},
             UNCHANGED <<held, success, failure>>
      PROVE  OnceInv'
  BY <1>1 DEF OnceInv, Unique, Owned
<1>2. ASSUME NEW m \in Msgs, Push(m)  PROVE OnceInv'
  <2>1. PICK d : d.msg = m /\ stored' = stored \cup {d}
    BY <1>2 DEF Push
  <2> QED  BY <1>1, <1>2, <2>1 DEF Push
<1>3. ASSUME NEW m \in Msgs, PushForeign(m)  PROVE OnceInv'
  <2>1. PICK d : d.msg = m /\ stored' = stored \cup {d}
    BY <1>3 DEF PushForeign
  <2> QED  BY <1>1, <1>3, <2>1 DEF PushForeign
<1>4. CASE Tick
  BY <1>4, OnceDropped DEF Tick
<1>5. CASE Stop
  BY <1>5, OnceDropped DEF Stop, MemoryLost
<1>6. CASE QueueHandle
  BY <1>6, OnceDropped DEF QueueHandle
<1>7. CASE StartMain
  BY <1>7, OnceDropped DEF StartMain
<1>8. ASSUME NEW c \in stored, Pop(c)  PROVE OnceInv'
  <2> DEFINE d == [c EXCEPT !.at = "popped"]
  <2>1. c \in Copy /\ "popped" \in HeldAt
    BY DEF TypeInv, HeldAt
  <2>2. d.msg = c.msg
    BY <2>1, MovedCopy
  <2>3. stored' \cup held' \subseteq ((stored \cup held) \ {c}) \cup {d}
    BY <1>8, StoredNotHeld DEF Pop
  <2> HIDE DEF d
  <2> QED  BY <1>8, <2>2, <2>3, UniqueReplaced, OnceKept DEF OnceInv, Pop
<1>9. ASSUME NEW c \in held, Deliver(c)  PROVE OnceInv'
  BY <1>9, OnceMoved DEF Deliver, HeldAt
<1>10. ASSUME NEW c \in held, Receive(c)  PROVE OnceInv'
  BY <1>10, OnceMoved DEF Receive, HeldAt
<1>11. ASSUME NEW l \in Loops, Acquire(l)  PROVE OnceInv'
  BY <1>11, OnceDropped DEF Acquire
<1>12. ASSUME NEW l \in Loops, DelayPop(l)  PROVE OnceInv'
  <2> DEFINE due == {c \in stored : c.at = "zset" /\ c.loop = l /\ Due(c)}
             read == {c \in due : Unwraps(c)}
             batch == {[c EXCEPT !.at = "batch"] : c \in read}
  <2>1. /\ stored' = stored \ due
        /\ held' = held \cup batch \/ held' = held
        /\ UNCHANGED <<pushed, success, failure>>
    BY <1>12 DEF DelayPop
  <2>2. CASE held' = held
    BY <2>1, <2>2, OnceDropped
  <2>3. CASE held' = held \cup batch
    <3>1. \A e \in batch : \E c \in due : e = [c EXCEPT !.at = "batch"] /\ e.msg = c.msg
      <4> SUFFICES ASSUME NEW c \in read
                   PROVE  [c EXCEPT !.at = "batch"].msg = c.msg
        OBVIOUS
      <4>1. c \in Copy /\ "batch" \in HeldAt
        BY DEF TypeInv, HeldAt
      <4> QED  BY <4>1, MovedCopy
    <3>2. due \subseteq stored /\ stored' = stored \ due
      BY <2>1
    <3> HIDE DEF due, batch
    <3>3. Unique(stored' \cup held')
      BY <2>3, <3>1, <3>2, StoredNotHeld DEF OnceInv, Unique
    <3>4. Owned(stored' \cup held')
      BY <2>3, <3>1, <3>2 DEF OnceInv, Owned
    <3> QED  BY <2>1, <3>3, <3>4, OnceKept
  <2> QED  BY <2>1, <2>2, <2>3
<1>13. ASSUME NEW c \in held, Spawn(c)  PROVE OnceInv'
  BY <1>13, OnceMoved DEF Spawn, HeldAt
<1>14. ASSUME NEW c \in held, SpawnUndecodable(c)  PROVE OnceInv'
  BY <1>14, OnceDropped DEF SpawnUndecodable
<1>15. ASSUME NEW c \in held, Reply(c)  PROVE OnceInv'
  <2>1. held' = Moved(c, "ok") \/ held' = Moved(c, "failed")
    BY <1>15 DEF Reply
  <2> QED  BY <1>15, <2>1, OnceMoved DEF Reply, HeldAt
<1>16. ASSUME NEW c \in held, ReplyNull(c)  PROVE OnceInv'
  BY <1>16, OnceDropped DEF ReplyNull, MemoryLost
<1>17. ASSUME NEW c \in held, CountSuccess(c)  PROVE OnceInv'
  <2>1. CASE UNCHANGED success
    BY <1>17, <2>1, OnceDropped DEF CountSuccess
  <2>2. CASE success' = Counted(success, c.msg)
    BY <1>17, <2>2, OnceCounted DEF CountSuccess
  <2> QED  BY <1>17, <2>1, <2>2 DEF CountSuccess
<1>18. ASSUME NEW c \in held, Requeue(c)  PROVE OnceInv'
  <2> DEFINE d == Delayed(c)
  <2>1. d.msg = c.msg
    BY DEF Delayed
  <2>2. stored' \cup held' \subseteq ((stored \cup held) \ {c}) \cup {d}
    BY <1>18, StoredNotHeld DEF Requeue
  <2> HIDE DEF d
  <2> QED  BY <1>18, <2>1, <2>2, UniqueReplaced, OnceKept DEF OnceInv, Requeue
<1>19. ASSUME NEW c \in held, GiveUp(c)  PROVE OnceInv'
  <2>1. CASE UNCHANGED failure
    BY <1>19, <2>1, OnceDropped DEF GiveUp
  <2>2. CASE failure' = Counted(failure, c.msg)
    BY <1>19, <2>2, OnceCounted DEF GiveUp
  <2> QED  BY <1>19, <2>1, <2>2 DEF GiveUp
<1>20. CASE UNCHANGED vars
  BY <1>20, OnceDropped DEF vars
<1> QED
  BY <1>2, <1>3, <1>4, <1>5, <1>6, <1>7, <1>8, <1>9, <1>10, <1>11, <1>12, <1>13,
     <1>14, <1>15, <1>16, <1>17, <1>18, <1>19, <1>20 DEF Next, Fetching, Dispatching

(* However many goroutines, stops, faults and foreign entries there are, a *)
(* message is in at most one place, is counted at most once, and is in no  *)
(* place once it was counted.                                              *)
THEOREM AtMostOnceHolds == Spec => []AtMostOnce
<1>1. OnceInv => AtMostOnce
  BY DEF OnceInv, Unique, Owned, AtMostOnce
<1> QED  BY <1>1, TypeInvInit, TypeInvNext, OnceInvInit, OnceInvNext, PTL DEF Spec
-----------------------------------------------------------------------------
(***************************************************************************)
(* The concurrency control: what the tokens in the channels concurency     *)
(* stand for, and therefore how many dispatches can be at work.            *)
(***************************************************************************)
(* Where the goroutine of a loop is, compared with the copies it has in    *)
(* hand.                                                                   *)
LoopInv ==
  /\ pc["main"] = "off" => pc["retry"] = "off" /\ held = {}
  /\ \A c \in held : c.at = "batch" => pc[c.loop] = "spawn"
  /\ \A c \in stored \cup held : c.at \in {"list", "popped", "channel"} => c.loop = "main"

(* The invariant holds at first.                                           *)
LEMMA LoopInvInit == Init => LoopInv
BY DEF Init, LoopInv, Loops

(* A held copy that moves on to a place behind the batch.                  *)
LEMMA LoopMoved ==
  ASSUME TypeInv, LoopInv, NEW c \in held, NEW p \in AtWork,
         held' = Moved(c, p), UNCHANGED <<stored, pc>>
  PROVE  LoopInv'
<1> DEFINE d == [c EXCEPT !.at = p]
<1>1. c \in Copy /\ p \in HeldAt
  BY DEF TypeInv, AtWork, HeldAt
<1>2. d.at = p
  BY <1>1, MovedCopy
<1>3. held' = (held \ {c}) \cup {d}
  BY DEF Moved
<1> HIDE DEF d
<1>4. d.at \notin {"batch", "list", "popped", "channel"}
  BY <1>2 DEF AtWork
<1> QED  BY <1>3, <1>4 DEF LoopInv

(* Fewer copies at the same places of the loops.                           *)
LEMMA LoopDropped ==
  ASSUME TypeInv, LoopInv, held' \subseteq held, stored' \subseteq stored, UNCHANGED pc
  PROVE  LoopInv'
BY DEF LoopInv

(* The loop's goroutine starts a dispatch and goes on with its batch.      *)
LEMMA AfterSpawnKeeps ==
  ASSUME TypeInv, LoopInv, NEW c \in held, c.at = "batch", pc' = AfterSpawn(c)
  PROVE  /\ pc["main"] # "off" /\ pc'["main"] # "off"
         /\ \A b \in held \ {c} : b.at = "batch" => pc'[b.loop] = "spawn"
         /\ \A l \in Loops : pc[l] = "pop" <=> pc'[l] = "pop"
<1>1. c.loop \in Loops /\ pc[c.loop] = "spawn" /\ pc["main"] # "off"
  BY DEF TypeInv, Copy, LoopInv
<1>2. pc'[c.loop] \in {"idle", "spawn"} /\ \A l \in Loops \ {c.loop} : pc'[l] = pc[l]
  BY <1>1 DEF AfterSpawn, TypeInv
<1>3. ASSUME NEW b \in held \ {c}, b.at = "batch"  PROVE pc'[b.loop] = "spawn"
  <2>1. b.loop \in Loops /\ pc[b.loop] = "spawn"
    BY <1>3 DEF TypeInv, Copy, LoopInv
  <2>2. CASE b.loop = c.loop
    <3>1. BatchOf(c.loop) # {c}
      BY <1>3, <2>2 DEF BatchOf
    <3> QED  BY <1>1, <2>2, <3>1 DEF AfterSpawn, TypeInv
  <2>3. CASE b.loop # c.loop
    BY <1>2, <2>1, <2>3
  <2> QED  BY <2>2, <2>3
<1> QED  BY <1>1, <1>2, <1>3 DEF Loops

(* Every step keeps it.                                                    *)
LEMMA LoopInvNext == TypeInv /\ LoopInv /\ [Next]_vars => LoopInv'
<1> SUFFICES ASSUME TypeInv, LoopInv, [Next]_vars  PROVE LoopInv'
  OBVIOUS
<1>1. ASSUME NEW m \in Msgs, Push(m)  PROVE LoopInv'
  BY <1>1 DEF Push, LoopInv
<1>2. ASSUME NEW m \in Msgs, PushForeign(m)  PROVE LoopInv'
  BY <1>2 DEF PushForeign, LoopInv
<1>3. CASE Tick
  BY <1>3, LoopDropped DEF Tick
<1>4. ASSUME MemoryLost  PROVE LoopInv'
  BY <1>4 DEF MemoryLost, LoopInv, Loops
<1>5. CASE Stop
  BY <1>4, <1>5 DEF Stop
<1>6. CASE QueueHandle
  BY <1>6 DEF QueueHandle, LoopInv
<1>7. CASE StartMain
  <2>1. /\ pc["main"] = "sleep" /\ pc'["main"] = "idle" /\ pc'["retry"] = pc["retry"]
        /\ UNCHANGED <<stored, held>>
    BY <1>7 DEF StartMain, TypeInv, Loops
  <2>2. \A c \in held : c.loop \in Loops
    BY DEF TypeInv, Copy
  <2> QED  BY <2>1, <2>2 DEF LoopInv, Loops
<1>8. ASSUME NEW c \in stored, Pop(c)  PROVE LoopInv'
  <2> DEFINE d == [c EXCEPT !.at = "popped"]
  <2>1. c \in Copy /\ "popped" \in HeldAt
    BY DEF TypeInv, HeldAt
  <2>2. d.at = "popped" /\ d.loop = c.loop
    BY <2>1, MovedCopy
  <2>3. /\ c.at = "list" /\ pc["main"] # "off" /\ UNCHANGED pc
        /\ stored' = stored \ {c} /\ (held' = held \cup {d} \/ held' = held)
    BY <1>8 DEF Pop, Consuming
  <2> HIDE DEF d
  <2> QED  BY <2>2, <2>3 DEF LoopInv
<1>9. ASSUME NEW c \in held, Deliver(c)  PROVE LoopInv'
  <2> DEFINE d == [c EXCEPT !.at = "channel"]
  <2>1. c \in Copy /\ "channel" \in HeldAt
    BY DEF TypeInv, HeldAt
  <2>2. d.at = "channel" /\ d.loop = c.loop
    BY <2>1, MovedCopy
  <2>3. c.at = "popped" /\ held' = (held \ {c}) \cup {d} /\ UNCHANGED <<stored, pc>>
    BY <1>9 DEF Deliver, Moved
  <2> HIDE DEF d
  <2> QED  BY <2>2, <2>3 DEF LoopInv
<1>10. ASSUME NEW c \in held, Receive(c)  PROVE LoopInv'
  <2> DEFINE d == [c EXCEPT !.at = "batch"]
  <2>1. c \in Copy /\ "batch" \in HeldAt
    BY DEF TypeInv, HeldAt
  <2>2. d.at = "batch" /\ d.loop = c.loop
    BY <2>1, MovedCopy
  <2>3. /\ c.at = "channel" /\ held' = (held \ {c}) \cup {d} /\ UNCHANGED stored
        /\ pc["main"] = "idle" /\ pc'["main"] = "spawn" /\ pc'["retry"] = pc["retry"]
    BY <1>10 DEF Receive, Moved, TypeInv, Loops
  <2> HIDE DEF d
  <2>4. \A b \in held : b.loop \in Loops
    BY DEF TypeInv, Copy
  <2> QED  BY <2>2, <2>3, <2>4 DEF LoopInv, Loops
<1>11. ASSUME NEW l \in Loops, Acquire(l)  PROVE LoopInv'
  <2>1. /\ pc[l] = "idle" /\ pc'[l] = "pop" /\ UNCHANGED <<stored, held>>
        /\ \A k \in Loops \ {l} : pc'[k] = pc[k]
    BY <1>11 DEF Acquire, TypeInv
  <2>2. \A c \in held : c.loop \in Loops
    BY DEF TypeInv, Copy
  <2> QED  BY <2>1, <2>2 DEF LoopInv, Loops
<1>12. ASSUME NEW l \in Loops, DelayPop(l)  PROVE LoopInv'
  <2> DEFINE due == {c \in stored : c.at = "zset" /\ c.loop = l /\ Due(c)}
             read == {c \in due : Unwraps(c)}
             batch == {[c EXCEPT !.at = "batch"] : c \in read}
  <2>1. /\ pc[l] = "pop"
        /\ stored' = stored \ due
        /\ \/ held' = held \cup batch
              /\ pc' = [pc EXCEPT ![l] = IF read = {} THEN "idle" ELSE "spawn"]
           \/ held' = held /\ pc' = [pc EXCEPT ![l] = "idle"]
    BY <1>12 DEF DelayPop
  <2>2. ASSUME NEW e \in batch
        PROVE  e.at = "batch" /\ e.loop = l /\ read # {}
    <3>1. PICK c \in read : e = [c EXCEPT !.at = "batch"]
      OBVIOUS
    <3>2. c \in Copy /\ "batch" \in HeldAt /\ c.loop = l
      BY DEF TypeInv, HeldAt
    <3> HIDE DEF read
    <3> QED  BY <3>1, <3>2, MovedCopy
  <2> HIDE DEF due, read, batch
  <2>3. pc'[l] \in {"idle", "spawn"} /\ \A k \in Loops \ {l} : pc'[k] = pc[k]
    BY <2>1 DEF TypeInv
  <2>4. pc["main"] # "off" /\ pc'["main"] # "off"
    BY <2>1, <2>3 DEF LoopInv, Loops
  <2>5. \A c \in held : c.at = "batch" => c.loop # l /\ c.loop \in Loops
    BY <2>1 DEF LoopInv, TypeInv, Copy
  <2>6. \A c \in held' : c.at = "batch" => pc'[c.loop] = "spawn"
    <3> SUFFICES ASSUME NEW c \in held', c.at = "batch"  PROVE pc'[c.loop] = "spawn"
      OBVIOUS
    <3>1. CASE c \in held
      BY <2>3, <2>5, <3>1 DEF LoopInv
    <3>2. CASE c \notin held
      <4>1. held' = held \cup batch /\ c \in batch
        BY <2>1, <3>2
      <4>2. c.loop = l /\ pc' = [pc EXCEPT ![l] = "spawn"] 
        BY <2>1, <2>2, <3>2, <4>1
      <4> QED  BY <4>2 DEF TypeInv
    <3> QED  BY <3>1, <3>2
  <2>7. \A c \in stored' \cup held' :
          c.at \in {"list", "popped", "channel"} => c.loop = "main"
    BY <2>1, <2>2 DEF LoopInv
  <2> QED  BY <2>4, <2>6, <2>7 DEF LoopInv
<1>13. ASSUME NEW c \in held, Spawn(c)  PROVE LoopInv'
  <2> DEFINE d == [c EXCEPT !.at = "post"]
  <2>1. c \in Copy /\ "post" \in HeldAt
    BY DEF TypeInv, HeldAt
  <2>2. d.at = "post"
    BY <2>1, MovedCopy
  <2>3. /\ c.at = "batch" /\ held' = (held \ {c}) \cup {d} /\ UNCHANGED stored
        /\ pc' = AfterSpawn(c)
    BY <1>13 DEF Spawn, Moved
  <2> HIDE DEF d
  <2> QED  BY <2>2, <2>3, AfterSpawnKeeps DEF LoopInv
<1>14. ASSUME NEW c \in held, SpawnUndecodable(c)  PROVE LoopInv'
  BY <1>14, AfterSpawnKeeps DEF SpawnUndecodable, LoopInv
<1>15. ASSUME NEW c \in held, Reply(c)  PROVE LoopInv'
  <2>1. held' = Moved(c, "ok") \/ held' = Moved(c, "failed")
    BY <1>15 DEF Reply
  <2> QED  BY <1>15, <2>1, LoopMoved DEF Reply, AtWork
<1>16. ASSUME NEW c \in held, ReplyNull(c)  PROVE LoopInv'
  BY <1>4, <1>16 DEF ReplyNull
<1>17. ASSUME NEW c \in held, CountSuccess(c)  PROVE LoopInv'
  BY <1>17, LoopDropped DEF CountSuccess
<1>18. ASSUME NEW c \in held, Requeue(c)  PROVE LoopInv'
  BY <1>18 DEF Requeue, Delayed, LoopInv
<1>19. ASSUME NEW c \in held, GiveUp(c)  PROVE LoopInv'
  BY <1>19, LoopDropped DEF GiveUp
<1>20. CASE UNCHANGED vars
  BY <1>20, LoopDropped DEF vars
<1> QED
  BY <1>1, <1>2, <1>3, <1>5, <1>6, <1>7, <1>8, <1>9, <1>10, <1>11, <1>12, <1>13,
     <1>14, <1>15, <1>16, <1>17, <1>18, <1>19, <1>20 DEF Next, Fetching, Dispatching
-----------------------------------------------------------------------------
(***************************************************************************)
(* The tokens of a loop.  That Foreign is empty matters only for the exact *)
(* count: SpawnUndecodable leaves its token in the channel.                *)
(***************************************************************************)
SlotsInv ==
  \A l \in Loops :
    /\ Cardinality(Working(l)) + Inside(l) <= slots[l]
    /\ slots[l] <= Capacity(l)
    /\ Foreign = {} => slots[l] = Cardinality(Working(l)) + Inside(l)

(* A loop has finitely many dispatches at work.                            *)
LEMMA WorkingFinite ==
  ASSUME TypeInv, NEW l \in Loops
  PROVE  IsFiniteSet(Working(l)) /\ Cardinality(Working(l)) \in Nat
<1>1. Working(l) \in SUBSET held
  BY DEF Working
<1> QED  BY <1>1, FS_Subset, FS_CardinalityType DEF TypeInv

(* A channel has a capacity.                                               *)
LEMMA CapacityNat ==
  ASSUME NEW l \in Loops
  PROVE  Capacity(l) \in Nat
BY ConfigAssumption DEF Capacity

(* A copy that moves in memory joins the copies at work, stays with them,  *)
(* or has nothing to do with them.                                         *)
LEMMA WorkingMoved ==
  ASSUME TypeInv, OnceInv, NEW c \in held, NEW p \in HeldAt, held' = Moved(c, p),
         NEW l \in Loops
  PROVE  /\ c.loop # l => Working(l)' = Working(l)
         /\ c.at \notin AtWork /\ p \notin AtWork => Working(l)' = Working(l)
         /\ c.at \in AtWork /\ p \in AtWork
              => Cardinality(Working(l)') = Cardinality(Working(l))
         /\ c.loop = l /\ c.at \notin AtWork /\ p \in AtWork
              => Cardinality(Working(l)') = Cardinality(Working(l)) + 1
<1> DEFINE d == [c EXCEPT !.at = p]
<1>1. c \in Copy
  BY DEF TypeInv
<1>2. d.at = p /\ d.loop = c.loop /\ d.msg = c.msg
  BY <1>1, MovedCopy DEF StoredAt, HeldAt
<1>3. held' = (held \ {c}) \cup {d}
  BY DEF Moved
<1> HIDE DEF d
<1>4. d \notin held \ {c}
  BY <1>2 DEF OnceInv, Unique
<1>5. c.loop # l => Working(l)' = Working(l)
  BY <1>2, <1>3 DEF Working
<1>6. c.at \notin AtWork /\ p \notin AtWork => Working(l)' = Working(l)
  BY <1>2, <1>3 DEF Working
<1>7. CASE c.loop = l /\ p \in AtWork
  <2>1. Working(l)' = (Working(l) \ {c}) \cup {d} /\ d \notin Working(l) \ {c}
    BY <1>2, <1>3, <1>4, <1>7 DEF Working
  <2>2. c \in Working(l) <=> c.at \in AtWork
    BY <1>7 DEF Working
  <2>3. /\ IsFiniteSet(Working(l) \ {c})
        /\ Cardinality(Working(l) \ {c}) =
             IF c \in Working(l) THEN Cardinality(Working(l)) - 1
                                 ELSE Cardinality(Working(l))
    BY WorkingFinite, FS_RemoveElement
  <2>4. Cardinality(Working(l)') = Cardinality(Working(l) \ {c}) + 1
    BY <2>1, <2>3, FS_AddElement
  <2> QED  BY <1>6, <1>7, <2>2, <2>3, <2>4, WorkingFinite
<1>8. CASE c.loop # l
  BY <1>5, <1>8
<1>9. CASE p \notin AtWork
  BY <1>5, <1>6, <1>9
<1> QED  BY <1>7, <1>8, <1>9

(* A dispatch that is done is one less at work in its loop only.           *)
LEMMA WorkingRemoved ==
  ASSUME TypeInv, NEW c \in held, held' = held \ {c}, NEW l \in Loops
  PROVE  /\ c.loop # l \/ c.at \notin AtWork => Working(l)' = Working(l)
         /\ c.loop = l /\ c.at \in AtWork
              => Cardinality(Working(l)') = Cardinality(Working(l)) - 1
<1>1. c.loop # l \/ c.at \notin AtWork => Working(l)' = Working(l)
  BY DEF Working
<1>2. CASE c.loop = l /\ c.at \in AtWork
  <2>1. Working(l)' = Working(l) \ {c} /\ c \in Working(l)
    BY <1>2 DEF Working
  <2> QED  BY <1>2, <2>1, WorkingFinite, FS_RemoveElement
<1> QED  BY <1>1, <1>2

(* As many at work and inside DelayPop as before, and as many tokens.      *)
LEMMA SlotsKept ==
  ASSUME SlotsInv, UNCHANGED slots,
         \A l \in Loops : /\ Cardinality(Working(l)') = Cardinality(Working(l))
                          /\ Inside(l)' = Inside(l)
  PROVE  SlotsInv'
BY DEF SlotsInv, Capacity, RunMode

(* The last statement of a dispatch: the copy goes and its token with it.  *)
LEMMA SlotsReleased ==
  ASSUME TypeInv, SlotsInv, NEW c \in held, c.at \in AtWork, held' = held \ {c},
         slots' = Released(c.loop), UNCHANGED pc
  PROVE  SlotsInv'
<1> SUFFICES ASSUME NEW l \in Loops
             PROVE  /\ Cardinality(Working(l)') + Inside(l)' <= slots'[l]
                    /\ slots'[l] <= Capacity(l)
                    /\ Foreign = {} => slots'[l] = Cardinality(Working(l)') + Inside(l)'
  BY DEF SlotsInv, Capacity, RunMode
<1>1. Inside(l)' = Inside(l) /\ Inside(l) \in {0, 1}
  BY DEF Inside
<1>2. c.loop \in Loops /\ slots[l] \in Int
  BY DEF TypeInv, Copy
<1>3. CASE c.loop = l
  <2>1. slots'[l] = slots[l] - 1
    BY <1>2, <1>3 DEF Released, TypeInv
  <2>2. Cardinality(Working(l)') = Cardinality(Working(l)) - 1
    BY <1>3, WorkingRemoved
  <2> QED  BY <1>1, <1>2, <2>1, <2>2, WorkingFinite, CapacityNat DEF SlotsInv
<1>4. CASE c.loop # l
  <2>1. slots'[l] = slots[l]
    BY <1>2, <1>4 DEF Released, TypeInv
  <2>2. Working(l)' = Working(l)
    BY <1>4, WorkingRemoved
  <2> QED  BY <1>1, <2>1, <2>2 DEF SlotsInv
<1> QED  BY <1>3, <1>4

(* The invariant holds at first.                                           *)
LEMMA SlotsInvInit == Init => SlotsInv
<1> SUFFICES ASSUME Init, NEW l \in Loops
             PROVE  Cardinality(Working(l)) = 0 /\ Inside(l) = 0 /\ slots[l] = 0
  BY CapacityNat DEF SlotsInv
<1>1. Working(l) = {}
  BY DEF Init, Working
<1> QED  BY <1>1, FS_EmptySet DEF Init, Inside

(* Every step keeps it.                                                    *)
LEMMA SlotsInvNext ==
  TypeInv /\ OnceInv /\ LoopInv /\ SlotsInv /\ [Next]_vars => SlotsInv'
<1> SUFFICES ASSUME TypeInv, OnceInv, LoopInv, SlotsInv, [Next]_vars  PROVE SlotsInv'
  OBVIOUS
<1>1. ASSUME UNCHANGED <<held, pc, slots>>  PROVE SlotsInv'
  BY <1>1, SlotsKept DEF Working, Inside
<1>2. ASSUME MemoryLost  PROVE SlotsInv'
  <2> SUFFICES ASSUME NEW l \in Loops
               PROVE  Cardinality(Working(l)') = 0 /\ Inside(l)' = 0 /\ slots'[l] = 0
    BY CapacityNat DEF SlotsInv, Capacity, RunMode
  <2>1. Working(l)' = {}
    BY <1>2 DEF MemoryLost, Working
  <2> QED  BY <1>2, <2>1, FS_EmptySet DEF MemoryLost, Inside
<1>3. CASE QueueHandle
  <2>1. \A l \in Loops : Inside(l) = 0 /\ Inside(l)' = 0
    BY <1>3 DEF QueueHandle, LoopInv, Inside, Loops
  <2> QED  BY <1>3, <2>1, SlotsKept DEF QueueHandle, Working
<1>4. CASE StartMain
  <2>1. \A l \in Loops : Inside(l)' = Inside(l)
    BY <1>4 DEF StartMain, Inside, Loops, TypeInv
  <2> QED  BY <1>4, <2>1, SlotsKept DEF StartMain, Working
<1>5. ASSUME NEW c \in stored, Pop(c)  PROVE SlotsInv'
  <2> DEFINE d == [c EXCEPT !.at = "popped"]
  <2>1. c \in Copy /\ "popped" \in HeldAt
    BY DEF TypeInv, HeldAt
  <2>2. d.at \notin AtWork
    BY <2>1, MovedCopy DEF AtWork
  <2>3. (held' = held \cup {d} \/ held' = held) /\ UNCHANGED <<pc, slots>>
    BY <1>5 DEF Pop
  <2> HIDE DEF d
  <2>4. \A l \in Loops : Working(l)' = Working(l) /\ Inside(l)' = Inside(l)
    BY <2>2, <2>3 DEF Working, Inside
  <2> QED  BY <2>3, <2>4, SlotsKept
<1>6. ASSUME NEW c \in held, Deliver(c)  PROVE SlotsInv'
  <2>1. /\ c.at \notin AtWork /\ "channel" \in HeldAt \ AtWork
        /\ held' = Moved(c, "channel") /\ UNCHANGED <<pc, slots>>
    BY <1>6 DEF Deliver, AtWork, HeldAt
  <2>2. \A l \in Loops : Working(l)' = Working(l) /\ Inside(l)' = Inside(l)
    BY <2>1, WorkingMoved DEF Inside
  <2> QED  BY <2>1, <2>2, SlotsKept
<1>7. ASSUME NEW c \in held, Receive(c)  PROVE SlotsInv'
  <2>1. /\ c.at \notin AtWork /\ "batch" \in HeldAt \ AtWork
        /\ held' = Moved(c, "batch") /\ UNCHANGED slots
    BY <1>7 DEF Receive, AtWork, HeldAt
  <2>2. \A l \in Loops : Inside(l)' = Inside(l)
    BY <1>7 DEF Receive, Inside, Loops, TypeInv
  <2>3. \A l \in Loops : Working(l)' = Working(l)
    BY <2>1, WorkingMoved
  <2> QED  BY <2>1, <2>2, <2>3, SlotsKept
<1>8. ASSUME NEW k \in Loops, Acquire(k)  PROVE SlotsInv'
  <2> SUFFICES ASSUME NEW l \in Loops
               PROVE  /\ Cardinality(Working(l)') + Inside(l)' <= slots'[l]
                      /\ slots'[l] <= Capacity(l)
                      /\ Foreign = {} => slots'[l] = Cardinality(Working(l)') + Inside(l)'
    BY DEF SlotsInv, Capacity, RunMode
  <2>1. Working(l)' = Working(l)
    BY <1>8 DEF Acquire, Working
  <2>2. CASE k = l
    <3>1. Inside(l) = 0 /\ Inside(l)' = 1
      BY <1>8, <2>2 DEF Acquire, Inside, TypeInv
    <3>2. slots'[l] = slots[l] + 1 /\ slots[l] < Capacity(l) /\ slots[l] \in Int
      BY <1>8, <2>2 DEF Acquire, Taken, Free, TypeInv
    <3> QED  BY <2>1, <3>1, <3>2, WorkingFinite, CapacityNat DEF SlotsInv
  <2>3. CASE k # l
    <3>1. Inside(l)' = Inside(l) /\ slots'[l] = slots[l]
      BY <1>8, <2>3 DEF Acquire, Inside, Taken, TypeInv
    <3> QED  BY <2>1, <3>1 DEF SlotsInv
  <2> QED  BY <2>2, <2>3
<1>9. ASSUME NEW k \in Loops, DelayPop(k)  PROVE SlotsInv'
  <2> DEFINE due == {c \in stored : c.at = "zset" /\ c.loop = k /\ Due(c)}
             read == {c \in due : Unwraps(c)}
             batch == {[c EXCEPT !.at = "batch"] : c \in read}
  <2>1. /\ pc[k] = "pop" /\ pc'[k] # "pop" /\ \A l \in Loops \ {k} : pc'[l] = pc[l]
        /\ slots' = Released(k)
        /\ held' = held \cup batch \/ held' = held
    BY <1>9 DEF DelayPop, TypeInv
  <2>2. ASSUME NEW e \in batch  PROVE e.at \notin AtWork
    <3>1. PICK c \in read : e = [c EXCEPT !.at = "batch"]
      OBVIOUS
    <3>2. c \in Copy /\ "batch" \in HeldAt
      BY DEF TypeInv, HeldAt
    <3> HIDE DEF read
    <3>3. e.at = "batch"
      BY <3>1, <3>2, MovedCopy
    <3> QED  BY <3>3 DEF AtWork
  <2> HIDE DEF batch
  <2>3. \A l \in Loops : Working(l)' = Working(l)
    BY <2>1, <2>2 DEF Working
  <2> SUFFICES ASSUME NEW l \in Loops
               PROVE  /\ Cardinality(Working(l)') + Inside(l)' <= slots'[l]
                      /\ slots'[l] <= Capacity(l)
                      /\ Foreign = {} => slots'[l] = Cardinality(Working(l)') + Inside(l)'
    BY DEF SlotsInv, Capacity, RunMode
  <2>4. CASE k = l
    <3>1. Inside(l) = 1 /\ Inside(l)' = 0
      BY <2>1, <2>4 DEF Inside
    <3>2. slots'[l] = slots[l] - 1 /\ slots[l] \in Int
      BY <2>1, <2>4 DEF Released, TypeInv
    <3> QED  BY <2>3, <3>1, <3>2, WorkingFinite, CapacityNat DEF SlotsInv
  <2>5. CASE k # l
    <3>1. Inside(l)' = Inside(l) /\ slots'[l] = slots[l]
      BY <2>1, <2>5 DEF Inside, Released, TypeInv
    <3> QED  BY <2>3, <3>1 DEF SlotsInv
  <2> QED  BY <2>4, <2>5
<1>10. ASSUME NEW c \in held, Spawn(c) \/ SpawnUndecodable(c),
              NEW l \in Loops
       PROVE  /\ Inside(l)' = Inside(l) /\ Inside(l) \in {0, 1}
              /\ c.loop = l => slots'[l] = slots[l] + 1 /\ slots[l] < Capacity(l)
              /\ c.loop # l => slots'[l] = slots[l]
  <2>1. /\ c.at = "batch" /\ pc' = AfterSpawn(c)
        /\ Free(c.loop) /\ slots' = Taken(c.loop) /\ c.loop \in Loops
    BY <1>10 DEF Spawn, SpawnUndecodable, TypeInv, Copy
  <2>2. pc[l] = "pop" <=> pc'[l] = "pop"
    BY <2>1, AfterSpawnKeeps
  <2> QED  BY <2>1, <2>2 DEF Inside, Free, Taken, TypeInv
<1>11. ASSUME NEW c \in held, Spawn(c)  PROVE SlotsInv'
  <2> SUFFICES ASSUME NEW l \in Loops
               PROVE  /\ Cardinality(Working(l)') + Inside(l)' <= slots'[l]
                      /\ slots'[l] <= Capacity(l)
                      /\ Foreign = {} => slots'[l] = Cardinality(Working(l)') + Inside(l)'
    BY DEF SlotsInv, Capacity, RunMode
  <2>1. c.at \notin AtWork /\ "post" \in HeldAt \cap AtWork /\ held' = Moved(c, "post")
    BY <1>11 DEF Spawn, AtWork, HeldAt
  <2>2. slots[l] \in Int
    BY DEF TypeInv
  <2>3. CASE c.loop = l
    <3>1. Cardinality(Working(l)') = Cardinality(Working(l)) + 1
      BY <2>1, <2>3, WorkingMoved
    <3> QED  BY <1>10, <1>11, <2>2, <2>3, <3>1, WorkingFinite, CapacityNat DEF SlotsInv
  <2>4. CASE c.loop # l
    <3>1. Working(l)' = Working(l)
      BY <2>1, <2>4, WorkingMoved
    <3> QED  BY <1>10, <1>11, <2>4, <3>1 DEF SlotsInv
  <2> QED  BY <2>3, <2>4
<1>12. ASSUME NEW c \in held, SpawnUndecodable(c)  PROVE SlotsInv'
  <2> SUFFICES ASSUME NEW l \in Loops
               PROVE  /\ Cardinality(Working(l)') + Inside(l)' <= slots'[l]
                      /\ slots'[l] <= Capacity(l)
    BY <1>12 DEF SlotsInv, Capacity, RunMode, SpawnUndecodable, Decodes
  <2>1. Working(l)' = Working(l)
    BY <1>12, WorkingRemoved DEF SpawnUndecodable, AtWork
  <2>2. slots[l] \in Int
    BY DEF TypeInv
  <2> QED  BY <1>10, <1>12, <2>1, <2>2, WorkingFinite, CapacityNat DEF SlotsInv
<1>13. ASSUME NEW c \in held, Reply(c)  PROVE SlotsInv'
  <2>1. PICK p \in {"ok", "failed"} : held' = Moved(c, p)
    BY <1>13 DEF Reply
  <2>2. c.at \in AtWork /\ p \in HeldAt \cap AtWork /\ UNCHANGED <<pc, slots>>
    BY <1>13 DEF Reply, AtWork, HeldAt
  <2>3. \A l \in Loops : /\ Cardinality(Working(l)') = Cardinality(Working(l))
                         /\ Inside(l)' = Inside(l)
    BY <2>1, <2>2, WorkingMoved DEF Inside
  <2> QED  BY <2>2, <2>3, SlotsKept
<1>14. ASSUME NEW c \in held, CountSuccess(c) \/ Requeue(c) \/ GiveUp(c)
       PROVE  SlotsInv'
  <2>1. /\ c.at \in AtWork /\ held' = held \ {c}
        /\ slots' = Released(c.loop) /\ UNCHANGED pc
    BY <1>14 DEF CountSuccess, Requeue, GiveUp, AtWork
  <2> QED  BY <2>1, SlotsReleased
<1> QED
  BY <1>1, <1>2, <1>3, <1>4, <1>5, <1>6, <1>7, <1>8, <1>9, <1>11, <1>12, <1>13, <1>14
  DEF Next, Fetching, Dispatching, Push, PushForeign, Tick, Stop, ReplyNull, vars

(* The layers up to the semaphores are invariants.                         *)
LEMMA SlotsCorrect == Spec => [](TypeInv /\ SlotsInv)
BY TypeInvInit, TypeInvNext, OnceInvInit, OnceInvNext, LoopInvInit, LoopInvNext,
   SlotsInvInit, SlotsInvNext, PTL DEF Spec

(* No loop ever has more dispatches at work than its channel concurency    *)
(* has room for, whatever its capacity, the batches and the faults are.    *)
THEOREM ConcurrencyBoundHolds == Spec => []ConcurrencyBound
<1>1. TypeInv /\ SlotsInv => ConcurrencyBound
  <2> SUFFICES ASSUME TypeInv, SlotsInv, NEW l \in Loops
               PROVE  Cardinality(Working(l)) <= Capacity(l)
    BY DEF ConcurrencyBound
  <2>1. Inside(l) \in {0, 1} /\ slots[l] \in Int
    BY DEF Inside, TypeInv
  <2> QED  BY <2>1, WorkingFinite, CapacityNat DEF SlotsInv
<1> QED  BY <1>1, SlotsCorrect, PTL

(* The types, and that no goroutine ever takes a token out of an empty     *)
(* channel: slots is a natural number.                                     *)
THEOREM TypeOKHolds == Spec => []TypeOK
<1>1. TypeInv /\ SlotsInv => TypeOK
  <2> SUFFICES ASSUME TypeInv, SlotsInv  PROVE slots \in [Loops -> Nat]
    BY DEF TypeInv, TypeOK
  <2>1. ASSUME NEW l \in Loops  PROVE slots[l] \in Nat
    <3>1. Inside(l) \in {0, 1} /\ slots[l] \in Int
      BY DEF Inside, TypeInv
    <3> QED  BY <3>1, WorkingFinite DEF SlotsInv
  <2> QED  BY <2>1 DEF TypeInv
<1> QED  BY <1>1, SlotsCorrect, PTL

(* With only DelayPush writing <queue>:delayed, no token is ever left      *)
(* behind: each belongs to a dispatch at work or to the call of DelayPop.  *)
THEOREM SlotsAccountedHolds ==
  ASSUME Foreign = {}
  PROVE  Spec => []SlotsAccounted
<1>1. SlotsInv => SlotsAccounted
  BY DEF SlotsInv, SlotsAccounted
<1> QED  BY <1>1, SlotsCorrect, PTL
-----------------------------------------------------------------------------
(***************************************************************************)
(* The memory of a normal queue: the goroutines of Consume, its channel,   *)
(* and one element in the hands of ProcessNormal.                          *)
(***************************************************************************)
At(p) == {c \in held : c.at = p}

(* ProcessDelay reads the main key of delay queues only.                   *)
PopInv == ~IsDelayQueue => pc["main"] # "pop"

MemoryInv ==
  /\ Cardinality(At("popped")) <= PopperCap
  /\ Cardinality(At("channel")) <= DeliveryCap
  /\ ~IsDelayQueue => \A c, d \in BatchOf("main") : c = d

(* Finitely many copies are at a place.                                    *)
LEMMA AtFinite ==
  ASSUME TypeInv, NEW p
  PROVE  IsFiniteSet(At(p)) /\ Cardinality(At(p)) \in Nat
<1>1. At(p) \in SUBSET held
  BY DEF At
<1> QED  BY <1>1, FS_Subset, FS_CardinalityType DEF TypeInv

(* The invariant holds at first.                                           *)
LEMMA MemoryInvInit == Init => PopInv /\ MemoryInv
<1>1. ASSUME Init, NEW p  PROVE Cardinality(At(p)) = 0
  <2>1. At(p) = {}
    BY <1>1 DEF Init, At
  <2> QED  BY <2>1, FS_EmptySet
<1>2. Init => PopInv
  BY DEF Init, PopInv, Loops
<1>3. Init => BatchOf("main") = {}
  BY DEF Init, BatchOf
<1> QED  BY <1>1, <1>2, <1>3, ConfigAssumption DEF MemoryInv

(* Every step keeps it.                                                    *)
LEMMA PopInvNext == TypeInv /\ PopInv /\ [Next]_vars => PopInv'
<1> SUFFICES ASSUME TypeInv, PopInv, ~IsDelayQueue, [Next]_vars  PROVE pc'["main"] # "pop"
  BY DEF PopInv
<1>1. ASSUME NEW l \in Loops, Acquire(l)  PROVE pc'["main"] # "pop"
  BY <1>1 DEF Acquire, RunMode, PopInv, TypeInv, Loops
<1>2. ASSUME NEW l \in Loops, NEW q \in {"idle", "spawn"}, pc' = [pc EXCEPT ![l] = q]
      PROVE  pc'["main"] # "pop"
  BY <1>2 DEF PopInv, TypeInv, Loops
<1>3. ASSUME NEW l \in Loops, DelayPop(l)  PROVE pc'["main"] # "pop"
  BY <1>2, <1>3 DEF DelayPop
<1>4. ASSUME NEW c \in held, Spawn(c) \/ SpawnUndecodable(c)  PROVE pc'["main"] # "pop"
  <2>1. c.loop \in Loops
    BY DEF TypeInv, Copy
  <2> QED  BY <1>2, <1>4, <2>1 DEF Spawn, SpawnUndecodable, AfterSpawn
<1>5. ASSUME StartMain \/ (\E c \in held : Receive(c))  PROVE pc'["main"] # "pop"
  BY <1>2, <1>5 DEF StartMain, Receive, Loops
<1>6. CASE Stop \/ (\E c \in held : ReplyNull(c)) \/ QueueHandle
  BY <1>6 DEF Stop, ReplyNull, MemoryLost, QueueHandle, Loops
<1> QED
  BY <1>1, <1>3, <1>4, <1>5, <1>6
  DEF Next, Fetching, Dispatching, Push, PushForeign, Tick, Pop, Deliver, Reply, CountSuccess,
      Requeue, GiveUp, vars, PopInv

(* Nothing arrives at p.                                                   *)
LEMMA AtShrinks ==
  ASSUME TypeInv, NEW p, {c \in held' : c.at = p} \subseteq held
  PROVE  Cardinality(At(p)') <= Cardinality(At(p))
<1>1. At(p)' \in SUBSET At(p)
  BY DEF At
<1> QED  BY <1>1, AtFinite, FS_Subset

(* One copy arrives at p.                                                  *)
LEMMA AtGrows ==
  ASSUME TypeInv, NEW p, NEW d, {c \in held' : c.at = p} \subseteq held \cup {d}
  PROVE  Cardinality(At(p)') <= Cardinality(At(p)) + 1
<1>1. At(p)' \in SUBSET (At(p) \cup {d})
  BY DEF At
<1>2. IsFiniteSet(At(p) \cup {d}) /\ Cardinality(At(p) \cup {d}) <= Cardinality(At(p)) + 1
  BY AtFinite, FS_AddElement
<1>3. IsFiniteSet(At(p)') /\ Cardinality(At(p)') <= Cardinality(At(p) \cup {d})
  BY <1>1, <1>2, FS_Subset
<1> QED  BY <1>2, <1>3, AtFinite, FS_CardinalityType

(* Nothing arrives in any of the three places.                             *)
LEMMA MemoryKept ==
  ASSUME TypeInv, MemoryInv,
         {c \in held' : c.at \in {"popped", "channel"}} \subseteq held,
         {c \in held' : c.at = "batch" /\ c.loop = "main"} \subseteq held
  PROVE  MemoryInv'
<1>1. \A p \in {"popped", "channel"} : Cardinality(At(p)') <= Cardinality(At(p))
  BY AtShrinks
<1>2. \A p \in {"popped", "channel"} : Cardinality(At(p)') \in Nat /\ Cardinality(At(p)) \in Nat
  <2>1. ASSUME NEW p \in {"popped", "channel"}  PROVE IsFiniteSet(At(p)')
    <3>1. At(p)' \in SUBSET held
      BY DEF At
    <3> QED  BY <3>1, FS_Subset DEF TypeInv
  <2> QED  BY <2>1, AtFinite, FS_CardinalityType
<1>3. BatchOf("main")' \subseteq BatchOf("main")
  BY DEF BatchOf
<1>4. /\ Cardinality(At("popped"))' <= PopperCap
      /\ Cardinality(At("channel"))' <= DeliveryCap
  BY <1>1, <1>2, ConfigAssumption DEF MemoryInv
<1> QED  BY <1>3, <1>4 DEF MemoryInv

(* Every step keeps it.                                                    *)
LEMMA MemoryInvNext ==
  TypeInv /\ LoopInv /\ PopInv /\ MemoryInv /\ [Next]_vars => MemoryInv'
<1> SUFFICES ASSUME TypeInv, TypeInv', LoopInv, PopInv, MemoryInv, [Next]_vars
             PROVE  MemoryInv'
  BY TypeInvNext
<1>1. \A p : Cardinality(At(p)) \in Nat /\ Cardinality(At(p)') \in Nat
  <2>1. ASSUME NEW p  PROVE Cardinality(At(p)') \in Nat
    <3>1. At(p)' \in SUBSET held'
      BY DEF At
    <3> QED  BY <3>1, FS_Subset, FS_CardinalityType DEF TypeInv
  <2> QED  BY <2>1, AtFinite
<1>2. ASSUME NEW c \in held, NEW p \in HeldAt, held' = Moved(c, p)
      PROVE  \E d : /\ held' = (held \ {c}) \cup {d} /\ d.at = p /\ d.loop = c.loop
  <2> DEFINE d == [c EXCEPT !.at = p]
  <2>1. c \in Copy
    BY DEF TypeInv
  <2>2. d.at = p /\ d.loop = c.loop
    BY <2>1, MovedCopy
  <2>3. held' = (held \ {c}) \cup {d}
    BY <1>2 DEF Moved
  <2> HIDE DEF d
  <2> QED  BY <2>2, <2>3
<1>3. ASSUME NEW c \in stored, Pop(c)  PROVE MemoryInv'
  <2> DEFINE d == [c EXCEPT !.at = "popped"]
  <2>1. c \in Copy /\ "popped" \in HeldAt
    BY DEF TypeInv, HeldAt
  <2>2. d.at = "popped"
    BY <2>1, MovedCopy
  <2>3. Cardinality(At("popped")) < PopperCap /\ held' \subseteq held \cup {d}
    BY <1>3 DEF Pop, At
  <2> HIDE DEF d
  <2>4. Cardinality(At("popped")') <= PopperCap
    <3>1. {e \in held' : e.at = "popped"} \subseteq held \cup {d}
      BY <2>3
    <3>2. Cardinality(At("popped")') <= Cardinality(At("popped")) + 1
      BY <3>1, AtGrows
    <3> QED  BY <1>1, <2>3, <3>2, ConfigAssumption
  <2>5. Cardinality(At("channel")') <= DeliveryCap
    BY <1>1, <2>2, <2>3, AtShrinks, ConfigAssumption DEF MemoryInv
  <2>6. BatchOf("main")' \subseteq BatchOf("main")
    BY <2>2, <2>3 DEF BatchOf
  <2> QED  BY <2>4, <2>5, <2>6 DEF MemoryInv
<1>4. ASSUME NEW c \in held, Deliver(c)  PROVE MemoryInv'
  <2>1. PICK d : held' = (held \ {c}) \cup {d} /\ d.at = "channel"
    BY <1>2, <1>4 DEF Deliver, HeldAt
  <2>2. Cardinality(At("channel")) < DeliveryCap
    BY <1>4 DEF Deliver, At
  <2>3. Cardinality(At("channel")') <= DeliveryCap
    <3>1. {e \in held' : e.at = "channel"} \subseteq held \cup {d}
      BY <2>1
    <3>2. Cardinality(At("channel")') <= Cardinality(At("channel")) + 1
      BY <3>1, AtGrows
    <3> QED  BY <1>1, <2>2, <3>2, ConfigAssumption
  <2>4. Cardinality(At("popped")') <= PopperCap
    BY <1>1, <2>1, AtShrinks, ConfigAssumption DEF MemoryInv
  <2>5. BatchOf("main")' \subseteq BatchOf("main")
    BY <2>1 DEF BatchOf
  <2> QED  BY <2>3, <2>4, <2>5 DEF MemoryInv
<1>5. ASSUME NEW c \in held, Receive(c)  PROVE MemoryInv'
  <2>1. PICK d : held' = (held \ {c}) \cup {d} /\ d.at = "batch"
    BY <1>2, <1>5 DEF Receive, HeldAt
  <2>2. BatchOf("main") = {}
    BY <1>5 DEF Receive, BatchOf, LoopInv
  <2>3. BatchOf("main")' \subseteq {d}
    BY <2>1, <2>2 DEF BatchOf
  <2>4. /\ Cardinality(At("popped")') <= PopperCap
        /\ Cardinality(At("channel")') <= DeliveryCap
    BY <1>1, <2>1, AtShrinks, ConfigAssumption DEF MemoryInv
  <2> QED  BY <2>3, <2>4 DEF MemoryInv
<1>6. ASSUME NEW l \in Loops, DelayPop(l)  PROVE MemoryInv'
  <2> DEFINE due == {c \in stored : c.at = "zset" /\ c.loop = l /\ Due(c)}
             read == {c \in due : Unwraps(c)}
             batch == {[c EXCEPT !.at = "batch"] : c \in read}
  <2>1. pc[l] = "pop" /\ (held' = held \cup batch \/ held' = held)
    BY <1>6 DEF DelayPop
  <2>2. \A e \in batch : e.at = "batch" /\ e.loop = l
    <3> SUFFICES ASSUME NEW c \in read
                 PROVE  [c EXCEPT !.at = "batch"].at = "batch" /\ [c EXCEPT !.at = "batch"].loop = l
      OBVIOUS
    <3>1. c \in Copy /\ "batch" \in HeldAt /\ c.loop = l
      BY DEF TypeInv, HeldAt
    <3> QED  BY <3>1, MovedCopy
  <2> HIDE DEF batch
  <2>3. /\ Cardinality(At("popped")') <= PopperCap
        /\ Cardinality(At("channel")') <= DeliveryCap
    BY <1>1, <2>1, <2>2, AtShrinks, ConfigAssumption DEF MemoryInv
  <2>4. ~IsDelayQueue => BatchOf("main")' \subseteq BatchOf("main")
    BY <2>1, <2>2 DEF PopInv, BatchOf
  <2> QED  BY <2>3, <2>4 DEF MemoryInv
<1>7. ASSUME NEW c \in held, NEW p \in AtWork, held' = Moved(c, p)  PROVE MemoryInv'
  <2>1. PICK d : held' = (held \ {c}) \cup {d} /\ d.at = p
    BY <1>2, <1>7 DEF AtWork, HeldAt
  <2> QED  BY <2>1, MemoryKept DEF AtWork
<1>8. ASSUME NEW c \in held, Spawn(c) \/ Reply(c)  PROVE MemoryInv'
  BY <1>7, <1>8 DEF Spawn, Reply, AtWork
<1>9. ASSUME held' \subseteq held  PROVE MemoryInv'
  BY <1>9, MemoryKept
<1>10. ASSUME NEW c \in held,
              \/ SpawnUndecodable(c) \/ ReplyNull(c) \/ CountSuccess(c) \/ Requeue(c) \/ GiveUp(c)
       PROVE  MemoryInv'
  BY <1>9, <1>10 DEF SpawnUndecodable, ReplyNull, MemoryLost, CountSuccess, Requeue, GiveUp
<1>11. ASSUME \/ Tick \/ Stop \/ QueueHandle \/ StartMain \/ UNCHANGED vars
              \/ (\E l \in Loops : Acquire(l))
              \/ (\E m \in Msgs : Push(m) \/ PushForeign(m))
       PROVE  MemoryInv'
  BY <1>9, <1>11 DEF Tick, Stop, MemoryLost, QueueHandle, StartMain, Acquire, Push, PushForeign, vars
<1> QED
  BY <1>3, <1>4, <1>5, <1>6, <1>8, <1>10, <1>11 DEF Next, Fetching, Dispatching

(* What the main loop of a normal queue has in memory is bounded by the    *)
(* capacities, however long the list in Redis is.                          *)
MainBounded ==
  ~IsDelayQueue =>
    Cardinality({c \in held : c.loop = "main"}) <= PopperCap + DeliveryCap + 1 + Concurency

(* The four places together.                                               *)
LEMMA MainBoundedHolds == Spec => []MainBounded
<1>1. ASSUME NEW S, NEW T, IsFiniteSet(S), IsFiniteSet(T)
      PROVE  /\ IsFiniteSet(S \cup T)
             /\ Cardinality(S \cup T) \in Nat
             /\ Cardinality(S \cup T) <= Cardinality(S) + Cardinality(T)
  <2>1. S \cap T \in SUBSET S
    OBVIOUS
  <2>2. IsFiniteSet(S \cap T)
    BY <1>1, <2>1, FS_Subset
  <2>3. /\ IsFiniteSet(S \cup T)
        /\ Cardinality(S \cup T) = Cardinality(S) + Cardinality(T) - Cardinality(S \cap T)
    BY <1>1, FS_Union
  <2>4. /\ Cardinality(S) \in Nat /\ Cardinality(T) \in Nat /\ Cardinality(S \cap T) \in Nat
        /\ Cardinality(S \cup T) \in Nat
    BY <1>1, <2>2, <2>3, FS_CardinalityType
  <2>5. \A a, b, i \in Nat : a + b - i <= a + b
    OBVIOUS
  <2>6. Cardinality(S \cup T) <= Cardinality(S) + Cardinality(T)
    BY <2>3, <2>4, <2>5
  <2> QED  BY <2>3, <2>4, <2>6
<1>2. TypeInv /\ LoopInv /\ SlotsInv /\ MemoryInv => MainBounded
  <2> SUFFICES ASSUME TypeInv, LoopInv, SlotsInv, MemoryInv, ~IsDelayQueue
               PROVE  Cardinality({c \in held : c.loop = "main"})
                        <= PopperCap + DeliveryCap + 1 + Concurency
    BY DEF MainBounded
  <2> DEFINE A == At("popped")
             B == At("channel")
             C == BatchOf("main")
             W == Working("main")
             All == ((A \cup B) \cup C) \cup W
  <2>1. {c \in held : c.loop = "main"} \in SUBSET All
    BY DEF TypeInv, HeldAt, AtWork, At, BatchOf, Working
  <2>2. IsFiniteSet(C) /\ Cardinality(C) <= 1 /\ Cardinality(C) \in Nat
    <3>1. C = {} \/ \E c : C = {c}
      BY DEF MemoryInv
    <3> HIDE DEF C
    <3>2. ASSUME C = {}  PROVE IsFiniteSet(C) /\ Cardinality(C) = 0
      BY <3>2, FS_EmptySet
    <3>3. ASSUME NEW c, C = {c}  PROVE IsFiniteSet(C) /\ Cardinality(C) = 1
      BY <3>3, FS_Singleton
    <3>4. IsFiniteSet(C) /\ (Cardinality(C) = 0 \/ Cardinality(C) = 1)
      BY <3>1, <3>2, <3>3
    <3> QED  BY <3>4
  <2>3. /\ IsFiniteSet(W) /\ Cardinality(W) \in Nat /\ Cardinality(W) <= Concurency
    <3>1. Capacity("main") = Concurency /\ Inside("main") \in {0, 1} /\ slots["main"] \in Int
      BY DEF Capacity, RunMode, Inside, TypeInv, Loops
    <3>2. /\ Cardinality(W) + Inside("main") <= slots["main"] /\ slots["main"] <= Capacity("main")
      BY DEF SlotsInv, Loops
    <3>3. IsFiniteSet(W) /\ Cardinality(W) \in Nat
      BY WorkingFinite DEF Loops
    <3> QED  BY <3>1, <3>2, <3>3, ConfigAssumption
  <2>4. /\ IsFiniteSet(A) /\ Cardinality(A) \in Nat /\ Cardinality(A) <= PopperCap
        /\ IsFiniteSet(B) /\ Cardinality(B) \in Nat /\ Cardinality(B) <= DeliveryCap
    BY AtFinite DEF MemoryInv
  <2> HIDE DEF A, B, C, W
  <2>5. IsFiniteSet(A \cup B) /\ Cardinality(A \cup B) \in Nat
        /\ Cardinality(A \cup B) <= PopperCap + DeliveryCap
    BY <1>1, <2>4, ConfigAssumption
  <2>6. IsFiniteSet((A \cup B) \cup C) /\ Cardinality((A \cup B) \cup C) \in Nat
        /\ Cardinality((A \cup B) \cup C) <= PopperCap + DeliveryCap + 1
    <3>1. /\ IsFiniteSet((A \cup B) \cup C) /\ Cardinality((A \cup B) \cup C) \in Nat
          /\ Cardinality((A \cup B) \cup C) <= Cardinality(A \cup B) + Cardinality(C)
      BY <1>1, <2>2, <2>5
    <3> QED  BY <2>2, <2>5, <3>1, ConfigAssumption
  <2>7. IsFiniteSet(All) /\ Cardinality(All) \in Nat
        /\ Cardinality(All) <= PopperCap + DeliveryCap + 1 + Concurency
    <3>1. /\ IsFiniteSet(All) /\ Cardinality(All) \in Nat
          /\ Cardinality(All) <= Cardinality((A \cup B) \cup C) + Cardinality(W)
      BY <1>1, <2>3, <2>6
    <3> QED  BY <2>3, <2>6, <3>1, ConfigAssumption
  <2> HIDE DEF All
  <2>8. /\ IsFiniteSet({c \in held : c.loop = "main"})
        /\ Cardinality({c \in held : c.loop = "main"}) <= Cardinality(All)
    BY <2>1, <2>7, FS_Subset
  <2> QED  BY <2>7, <2>8, FS_CardinalityType, ConfigAssumption
<1> QED  BY <1>2, SlotsCorrect, TypeInvInit, TypeInvNext, LoopInvInit, LoopInvNext,
            MemoryInvInit, PopInvNext, MemoryInvNext, PTL DEF Spec
=============================================================================
