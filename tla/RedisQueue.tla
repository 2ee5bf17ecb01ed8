----------------------------- MODULE RedisQueue -----------------------------
(***************************************************************************)
(* One enabled Redis queue of queueman (redis.QueueInstance): the goroutines *)
(* QueueHandle starts, the messages they move between Redis, their own     *)
(* memory and the HTTP receiver, and the retry tiers.                      *)
(* Source: src/libs/queue/redis/{dispatcher,connection,types}.go,          *)
(* src/libs/queue/types/types.go, src/libs/request/request.go.             *)
(*                                                                         *)
(* A message is represented by its COPIES: where the code has the payload  *)
(* in a Redis key, a channel, a local variable.  `stored' are the copies   *)
(* in Redis, which outlive the process; `held' those in its memory, which  *)
(* do not.  Nothing in this representation keeps a message from having two *)
(* copies, or none: that it does not is the property AtMostOnce.           *)
(*                                                                         *)
(* Time is what time.Now().Unix() returns, in whole seconds, and does not  *)
(* go back.  The order of a list or of a channel is not kept: up to 200    *)
(* goroutines pop concurrently, so the code does not keep it either.       *)
(***************************************************************************)
EXTENDS Integers, Sequences, FiniteSets, RetrySchedule

CONSTANTS
  Msgs,             \* the messages developers push, each at most once
  RawMsgs,          \* those whose text is not the JSON of a DelayData
  Foreign,          \* those written into <queue>:delayed by someone else
  IsDelayQueue, IsDelayRaw, Concurency, DelayConcurency, DelayOnFailure,
  PopperCap,        \* capacity of Consume's semaphore, 200 in the code
  DeliveryCap,      \* capacity of the deliveries channel, 200 in the code
  Replies,          \* what receivers may answer, a subset of ReplyKinds
  Faults,           \* what may go wrong, a subset of FaultKinds
  MaxTime,          \* bound: the clock stops there
  MaxStops          \* bound: how often the process is stopped or killed

(* "ok" is a reply with code 1; "fail" any other reply or no reply at all; *)
(* "null" a body that is the JSON value null.                              *)
ReplyKinds == {"ok", "fail", "null"}

(* The command of that name was lost: for "rpop" and "exec" Redis executed *)
(* it and the answer did not arrive, for "zadd" and "incr" it was never    *)
(* executed.  "encode" is an error of SerializeDelayQueueData.             *)
FaultKinds == {"rpop", "exec", "zadd", "incr", "encode"}

ASSUME ConfigAssumption ==
  /\ IsFiniteSet(Msgs)
  /\ RawMsgs \subseteq Msgs
  /\ Foreign \subseteq Msgs
  /\ IsDelayQueue \in BOOLEAN
  /\ IsDelayRaw \in BOOLEAN
  /\ Concurency \in Nat   \* a negative one is refused as 0 is
  /\ DelayConcurency \in Nat
  /\ DelayOnFailure \in Seq(Int)
  /\ IsSorted(DelayOnFailure)
  /\ PopperCap \in Nat
  /\ DeliveryCap \in Nat
  /\ Replies \subseteq ReplyKinds
  /\ Faults \subseteq FaultKinds
  /\ MaxTime \in Nat
  /\ MaxStops \in Nat

(* "main" reads QueueName: ProcessNormal, or ProcessDelay("first") for a   *)
(* delay queue.  "retry" is ProcessDelay("retry"), on <QueueName>:delayed. *)
Loops == {"main", "retry"}

(* "list": in the Redis list; "zset": in the sorted set the copy's loop    *)
(* reads.  In memory: "popped" by a goroutine of Consume; in the           *)
(* deliveries channel; in the "batch" the loop is about to dispatch; with  *)
(* a dispatch goroutine that waits for the receiver ("post") or has its    *)
(* answer ("ok", "failed").                                                *)
StoredAt == {"list", "zset"}
HeldAt == {"popped", "channel", "batch", "post", "ok", "failed"}
AtWork == {"post", "ok", "failed"}

(* score is the zset score (0 elsewhere); cur the DelayTime a message has  *)
(* been given so far, 0 before its first failure.                          *)
Copy == [msg : Msgs, at : StoredAt \cup HeldAt, loop : Loops,
         score : Int, cur : Int]

VARIABLES
  stored,    \* copies in Redis
  held,      \* copies in the memory of the process
  pc,        \* per loop: where its goroutine is
  slots,     \* per loop: tokens in its channel concurency
  success,   \* per message: its share of the counter <queue>:success
  failure,   \* per message: its share of the counter <queue>:failure
  now,       \* time.Now().Unix()
  stops,     \* how often the process was stopped
  pushed,    \* history: messages written to Redis by their developers
  tried,     \* history, per message: the delays whose dispatch was answered
  failedAt   \* history, per message: when its first dispatch failed

vars == <<stored, held, pc, slots, success, failure, now, stops,
          pushed, tried, failedAt>>

Never == -1
-----------------------------------------------------------------------------
(* Helpers *)

RunMode(l) == IF l = "retry" THEN "retry" ELSE IF IsDelayQueue THEN "first" ELSE "normal"

(* make(chan bool, n): ProcessNormal takes Concurency, both modes of       *)
(* ProcessDelay take DelayConcurency.                                      *)
Capacity(l) == IF RunMode(l) = "normal" THEN Concurency ELSE DelayConcurency

(* Mutant: room for one more than the capacity.                            *)
FreeOffByOne(l) == slots[l] <= Capacity(l)

(* concurency <- true does not block.                                      *)
Free(l) == slots[l] < Capacity(l)

Taken(l) == [slots EXCEPT ![l] = @ + 1]

(* Mutant: a slot given back twice.                                        *)
ReleasedTwice(l) == [slots EXCEPT ![l] = @ - 2]

(* <-concurency                                                            *)
Released(l) == [slots EXCEPT ![l] = @ - 1]

BatchOf(l) == {c \in held : c.at = "batch" /\ c.loop = l}

(* DelayPop's own json.Unmarshal of an entry; the ones it cannot read are  *)
(* skipped with `continue' after they were removed from the sorted set.    *)
Unwraps(c) == IF c.loop = "retry" THEN c.msg \notin Foreign \cap RawMsgs
                                  ELSE IsDelayRaw \/ c.msg \notin RawMsgs

(* UnserializeDelayQueueData in retry mode: an entry DelayPush did not     *)
(* write holds no DelayQueueData.                                          *)
Decodes(c) == c.loop = "retry" => c.msg \notin Foreign

(* The delay a failed dispatch asks for, and the score it gets.            *)
DelayFor(c) == DelayAfter(RunMode(c.loop), c.cur, DelayOnFailure)

(* Mutant: a second too early.                                             *)
TriggerEarly(c) == now + DelayFor(c) - c.cur - 1

(* delayUnixTime of DelayPush: the difference to the delay already served. *)
TriggerTime(c) == now + DelayFor(c) - c.cur

(* Mutant: the range ends a second too late.                               *)
DueOneEarly(c) == 0 <= c.score /\ c.score <= now + 1

(* ZRANGEBYSCORE and ZREMRANGEBYSCORE key 0 now                            *)
Due(c) == 0 <= c.score /\ c.score <= now

(* What DelayPush writes for a failed dispatch: DelayQueueData, wrapped in  *)
(* a DelayData whose uuid makes it a new member of the sorted set.         *)
Delayed(c) == [msg |-> c.msg, at |-> "zset", loop |-> "retry",
               score |-> TriggerTime(c), cur |-> DelayFor(c)]

(* INCR of a counter                                                       *)
Counted(counter, m) == [counter EXCEPT ![m] = @ + 1]

Moved(c, place) == (held \ {c}) \cup {[c EXCEPT !.at = place]}
-----------------------------------------------------------------------------
Init ==
  /\ stored = {}
  /\ held = {}
  /\ pc = [l \in Loops |-> "off"]
  /\ slots = [l \in Loops |-> 0]
  /\ success = [m \in Msgs |-> 0]
  /\ failure = [m \in Msgs |-> 0]
  /\ now = 0
  /\ stops = 0
  /\ pushed = {}
  /\ tried = [m \in Msgs |-> {}]
  /\ failedAt = [m \in Msgs |-> Never]
-----------------------------------------------------------------------------
(* The environment *)

(* A developer pushes a message: LPUSH for a normal queue, ZADD with a     *)
(* trigger time for a delay queue.                                         *)
Push(m) ==
  /\ m \notin pushed \cup Foreign
  /\ pushed' = pushed \cup {m}
  /\ \/ /\ ~IsDelayQueue
        /\ stored' = stored \cup
             {[msg |-> m, at |-> "list", loop |-> "main", score |-> 0, cur |-> 0]}
     \/ /\ IsDelayQueue
        /\ \E t \in 0..MaxTime : stored' = stored \cup
             {[msg |-> m, at |-> "zset", loop |-> "main", score |-> t, cur |-> 0]}
  /\ UNCHANGED <<held, pc, slots, success, failure, now, stops, tried, failedAt>>

(* Somebody else than DelayPush adds an entry to <queue>:delayed.          *)
PushForeign(m) ==
  /\ m \in Foreign \ pushed
  /\ pushed' = pushed \cup {m}
  /\ stored' = stored \cup
       {[msg |-> m, at |-> "zset", loop |-> "retry", score |-> now, cur |-> 0]}
  /\ UNCHANGED <<held, pc, slots, success, failure, now, stops, tried, failedAt>>

Tick ==
  /\ now < MaxTime
  /\ now' = now + 1
  /\ UNCHANGED <<stored, held, pc, slots, success, failure, stops, pushed,
                 tried, failedAt>>

(* The memory of the process is gone.                                      *)
MemoryLost ==
  /\ held' = {}
  /\ pc' = [l \in Loops |-> "off"]
  /\ slots' = [l \in Loops |-> 0]
  /\ UNCHANGED <<stored, success, failure, now, pushed, tried, failedAt>>

(* kill -s QUIT of queueman.service, or any other signal: none is handled. *)
Stop ==
  /\ pc["main"] # "off"
  /\ stops < MaxStops
  /\ stops' = stops + 1
  /\ MemoryLost
-----------------------------------------------------------------------------
(* Start-up: QueueHandle *)

(* The retry loop is started first, if there is a delay to retry after;    *)
(* then QueueHandle sleeps for a second.                                   *)
QueueHandle ==
  /\ pc["main"] = "off"
  /\ Concurency >= 1
  /\ pc' = [main |-> "sleep",
            retry |-> IF DelayOnFailure = <<>> THEN "off" ELSE "idle"]
  /\ UNCHANGED <<stored, held, slots, success, failure, now, stops, pushed,
                 tried, failedAt>>

StartMain ==
  /\ pc["main"] = "sleep"
  /\ pc' = [pc EXCEPT !["main"] = "idle"]
  /\ UNCHANGED <<stored, held, slots, success, failure, now, stops, pushed,
                 tried, failedAt>>
-----------------------------------------------------------------------------
(* Normal queues: Consume and the receiving half of ProcessNormal *)

Consuming == ~IsDelayQueue /\ pc["main"] \notin {"off", "sleep"}

(* A goroutine of Consume pops an element with RPOP.  It holds a token of  *)
(* Consume's semaphore until the element is in the channel.                *)
Pop(c) ==
  /\ Consuming
  /\ c.at = "list"
  /\ Cardinality({d \in held : d.at = "popped"}) < PopperCap
  /\ stored' = stored \ {c}
  /\ \/ held' = held \cup {[c EXCEPT !.at = "popped"]}
     \/ "rpop" \in Faults /\ UNCHANGED held
  /\ UNCHANGED <<pc, slots, success, failure, now, stops, pushed, tried, failedAt>>

(* Mutant: deliveries without a capacity.                                  *)
DeliverUnbounded(c) ==
  /\ c.at = "popped"
  /\ held' = Moved(c, "channel")
  /\ UNCHANGED <<stored, pc, slots, success, failure, now, stops, pushed,
                 tried, failedAt>>

(* deliveries <- d *)
Deliver(c) ==
  /\ c.at = "popped"
  /\ Cardinality({d \in held : d.at = "channel"}) < DeliveryCap
  /\ held' = Moved(c, "channel")
  /\ UNCHANGED <<stored, pc, slots, success, failure, now, stops, pushed,
                 tried, failedAt>>

(* range deliveries *)
Receive(c) ==
  /\ c.at = "channel"
  /\ pc["main"] = "idle"
  /\ pc' = [pc EXCEPT !["main"] = "spawn"]
  /\ held' = Moved(c, "batch")
  /\ UNCHANGED <<stored, slots, success, failure, now, stops, pushed, tried,
                 failedAt>>
-----------------------------------------------------------------------------
(* Delay queues: the receiving half of ProcessDelay *)

Acquire(l) ==
  /\ RunMode(l) # "normal"
  /\ pc[l] = "idle"
  /\ Free(l)
  /\ slots' = Taken(l)
  /\ pc' = [pc EXCEPT ![l] = "pop"]
  /\ UNCHANGED <<stored, held, success, failure, now, stops, pushed, tried,
                 failedAt>>

(* Mutant: ZRANGEBYSCORE alone, the entries stay in the sorted set.        *)
DelayPopKeeps(l) ==
  /\ pc[l] = "pop"
  /\ slots' = Released(l)
  /\ LET due == {c \in stored : c.at = "zset" /\ c.loop = l /\ Due(c)}
         read == {c \in due : Unwraps(c)}
     IN  /\ UNCHANGED stored
         /\ held' = held \cup {[c EXCEPT !.at = "batch"] : c \in read}
         /\ pc' = [pc EXCEPT ![l] = IF read = {} THEN "idle" ELSE "spawn"]
  /\ UNCHANGED <<success, failure, now, stops, pushed, tried, failedAt>>

(* The MULTI/EXEC transaction of DelayPop takes every due entry, and the   *)
(* loop gives its slot back whatever the outcome.                          *)
DelayPop(l) ==
  /\ pc[l] = "pop"
  /\ slots' = Released(l)
  /\ LET due == {c \in stored : c.at = "zset" /\ c.loop = l /\ Due(c)}
         read == {c \in due : Unwraps(c)}
     IN  /\ stored' = stored \ due
         /\ \/ /\ held' = held \cup {[c EXCEPT !.at = "batch"] : c \in read}
               /\ pc' = [pc EXCEPT ![l] = IF read = {} THEN "idle" ELSE "spawn"]
            \/ /\ "exec" \in Faults
               /\ held' = held
               /\ pc' = [pc EXCEPT ![l] = "idle"]
  /\ UNCHANGED <<success, failure, now, stops, pushed, tried, failedAt>>
-----------------------------------------------------------------------------
(* Dispatching: the goroutines of both loops *)

AfterSpawn(c) ==
  [pc EXCEPT ![c.loop] = IF BatchOf(c.loop) = {c} THEN "idle" ELSE "spawn"]

(* concurency <- true; go func(...): the goroutine decodes and posts.      *)
Spawn(c) ==
  /\ c.at = "batch"
  /\ Free(c.loop)
  /\ Decodes(c)
  /\ slots' = Taken(c.loop)
  /\ held' = Moved(c, "post")
  /\ pc' = AfterSpawn(c)
  /\ UNCHANGED <<stored, success, failure, now, stops, pushed, tried, failedAt>>

(* The goroutine cannot decode the entry and returns at once.  It does not *)
(* read from concurency: its token stays there.                            *)
SpawnUndecodable(c) ==
  /\ c.at = "batch"
  /\ Free(c.loop)
  /\ ~Decodes(c)
  /\ slots' = Taken(c.loop)
  /\ held' = held \ {c}
  /\ pc' = AfterSpawn(c)
  /\ UNCHANGED <<stored, success, failure, now, stops, pushed, tried, failedAt>>

(* queueRequest.Post() returns.                                            *)
Reply(c) ==
  /\ c.at = "post"
  /\ \/ /\ "ok" \in Replies
        /\ held' = Moved(c, "ok")
        /\ UNCHANGED failedAt
     \/ /\ "fail" \in Replies
        /\ held' = Moved(c, "failed")
        /\ failedAt' = [failedAt EXCEPT ![c.msg] = IF @ = Never THEN now ELSE @]
  /\ tried' = [tried EXCEPT ![c.msg] = @ \cup {c.cur}]
  /\ UNCHANGED <<stored, pc, slots, success, failure, now, stops, pushed>>

(* json.Unmarshal of null sets result itself to nil; result.Code then      *)
(* panics in a goroutine nobody recovers and the process exits.            *)
ReplyNull(c) ==
  /\ c.at = "post"
  /\ "null" \in Replies
  /\ UNCHANGED stops
  /\ MemoryLost

CountSuccess(c) ==
  /\ c.at = "ok"
  /\ held' = held \ {c}
  /\ slots' = Released(c.loop)
  /\ \/ success' = Counted(success, c.msg)
     \/ "incr" \in Faults /\ UNCHANGED success
  /\ UNCHANGED <<stored, pc, failure, now, stops, pushed, tried, failedAt>>

(* Mutant: the failure branch without DelayPush.                           *)
RequeueForgets(c) ==
  /\ c.at = "failed"
  /\ DelayFor(c) > 0
  /\ held' = held \ {c}
  /\ slots' = Released(c.loop)
  /\ UNCHANGED <<stored, pc, success, failure, now, stops, pushed, tried, failedAt>>

(* A failed dispatch with a delay left: DelayPush to <queue>:delayed, whose *)
(* result the code ignores.                                                *)
Requeue(c) ==
  /\ c.at = "failed"
  /\ DelayFor(c) > 0
  /\ held' = held \ {c}
  /\ slots' = Released(c.loop)
  /\ \/ stored' = stored \cup {Delayed(c)}
     \/ "zadd" \in Faults /\ UNCHANGED stored
  /\ UNCHANGED <<pc, success, failure, now, stops, pushed, tried, failedAt>>

(* Mutant: the failure branch that keeps its token.                        *)
GiveUpLeaks(c) ==
  /\ c.at = "failed"
  /\ DelayFor(c) <= 0
  /\ held' = held \ {c}
  /\ failure' = Counted(failure, c.msg)
  /\ UNCHANGED <<stored, pc, slots, success, now, stops, pushed, tried, failedAt>>

(* A failed dispatch with no delay left, or whose data cannot be encoded.  *)
GiveUp(c) ==
  /\ c.at = "failed"
  /\ DelayFor(c) <= 0 \/ "encode" \in Faults
  /\ held' = held \ {c}
  /\ slots' = Released(c.loop)
  /\ \/ failure' = Counted(failure, c.msg)
     \/ "incr" \in Faults /\ UNCHANGED failure
  /\ UNCHANGED <<stored, pc, success, now, stops, pushed, tried, failedAt>>
-----------------------------------------------------------------------------
Fetching ==
  \/ \E c \in stored : Pop(c)
  \/ \E c \in held : Deliver(c) \/ Receive(c)
  \/ \E l \in Loops : Acquire(l) \/ DelayPop(l)

Dispatching ==
  \E c \in held :
    \/ Spawn(c)
    \/ SpawnUndecodable(c)
    \/ Reply(c)
    \/ ReplyNull(c)
    \/ CountSuccess(c)
    \/ Requeue(c)
    \/ GiveUp(c)

Next ==
  \/ \E m \in Msgs : Push(m) \/ PushForeign(m)
  \/ Tick
  \/ Stop
  \/ QueueHandle
  \/ StartMain
  \/ Fetching
  \/ Dispatching

Spec == Init /\ [][Next]_vars

(***************************************************************************)
(* Goroutines that can run do run (the Go scheduler), Redis answers, time  *)
(* passes, and every receiver answers at last.  Developers need not push   *)
(* and nobody need stop the process.  With finitely many messages, weak    *)
(* fairness of "some copy moves" moves each of them: only the polling pair *)
(* Acquire, DelayPop repeats for ever, and it is fair loop by loop.        *)
(***************************************************************************)
Fairness ==
  /\ WF_vars(Tick)
  /\ WF_vars(QueueHandle)
  /\ WF_vars(StartMain)
  /\ WF_vars(\E c \in stored : Pop(c))
  /\ WF_vars(\E c \in held : Deliver(c))
  /\ WF_vars(\E c \in held : Receive(c))
  /\ \A l \in Loops : WF_vars(Acquire(l)) /\ WF_vars(DelayPop(l))
  /\ \A l \in Loops : WF_vars(\E c \in held : c.loop = l /\ (Spawn(c) \/ SpawnUndecodable(c)))
  /\ WF_vars(\E c \in held : Reply(c))
  /\ WF_vars(\E c \in held : CountSuccess(c) \/ Requeue(c) \/ GiveUp(c))

FairSpec == Spec /\ Fairness
-----------------------------------------------------------------------------
(* Properties *)

(* Every variable keeps its type; in particular no slot is given back that *)
(* was not taken (slots never go below zero).                              *)
TypeOK ==
  /\ stored \in SUBSET {c \in Copy : c.at \in StoredAt}
  /\ held \in SUBSET {c \in Copy : c.at \in HeldAt}
  /\ pc \in [Loops -> {"off", "sleep", "idle", "pop", "spawn"}]
  /\ slots \in [Loops -> Nat]
  /\ success \in [Msgs -> Nat]
  /\ failure \in [Msgs -> Nat]
  /\ now \in Nat
  /\ stops \in Nat
  /\ pushed \in SUBSET Msgs
  /\ tried \in [Msgs -> SUBSET Int]
  /\ failedAt \in [Msgs -> Int]

Working(l) == {c \in held : c.loop = l /\ c.at \in AtWork}

(* The token ProcessDelay holds while it is inside DelayPop.               *)
Inside(l) == IF pc[l] = "pop" THEN 1 ELSE 0

(* The concurrency control the README promises: a loop never has more      *)
(* dispatch goroutines between Post and their last statement than its      *)
(* channel concurency has room for, whatever paths they leave by.          *)
ConcurrencyBound == \A l \in Loops : Cardinality(Working(l)) <= Capacity(l)

(* Every token in a channel concurency belongs to a goroutine that will    *)
(* take it out again: one per dispatch at work, one while ProcessDelay is  *)
(* inside DelayPop.  No early return may leave a token behind.             *)
SlotsAccounted ==
  \A l \in Loops : slots[l] = Cardinality(Working(l)) + Inside(l)

(* A message exists once: it is never in two Redis keys, in Redis and in   *)
(* memory, or with two goroutines; it is counted at most once, as a        *)
(* success or as a failure; and once counted it is gone.  So two loops and *)
(* hundreds of goroutines never dispatch it side by side, and neither a    *)
(* stop, nor a lost command, nor a restart makes it come back.             *)
AtMostOnce ==
  /\ \A c, d \in stored \cup held : c.msg = d.msg => c = d
  /\ \A m \in Msgs : success[m] + failure[m] <= 1
  /\ \A c \in stored \cup held : success[c.msg] + failure[c.msg] = 0

(* The messages this queue's configuration can read.                       *)
Readable == Msgs \ (Foreign \cup (IF IsDelayQueue /\ ~IsDelayRaw THEN RawMsgs ELSE {}))

(* README, "after a failure": a message is retried as configured until it  *)
(* succeeds or its last try has failed.  So from its push to its counting  *)
(* it is always somewhere.                                                 *)
NothingForgotten ==
  \A m \in pushed \cap Readable :
    success[m] + failure[m] > 0 \/ \E c \in stored \cup held : c.msg = m

(* A message is never posted before it is due: not before the trigger time *)
(* its developer gave it, and the retry with delay d not before d seconds  *)
(* after the first failure, however long posts and queueing took and       *)
(* whether or not the process was restarted in between.                    *)
NeverEarly ==
  \A c \in held : c.at = "post" =>
    /\ c.score <= now
    /\ c.cur > 0 => failedAt[c.msg] # Never /\ failedAt[c.msg] + c.cur <= now

(* A message is not posted twice with the same delay: retries move up the  *)
(* tiers, and nothing that happens to the process repeats one.             *)
NoTierTwice == \A c \in held : c.at = "post" => c.cur \notin tried[c.msg]

(* The delays a message that keeps failing goes through.                   *)
AllTiers == IF FirstDelay(DelayOnFailure) > 0 THEN Tiers(DelayOnFailure) ELSE {}

(* A message is counted as a failure only after it was posted once for     *)
(* every delay of DelayOnFailure, none left out.                           *)
TiersExhausted ==
  \A m \in Msgs : failure[m] > 0 => tried[m] = {0} \cup AllTiers

(* What is in memory a stop loses.  For a normal queue that is, on the     *)
(* main loop, no more than the elements of Consume's goroutines and        *)
(* channel, the one ProcessNormal waits with, and the dispatches in flight *)
(* (401 + Concurency).  The retry loop comes on top: its batch is whatever *)
(* was due when DelayPop looked, which nothing bounds, and with it up to   *)
(* DelayConcurency dispatches (ConcurrencyBound); but all that it holds    *)
(* has failed before and is due.  So beyond that number a stop takes no    *)
(* message that still waits for its first dispatch or for its delay, but   *)
(* for entries others wrote into <queue>:delayed.                          *)
MemoryBound ==
  ~IsDelayQueue =>
    /\ Cardinality({c \in held : c.loop = "main"}) <= PopperCap + DeliveryCap + 1 + Concurency
    /\ \A c \in held : c.loop = "retry" =>
         c.score <= now /\ (c.msg \in Foreign \/ failedAt[c.msg] # Never)

(* Every message is dispatched to its end: it is counted at last, unless   *)
(* its trigger time lies behind the bound of the clock.                    *)
Settled(m) ==
  \/ success[m] + failure[m] > 0
  \/ \E c \in stored : c.msg = m /\ c.score > MaxTime

Settles == \A m \in Readable : (m \in pushed) ~> Settled(m)
=============================================================================
