-------------------------- MODULE RabbitRetryProofs --------------------------
(***************************************************************************)
(* The retries of RabbitQueue, for every value of its constants: when and  *)
(* with which delays a message is posted, that none is forgotten, that     *)
(* none is repeated while nothing is interrupted, how often one can be     *)
(* counted when something is, and that all this implements Redelivery.     *)
(***************************************************************************)
EXTENDS RabbitQueueProofs, RabbitRedelivery

BaseInv == TypeInv /\ LineageInv /\ CustodyInv

(* The invariant holds at first.                                           *)
LEMMA BaseInvInit == Init => BaseInv
BY TypeInvInit, LineageInvInit DEF BaseInv

(* Every step keeps it.                                                    *)
LEMMA BaseInvNext == BaseInv /\ Step => BaseInv'
BY TypeInvNext, LineageInvNext, CustodyInvNext DEF BaseInv

Answers == {"ok", "failed"}

(* The setup is chosen once.                                               *)
LEMMA SetupKept ==
  ASSUME Step
  PROVE  setup' = setup
BY DEF Step

(* The clock goes on by one or stands.                                     *)
LEMMA ClockMoves ==
  ASSUME Step
  PROVE  now' = now \/ now' = now + 1
BY DEF Step, Next, Dispatching, Push, PushForeign, Tick, Unrouted, Deliver, Drop, Reopen,
     Stop, ProcessEnds, BrokerRestart, QueueHandle, DeclareExchange, BindAndConsume,
     StartMain, Receive, Spawn, SpawnUndecodable, Reply, ReplyNull, AckFirst, CountAcked,
     CountSuccess, CountFailure, Publish, PublishNowhere, Ack, vars

(* How a delivery goes on, one statement of its goroutine at a time.       *)
Turn(d, p) ==
  \/ d.at = "buffered" /\ p = "received"
  \/ d.at = "received" /\ p = "post" /\ Decodes(d.copy)
  \/ d.at = "post" /\ p \in Answers /\ Reply(d)
  \/ d.at \in Answers /\ p = "settled" /\ ~IsAutoAck
  \/ d.at \in Answers /\ p = "acked" /\ (IsAutoAck \/ Faulty("encode"))

(* What a step does to the deliveries the process holds: some go, one      *)
(* comes, or one takes its turn.                                           *)
LEMMA HeldSteps ==
  ASSUME TypeInv, Step
  PROVE  \/ held' \subseteq held
         \/ \E c \in ready : Deliver(c)
         \/ \E d \in held, p \in Places : held' \subseteq Moved(d, p) /\ Turn(d, p)
<1> DEFINE Goal == \/ held' \subseteq held
                   \/ \E c \in ready : Deliver(c)
                   \/ \E d \in held, p \in Places : held' \subseteq Moved(d, p) /\ Turn(d, p)
<1>1. ASSUME NEW d \in held,
             \/ Receive(d) \/ Spawn(d) \/ Reply(d) \/ AckFirst(d) \/ CountSuccess(d)
             \/ CountFailure(d) \/ Publish(d)
      PROVE  Goal
  <2>1. \E p \in Places : held' = Moved(d, p) /\ Turn(d, p)
    BY <1>1
    DEF Receive, Spawn, Reply, AckFirst, CountSuccess, CountFailure, Publish, Retries,
        Turn, Answers, Places, AtWork
  <2> QED  BY <2>1
<1>2. ASSUME NEW d \in held, SpawnUndecodable(d) \/ CountAcked(d) \/ Ack(d)  PROVE Goal
  BY <1>2 DEF SpawnUndecodable, CountAcked, Ack
<1>3. ASSUME NEW d \in held, PublishNowhere(d)  PROVE Goal
  <2> DEFINE L == {d.copy.loop}
  <2>1. /\ L \in SUBSET Loops /\ "settled" \in Places /\ d.at = "failed"
        /\ Turn(d, "settled")
    BY <1>3, HeldFields DEF PublishNowhere, Retries, Places, AtWork, Turn, Answers
  <2>2. Moved(d, "settled") \in SUBSET Delivery /\ Buffered(L) \subseteq Moved(d, "settled")
    BY <2>1, MovedDelivery DEF TypeInv, Buffered
  <2>3. ChannelsLost(L, Moved(d, "settled"))
    BY <1>3 DEF PublishNowhere
  <2> HIDE DEF L
  <2>4. held' \subseteq Moved(d, "settled")
    BY <2>1, <2>2, <2>3, LostChannels
  <2> QED  BY <2>1, <2>4
<1>4. ASSUME NEW L \in SUBSET Loops, ChannelsLost(L, held)  PROVE Goal
  <2>1. held \in SUBSET Delivery /\ Buffered(L) \subseteq held
    BY DEF TypeInv, Buffered
  <2> QED  BY <1>4, <2>1, LostChannels
<1>5. ASSUME BrokerRestart \/ (\E L \in SUBSET Loops : Drop(L))  PROVE Goal
  <2>1. Loops \in SUBSET Loops
    OBVIOUS
  <2> QED  BY <1>4, <1>5, <2>1 DEF Drop, BrokerRestart
<1>6. ASSUME ProcessEnds  PROVE Goal
  BY <1>6, ProcessEnded
<1>7. ASSUME UNCHANGED held  PROVE Goal
  BY <1>7
<1>8. ASSUME NEW m \in Msgs, Push(m) \/ PushForeign(m)  PROVE Goal
  BY <1>7, <1>8 DEF Push, PushForeign, process
<1>9. ASSUME \/ Tick \/ QueueHandle \/ DeclareExchange \/ BindAndConsume \/ StartMain
             \/ (\E l \in Loops : Reopen(l)) \/ (\E c \in ready : Unrouted(c))
             \/ UNCHANGED <<vars, setup>>
      PROVE  Goal
  BY <1>7, <1>9 DEF Tick, QueueHandle, DeclareExchange, BindAndConsume, StartMain, Reopen,
     Unrouted, vars, process
<1>10. ASSUME NEW c \in ready, Deliver(c)  PROVE Goal
  BY <1>10
<1> HIDE DEF Goal
<1>11. Goal
  BY <1>1, <1>2, <1>3, <1>5, <1>6, <1>8, <1>9, <1>10
  DEF Step, Next, Dispatching, Stop, ReplyNull
<1> QED  BY <1>11 DEF Goal

(* Only Reply answers.                                                     *)
LEMMA OnlyReplyAnswers ==
  ASSUME TypeInv, Step, ~\E d \in held : Reply(d)
  PROVE  /\ UNCHANGED <<tried, failedAt>>
         /\ \A e \in held' : e.at \in Answers => e \in held
<1>1. UNCHANGED <<tried, failedAt>>
  BY DEF Step, Next, Dispatching, Push, PushForeign, Tick, Unrouted, Deliver, Drop, Reopen,
     Stop, ProcessEnds, BrokerRestart, QueueHandle, DeclareExchange, BindAndConsume,
     StartMain, Receive, Spawn, SpawnUndecodable, ReplyNull, AckFirst, CountAcked,
     CountSuccess, CountFailure, Publish, PublishNowhere, Ack, vars, history
<1>2. ASSUME NEW d \in held, NEW p \in Places, held' \subseteq Moved(d, p), Turn(d, p)
      PROVE  \A e \in held' : e.at \in Answers => e \in held
  <2>1. p \notin Answers
    BY <1>2 DEF Turn, Answers
  <2> QED  BY <1>2, <2>1, MovedDelivery
<1>3. ASSUME NEW c \in ready, Deliver(c)
      PROVE  \A e \in held' : e.at \in Answers => e \in held
  BY <1>3 DEF Deliver, Answers
<1> QED  BY <1>1, <1>2, <1>3, HeldSteps

(* What Reply does.                                                        *)
LEMMA Replied ==
  ASSUME TypeInv, NEW d \in held, Reply(d)
  PROVE  /\ d.at = "post"
         /\ \E p \in Answers :
              /\ held' = (held \ {d}) \cup {MovedTo(d, p)}
              /\ MovedTo(d, p).copy = d.copy /\ MovedTo(d, p).at = p
              /\ MovedTo(d, p).epoch = d.epoch
              /\ p = "failed" => failedAt'[d.copy.msg] # Never
         /\ tried'[d.copy.msg] = tried[d.copy.msg] \cup {d.copy.cur}
         /\ \A m \in Msgs : m # d.copy.msg => tried'[m] = tried[m]
         /\ \A m \in Msgs : failedAt[m] # Never => failedAt'[m] = failedAt[m]
         /\ \A m \in Msgs : failedAt'[m] = failedAt[m] \/ failedAt'[m] = now
         /\ Copies' = Copies
         /\ UNCHANGED <<ready, unacked, epoch, now, counters, pushed>>
<1>1. d.copy.msg \in Msgs /\ d.copy \in Copies
  BY HeldFields
<1>2. PICK p \in Answers : /\ held' = Moved(d, p)
                           /\ p = "failed" => failedAt' = [failedAt EXCEPT ![d.copy.msg] =
                                                             IF @ = Never THEN now ELSE @]
                           /\ p = "ok" => failedAt' = failedAt
  BY DEF Reply, Answers
<1>3. p \in Places
  BY DEF Answers, Places, AtWork
<1>4. /\ held' = (held \ {d}) \cup {MovedTo(d, p)}
      /\ MovedTo(d, p).copy = d.copy /\ MovedTo(d, p).at = p /\ MovedTo(d, p).epoch = d.epoch
  BY <1>2, <1>3, MovedDelivery
<1>5. p = "failed" => failedAt'[d.copy.msg] # Never
  BY <1>1, <1>2 DEF TypeInv, Never
<1>6. /\ \A m \in Msgs : failedAt[m] # Never => failedAt'[m] = failedAt[m]
      /\ \A m \in Msgs : failedAt'[m] = failedAt[m] \/ failedAt'[m] = now
  BY <1>1, <1>2 DEF TypeInv, Answers
<1>7. /\ d.at = "post" /\ tried' = [tried EXCEPT ![d.copy.msg] = @ \cup {d.copy.cur}]
      /\ UNCHANGED <<ready, unacked, epoch, now, counters, pushed>>
  BY DEF Reply, broker, channels
<1>8. /\ tried'[d.copy.msg] = tried[d.copy.msg] \cup {d.copy.cur}
      /\ \A m \in Msgs : m # d.copy.msg => tried'[m] = tried[m]
  BY <1>1, <1>7 DEF TypeInv
<1>9. Copies' = Copies
  BY <1>4, <1>7 DEF Copies
<1> QED  BY <1>4, <1>5, <1>6, <1>7, <1>8, <1>9
-----------------------------------------------------------------------------
(***************************************************************************)
(* Time.  A copy carries the promise that its delay has passed when it is  *)
(* due, and no delivery is made before.                                    *)
(***************************************************************************)
PassedAt(c, t) ==
  c.cur > 0 => failedAt[c.msg] # Never /\ failedAt[c.msg] + c.cur <= t

TimeInv ==
  /\ \A m \in Msgs : failedAt[m] = Never \/ failedAt[m] \in 0..now
  /\ \A c \in Copies : PassedAt(c, c.due)
  /\ \A d \in held : d.copy.due <= now
  /\ \A d \in held : d.at = "failed" => failedAt[d.copy.msg] # Never

(* The invariant holds at first.                                           *)
LEMMA TimeInvInit == Init => TimeInv
BY DEF Init, TimeInv, Copies

(* Every step keeps it.                                                    *)
LEMMA TimeInvNext == TypeInv /\ TimeInv /\ Step => TimeInv'
<1> SUFFICES ASSUME TypeInv, TimeInv, Step  PROVE TimeInv'
  OBVIOUS
<1>1. ASSUME NEW d \in held, Reply(d)  PROVE TimeInv'
  <2>1. PICK p \in Answers : /\ held' = (held \ {d}) \cup {MovedTo(d, p)}
                             /\ MovedTo(d, p).copy = d.copy /\ MovedTo(d, p).at = p
                             /\ p = "failed" => failedAt'[d.copy.msg] # Never
    BY <1>1, Replied
  <2>2. /\ \A m \in Msgs : failedAt[m] # Never => failedAt'[m] = failedAt[m]
        /\ \A m \in Msgs : failedAt'[m] = failedAt[m] \/ failedAt'[m] = now
        /\ Copies' = Copies /\ now' = now /\ now \in Nat
    BY <1>1, Replied DEF TypeInv
  <2>3. \A c \in Copies : c.msg \in Msgs
    BY CopyFields
  <2>4. \A e \in held : e.copy.msg \in Msgs
    BY HeldFields
  <2>5. \A m \in Msgs : failedAt'[m] = Never \/ failedAt'[m] \in 0..now'
    BY <2>2 DEF TimeInv
  <2>6. \A c \in Copies' : PassedAt(c, c.due)'
    BY <2>2, <2>3 DEF TimeInv, PassedAt
  <2>7. \A e \in held' : e.copy.due <= now' /\ (e.at = "failed" => failedAt'[e.copy.msg] # Never)
    BY <2>1, <2>2, <2>4 DEF TimeInv
  <2> QED  BY <2>5, <2>6, <2>7 DEF TimeInv
<1>2. CASE ~\E d \in held : Reply(d)
  <2>1. /\ failedAt' = failedAt /\ now' \in Nat /\ now' >= now /\ now \in Nat
        /\ \A e \in held' : e.at = "failed" => e \in held
    BY <1>2, OnlyReplyAnswers, ClockMoves DEF TypeInv, Answers
  <2>2. \A m \in Msgs : failedAt'[m] = Never \/ failedAt'[m] \in 0..now'
    BY <2>1 DEF TimeInv
  <2>3. \A e \in held' : e.at = "failed" => failedAt'[e.copy.msg] # Never
    BY <2>1 DEF TimeInv
  <2>4. ASSUME \A c \in Copies' : c \in Copies \/ PassedAt(c, c.due),
               \A e \in held' : e.copy.due <= now \/ \E d \in held : e.copy = d.copy
        PROVE  TimeInv'
    <3>1. \A c \in Copies' : PassedAt(c, c.due)'
      BY <2>1, <2>4 DEF TimeInv, PassedAt
    <3>2. \A e \in held' : e.copy.due <= now /\ e.copy.due \in Nat
      BY <2>4, HeldFields, TypeInvNext DEF TimeInv, TypeInv, Delivery, Copy
    <3> QED  BY <2>1, <2>2, <2>3, <3>1, <3>2 DEF TimeInv
  <2>5. ASSUME NEW m \in Msgs, Push(m) \/ PushForeign(m)  PROVE TimeInv'
    <3>1. PICK c \in Served : c.cur = 0 /\ ready' = ready \cup {c}
      BY <2>5, PushedCopy
    <3>2. UNCHANGED <<unacked, held>>
      BY <2>5 DEF Push, PushForeign, process
    <3>3. Copies' \subseteq Copies \cup {c} /\ PassedAt(c, c.due)
      BY <3>1, <3>2 DEF Copies, PassedAt
    <3> QED  BY <2>4, <3>2, <3>3
  <2>6. ASSUME NEW c \in ready, Deliver(c)  PROVE TimeInv'
    <3>1. PICK d : d.copy = c /\ held' = held \cup {d}
      BY <2>6 DEF Deliver
    <3>2. ready' \subseteq ready /\ unacked' \subseteq unacked \cup {c} /\ c.due <= now
      BY <2>6 DEF Deliver
    <3>3. Copies' \subseteq Copies
      BY <3>1, <3>2 DEF Copies
    <3> QED  BY <2>4, <3>1, <3>2, <3>3
  <2>7. ASSUME NEW d \in held, Publishes(d)  PROVE TimeInv'
    <3>1. /\ DelayFor(d.copy) > 0 /\ d.at = "failed" /\ "settled" \in Places
          /\ held' = Moved(d, "settled") /\ ready' = ready \cup {Child(d)} /\ unacked' = unacked
      BY <2>7 DEF Publishes, Publish, Retries, Places, AtWork
    <3>2. \A e \in held' : \E f \in held : e.copy = f.copy
      BY <3>1, MovedDelivery
    <3>3. Copies' \subseteq Copies \cup {Child(d)}
      BY <3>1, <3>2 DEF Copies
    <3>4. /\ Child(d).msg = d.copy.msg /\ Child(d).cur = DelayFor(d.copy)
          /\ Child(d).cur \in Int
          /\ Child(d).due = now + DelayFor(d.copy) - d.copy.cur
      BY <3>1, ChildFields
    <3>5. /\ d.copy \in Copies /\ d.copy.msg \in Msgs /\ d.copy.cur \in Int /\ d.copy.cur >= 0
          /\ d.copy.due \in Nat
      BY HeldFields
    <3>6. failedAt[d.copy.msg] \in 0..now /\ failedAt[d.copy.msg] # Never
      BY <3>1, <3>5 DEF TimeInv
    <3>7. failedAt[d.copy.msg] + d.copy.cur <= now
      BY <2>1, <3>5, <3>6 DEF TimeInv, PassedAt
    <3>8. PassedAt(Child(d), Child(d).due)
      BY <2>1, <3>4, <3>5, <3>6, <3>7 DEF PassedAt
    <3> QED  BY <2>4, <3>2, <3>3, <3>8
  <2>8. CASE OnlyMoves
    <3>1. \A e \in held' : \E d \in held : e.copy = d.copy
      BY <2>8, MovedDelivery DEF OnlyMoves
    <3> QED  BY <2>4, <2>8, <3>1, CopiesOnlyMove
  <2> QED  BY <2>5, <2>6, <2>7, <2>8, StepKinds
<1> QED  BY <1>1, <1>2

(* No message is posted before it is due, and no retry before its delay    *)
(* has passed since the first failure, whichever of its deliveries failed, *)
(* was repeated or came late.                                              *)
THEOREM NeverEarlyHolds == Spec => []NeverEarly
<1>1. TypeInv /\ TimeInv => NeverEarly
  <2> SUFFICES ASSUME TypeInv, TimeInv, NEW d \in held
               PROVE  /\ d.copy.due <= now
                      /\ d.copy.cur > 0 => failedAt[d.copy.msg] # Never
                                           /\ failedAt[d.copy.msg] + d.copy.cur <= now
    BY DEF NeverEarly
  <2>1. /\ d.copy \in Copies /\ d.copy.due \in Nat /\ d.copy.cur \in Int
        /\ d.copy.msg \in Msgs
    BY HeldFields
  <2>2. failedAt[d.copy.msg] \in Int /\ now \in Nat
    BY <2>1 DEF TypeInv
  <2> QED  BY <2>1, <2>2 DEF TimeInv, PassedAt
<1> QED  BY <1>1, TypeInvInit, TypeInvNext, TimeInvInit, TimeInvNext, PTL DEF Spec, Step
-----------------------------------------------------------------------------
(***************************************************************************)
(* Answers.  What can be told from the place of a delivery about what its  *)
(* goroutine has done.                                                     *)
(***************************************************************************)
Done(d) ==
  /\ d.at \in AtWork => Decodes(d.copy)
  /\ d.at \in Answers \cup {"settled", "acked"} => d.copy.cur \in tried[d.copy.msg]
  /\ d.at = "settled" => ~IsAutoAck
  /\ d.at = "acked" => IsAutoAck \/ Faulty("encode")

AnswerInv == \A d \in held : Done(d)

(* The invariant holds at first.                                           *)
LEMMA AnswerInvInit == Init => AnswerInv
BY DEF Init, AnswerInv

(* What was tried stays tried.                                             *)
LEMMA TriedGrows ==
  ASSUME TypeInv, Step, NEW m \in Msgs
  PROVE  tried[m] \subseteq tried'[m]
<1>1. ASSUME NEW d \in held, Reply(d)  PROVE tried[m] \subseteq tried'[m]
  BY <1>1, Replied
<1> QED  BY <1>1, OnlyReplyAnswers

(* Every step keeps it.                                                    *)
LEMMA AnswerInvNext == TypeInv /\ AnswerInv /\ Step => AnswerInv'
<1> SUFFICES ASSUME TypeInv, AnswerInv, Step  PROVE AnswerInv'
  OBVIOUS
<1>1. ASSUME NEW d \in held  PROVE Done(d)'
  <2>1. Done(d) /\ tried[d.copy.msg] \subseteq tried'[d.copy.msg]
    BY HeldFields, TriedGrows DEF AnswerInv
  <2> QED  BY <2>1, SetupKept DEF Done, Decodes, IsAutoAck, Faulty
<1>2. CASE held' \subseteq held
  BY <1>1, <1>2 DEF AnswerInv
<1>3. ASSUME NEW c \in ready, Deliver(c)  PROVE AnswerInv'
  <2>1. PICK d : d.at = "buffered" /\ held' = held \cup {d}
    BY <1>3 DEF Deliver
  <2>2. Done(d)'
    BY <2>1 DEF Done, AtWork, Answers
  <2> QED  BY <1>1, <2>1, <2>2 DEF AnswerInv
<1>4. ASSUME NEW d \in held, NEW p \in Places, held' \subseteq Moved(d, p), Turn(d, p)
      PROVE  AnswerInv'
  <2>1. Done(d) /\ Done(d)' /\ setup' = setup
    BY <1>1, SetupKept DEF AnswerInv
  <2>2. p \in Answers => d.copy.cur \in tried'[d.copy.msg]
    BY <1>4, Replied DEF Turn, Answers
  <2>3. ASSUME NEW e \in held', e \notin held  PROVE Done(e)'
    <3>1. e.copy = d.copy /\ e.at = p
      BY <1>4, <2>3, MovedDelivery
    <3>2. /\ p \in AtWork => Decodes(d.copy)
          /\ p \in Answers \cup {"settled", "acked"} => d.copy.cur \in tried'[d.copy.msg]
          /\ p = "settled" => ~IsAutoAck'
          /\ p = "acked" => IsAutoAck' \/ Faulty("encode")'
      BY <1>4, <2>1, <2>2 DEF Turn, Done, Answers, AtWork, IsAutoAck, Faulty
    <3> QED  BY <3>1, <3>2 DEF Done, Decodes
  <2> QED  BY <1>1, <2>3 DEF AnswerInv
<1> QED  BY <1>2, <1>3, <1>4, HeldSteps
-----------------------------------------------------------------------------
(***************************************************************************)
(* Tiers.  A copy's message was tried with every stage below its delay,    *)
(* and with that too once its delivery is answered.                        *)
(***************************************************************************)
Staged(c) ==
  /\ c.cur \in Stages(DelayOnFailure)
  /\ StagesBelow(DelayOnFailure, c.cur) \subseteq tried[c.msg]

TierInv ==
  /\ \A c \in Copies : Staged(c)
  /\ \A m \in Msgs : tried[m] \subseteq Stages(DelayOnFailure)

(* The invariant holds at first.                                           *)
LEMMA TierInvInit == Init => TierInv
BY DEF Init, TierInv, Copies

(* The delay after a failed delivery is the stage after its own.           *)
LEMMA DelayForNext ==
  ASSUME TypeInv, AnswerInv, TierInv, IsSorted(DelayOnFailure),
         NEW d \in held, d.at = "failed"
  PROVE  \/ /\ DelayFor(d.copy) <= 0
            /\ StagesUpTo(DelayOnFailure, d.copy.cur) = Stages(DelayOnFailure)
         \/ /\ DelayFor(d.copy) > 0
            /\ DelayFor(d.copy) \in TiersReached(DelayOnFailure)
            /\ StagesBelow(DelayOnFailure, DelayFor(d.copy))
                 = StagesUpTo(DelayOnFailure, d.copy.cur)
<1> DEFINE c == d.copy
<1>1. c \in Copies /\ c \in Served /\ c.loop \in Loops
  BY HeldFields
<1>2. c.cur \in Stages(DelayOnFailure)
  BY <1>1 DEF TierInv, Staged
<1>3. /\ RunMode(c.loop) = "retry" => c.cur > 0
      /\ RunMode(c.loop) # "retry" => c.cur = 0
  BY <1>1 DEF AnswerInv, Done, AtWork, Decodes, Served, RunMode, Loops
<1>4. DelayFor(c) = DelayAfter(RunMode(c.loop), c.cur, DelayOnFailure)
  BY DEF DelayFor
<1> HIDE DEF c
<1>5. \/ /\ DelayFor(c) <= 0
         /\ StagesUpTo(DelayOnFailure, c.cur) = Stages(DelayOnFailure)
      \/ /\ DelayFor(c) > 0
         /\ DelayFor(c) \in TiersReached(DelayOnFailure)
         /\ StagesBelow(DelayOnFailure, DelayFor(c)) = StagesUpTo(DelayOnFailure, c.cur)
  BY <1>2, <1>3, <1>4, ConfigAssumption, DelayAfterNextStage
<1> QED  BY <1>5 DEF c

(* The stage a failed delivery asks for.                                   *)
LEMMA NextStage ==
  ASSUME TypeInv, AnswerInv, TierInv, IsSorted(DelayOnFailure),
         NEW d \in held, d.at = "failed"
  PROVE  \/ /\ DelayFor(d.copy) <= 0
            /\ tried[d.copy.msg] = Stages(DelayOnFailure)
         \/ /\ DelayFor(d.copy) > 0
            /\ DelayFor(d.copy) \in Stages(DelayOnFailure)
            /\ StagesBelow(DelayOnFailure, DelayFor(d.copy)) \subseteq tried[d.copy.msg]
<1> DEFINE c == d.copy
<1>1. c \in Copies /\ c.msg \in Msgs
  BY HeldFields
<1>2. /\ c.cur \in Stages(DelayOnFailure) /\ c.cur \in tried[c.msg]
      /\ StagesBelow(DelayOnFailure, c.cur) \subseteq tried[c.msg]
      /\ tried[c.msg] \subseteq Stages(DelayOnFailure)
  BY <1>1 DEF TierInv, Staged, AnswerInv, Done, Answers
<1>3. StagesUpTo(DelayOnFailure, c.cur) \subseteq tried[c.msg]
  BY <1>2, ConfigAssumption, StagesAdd
<1>4. TiersReached(DelayOnFailure) \subseteq Stages(DelayOnFailure)
  BY DEF Stages
<1> QED  BY <1>2, <1>3, <1>4, DelayForNext

(* Every step keeps it.                                                    *)
LEMMA TierInvNext ==
  IsSorted(DelayOnFailure) /\ TypeInv /\ AnswerInv /\ TierInv /\ Step => TierInv'
<1> SUFFICES ASSUME IsSorted(DelayOnFailure), TypeInv, AnswerInv, TierInv, Step
             PROVE  TierInv'
  OBVIOUS
<1>1. \A m \in Msgs : tried'[m] \subseteq Stages(DelayOnFailure)
  <2>1. ASSUME NEW d \in held, Reply(d), NEW m \in Msgs
        PROVE  tried'[m] \subseteq Stages(DelayOnFailure)
    <3>1. d.copy.cur \in Stages(DelayOnFailure)
      BY HeldFields DEF TierInv, Staged
    <3> QED  BY <2>1, <3>1, Replied DEF TierInv
  <2> QED  BY <2>1, OnlyReplyAnswers DEF TierInv
<1>2. ASSUME NEW c \in Copies  PROVE Staged(c)'
  <2>1. Staged(c) /\ tried[c.msg] \subseteq tried'[c.msg]
    BY CopyFields, TriedGrows DEF TierInv
  <2> QED  BY <2>1 DEF Staged
<1>3. ASSUME NEW c \in Served, c.cur = 0  PROVE Staged(c)'
  <2>1. StagesBelow(DelayOnFailure, 0) = {}
    BY ConfigAssumption, StagesAtZero
  <2> QED  BY <1>3, <2>1 DEF Staged, Stages
<1>4. ASSUME NEW m \in Msgs, Push(m) \/ PushForeign(m)  PROVE TierInv'
  <2>1. PICK c \in Served : c.cur = 0 /\ ready' = ready \cup {c}
    BY <1>4, PushedCopy
  <2>2. UNCHANGED <<unacked, held>>
    BY <1>4 DEF Push, PushForeign, process
  <2>3. Copies' \subseteq Copies \cup {c}
    BY <2>1, <2>2 DEF Copies
  <2> QED  BY <1>1, <1>2, <1>3, <2>1, <2>3 DEF TierInv
<1>5. ASSUME NEW c \in ready, Deliver(c)  PROVE TierInv'
  <2>1. PICK d : d.copy = c /\ held' = held \cup {d}
    BY <1>5 DEF Deliver
  <2>2. ready' \subseteq ready /\ unacked' \subseteq unacked \cup {c}
    BY <1>5 DEF Deliver
  <2>3. Copies' \subseteq Copies
    BY <2>1, <2>2 DEF Copies
  <2> QED  BY <1>1, <1>2, <2>3 DEF TierInv
<1>6. ASSUME NEW d \in held, Publishes(d)  PROVE TierInv'
  <2>1. /\ DelayFor(d.copy) > 0 /\ d.at = "failed" /\ "settled" \in Places
        /\ held' = Moved(d, "settled") /\ ready' = ready \cup {Child(d)} /\ unacked' = unacked
        /\ tried' = tried
    BY <1>6 DEF Publishes, Publish, Retries, Places, AtWork, history
  <2>2. Copies' \subseteq Copies \cup {Child(d)}
    BY <2>1, MovedDelivery DEF Copies
  <2>3. Child(d).msg = d.copy.msg /\ Child(d).cur = DelayFor(d.copy) /\ DelayFor(d.copy) \in Int
    BY <2>1, ChildFields
  <2>4. \A c : c = Child(d) => Staged(c)'
    BY <2>1, <2>3, NextStage DEF Staged
  <2> QED  BY <1>1, <1>2, <2>2, <2>4 DEF TierInv
<1>7. CASE OnlyMoves
  BY <1>1, <1>2, <1>7, CopiesOnlyMove DEF TierInv
<1> QED  BY <1>4, <1>5, <1>6, <1>7, StepKinds

(* Who counts a failure: the last branch of a failed dispatch, and, if it  *)
(* cannot be encoded, a retry.                                             *)
LEMMA FailureCounted ==
  ASSUME TypeInv, AnswerInv, Step
  PROVE  \/ UNCHANGED failure
         \/ Faulty("encode")
         \/ \E d \in held : /\ d.at = "failed" /\ DelayFor(d.copy) <= 0 /\ UNCHANGED tried
                            /\ failure' = Counted(failure, d.copy.msg)
<1>1. ASSUME NEW d \in held, CountAcked(d)  PROVE UNCHANGED failure \/ Faulty("encode")
  BY <1>1 DEF CountAcked, AnswerInv, Done, counters
<1>2. ASSUME NEW d \in held, CountFailure(d)
      PROVE  \/ UNCHANGED failure
             \/ /\ d.at = "failed" /\ DelayFor(d.copy) <= 0 /\ UNCHANGED tried
                /\ failure' = Counted(failure, d.copy.msg)
  BY <1>2 DEF CountFailure, history
<1> QED
  BY <1>1, <1>2
  DEF Step, Next, Dispatching, Push, PushForeign, Tick, Unrouted, Deliver, Drop, Reopen,
     Stop, ProcessEnds, BrokerRestart, QueueHandle, DeclareExchange, BindAndConsume,
     StartMain, Receive, Spawn, SpawnUndecodable, Reply, ReplyNull, AckFirst,
     CountSuccess, Publish, PublishNowhere, Ack, vars, counters

(* A count of a failure comes from a delivery without a next delay, and    *)
(* below that all tiers were tried.                                        *)
LEMMA ExhaustedNext ==
  IsSorted(DelayOnFailure) /\ TypeInv /\ AnswerInv /\ TierInv /\ TiersExhausted /\ Step
    => TiersExhausted'
<1> SUFFICES ASSUME IsSorted(DelayOnFailure), TypeInv, AnswerInv, TierInv, TierInv',
                    TiersExhausted, Step
             PROVE  TiersExhausted'
  BY TierInvNext
<1>1. {0} \cup AllTiers = Stages(DelayOnFailure)
  BY DEF AllTiers, Stages, TiersReached
<1>2. Faulty("encode")' <=> Faulty("encode")
  BY SetupKept DEF Faulty
<1>3. ASSUME NEW m \in Msgs, tried[m] = Stages(DelayOnFailure)
      PROVE  tried'[m] = Stages(DelayOnFailure)
  BY <1>3, TriedGrows DEF TierInv
<1>4. ASSUME NEW m \in Msgs, failure'[m] > 0, ~Faulty("encode")
      PROVE  tried'[m] = Stages(DelayOnFailure)
  <2>1. CASE failure'[m] = failure[m]
    BY <1>1, <1>3, <1>4, <2>1 DEF TiersExhausted
  <2>2. ASSUME NEW d \in held, d.at = "failed", DelayFor(d.copy) <= 0, d.copy.msg = m
        PROVE  tried[m] = Stages(DelayOnFailure)
    <3>1. DelayFor(d.copy) \in Int
      BY HeldFields, DelayForType
    <3> QED  BY <2>2, <3>1, NextStage
  <2>3. ASSUME NEW d \in held, failure' = Counted(failure, d.copy.msg), d.copy.msg # m
        PROVE  failure'[m] = failure[m]
    BY <2>3 DEF Counted, TypeInv
  <2> QED  BY <1>3, <1>4, <2>1, <2>2, <2>3, FailureCounted
<1> QED  BY <1>1, <1>2, <1>4 DEF TiersExhausted, AllTiers

(* With a sorted schedule, as sort.Ints leaves it, a message is counted as *)
(* a failure only after it was posted once for every delay, duplicates or  *)
(* not; unless a retry could not be encoded.                               *)
THEOREM TiersExhaustedHolds ==
  ASSUME IsSorted(DelayOnFailure)
  PROVE  Spec => []TiersExhausted
<1>1. Init => TiersExhausted
  BY DEF Init, TiersExhausted
<1>2. TypeInv /\ AnswerInv /\ TierInv /\ Step => TierInv'
  BY TierInvNext
<1>3. TypeInv /\ AnswerInv /\ TierInv /\ TiersExhausted /\ Step => TiersExhausted'
  BY ExhaustedNext
<1> QED  BY <1>1, <1>2, <1>3, TypeInvInit, TypeInvNext, AnswerInvInit, AnswerInvNext,
            TierInvInit, PTL DEF Spec, Step
-----------------------------------------------------------------------------
(***************************************************************************)
(* Start-up.  Only a loop that is running has an open channel and          *)
(* deliveries in memory, and a delivery that can be acknowledged has its   *)
(* channel open; the retry loop is started with the main one if there is   *)
(* anything to retry.                                                      *)
(***************************************************************************)
Running(l) == pc[l] \in {"idle", "spawn"}

Kin(d, e) == e.copy = d.copy /\ e.epoch = d.epoch

StartInv ==
  /\ pc["main"] = "off" => pc["retry"] = "off"
  /\ pc["retry"] # "sleep"
  /\ pc["main"] # "off" /\ DelayOnFailure # <<>> => pc["retry"] # "off"
  /\ \A l \in Loops : open[l] => Running(l)
  /\ \A d \in held : Running(d.copy.loop) /\ (Live(d) => open[d.copy.loop])

(* The invariant holds at first.                                           *)
LEMMA StartInvInit == Init => StartInv
BY DEF Init, StartInv, Loops

(* A running loop goes on running, with the channels it has.               *)
LEMMA StartKept ==
  ASSUME TypeInv, StartInv, UNCHANGED <<open, epoch>>,
         \A e \in held' : \E d \in held : Kin(d, e),
         \/ UNCHANGED pc
         \/ \E l \in Loops, q \in {"idle", "spawn"} : Running(l) /\ pc' = [pc EXCEPT ![l] = q]
  PROVE  StartInv'
<1>1. /\ pc'["main"] = "off" <=> pc["main"] = "off"
      /\ pc'["retry"] = "off" <=> pc["retry"] = "off"
      /\ pc'["retry"] = "sleep" => pc["retry"] = "sleep"
      /\ \A l \in Loops : Running(l) => Running(l)'
  BY DEF TypeInv, Running, Loops
<1>2. \A d \in held : d.copy.loop \in Loops
  BY HeldFields
<1>3. \A e \in held' : Running(e.copy.loop)' /\ (Live(e)' => open'[e.copy.loop])
  BY <1>1, <1>2 DEF StartInv, Kin, Live
<1> QED  BY <1>1, <1>3 DEF StartInv

(* A delivery of a lost channel cannot be acknowledged.                    *)
LEMMA StartLost ==
  ASSUME TypeInv, LineageInv, StartInv, NEW L \in SUBSET Loops, UNCHANGED pc,
         \A e \in held' : \E d \in held : Kin(d, e),
         \A l \in L : ~open'[l] /\ epoch'[l] = epoch[l] + 1,
         \A l \in Loops \ L : open'[l] = open[l] /\ epoch'[l] = epoch[l]
  PROVE  StartInv'
<1>1. \A l \in Loops : open'[l] => open[l]
  OBVIOUS
<1>2. \A d \in held : d.copy.loop \in Loops /\ d.epoch \in Nat /\ epoch[d.copy.loop] \in Nat
  BY HeldFields DEF TypeInv
<1>3. ASSUME NEW e \in held'
      PROVE  Running(e.copy.loop)' /\ (Live(e)' => open'[e.copy.loop])
  <2>1. PICK d \in held : Kin(d, e)
    OBVIOUS
  <2>2. e.copy.loop \in L => ~Live(e)'
    BY <1>2, <2>1 DEF LineageInv, Kin, Live
  <2> QED  BY <1>2, <2>1, <2>2 DEF StartInv, Kin, Live, Running
<1> QED  BY <1>1, <1>3 DEF StartInv, Running

(* Every step keeps it.                                                    *)
LEMMA StartInvNext == TypeInv /\ LineageInv /\ StartInv /\ Step => StartInv'
<1> SUFFICES ASSUME TypeInv, LineageInv, StartInv, Step  PROVE StartInv'
  OBVIOUS
<1>1. ASSUME UNCHANGED held  PROVE \A e \in held' : \E d \in held : Kin(d, e)
  BY <1>1 DEF Kin
<1>2. CASE \/ Tick \/ UNCHANGED <<vars, setup>>
           \/ (\E c \in ready : Unrouted(c))
           \/ (\E m \in Msgs : Push(m) \/ PushForeign(m))
  <2>1. UNCHANGED <<open, epoch, held, pc>>
    BY <1>2 DEF Tick, Unrouted, Push, PushForeign, vars, channels, process
  <2> QED  BY <1>1, <2>1, StartKept
<1>3. ASSUME NEW c \in ready, Deliver(c)  PROVE StartInv'
  <2>1. PICK d : d.copy = c /\ held' = held \cup {d}
    BY <1>3 DEF Deliver
  <2>2. c.loop \in Loops /\ open[c.loop] /\ UNCHANGED <<open, epoch, pc>>
    BY <1>3 DEF Deliver, TypeInv, Copy, channels
  <2> QED  BY <2>1, <2>2 DEF StartInv, Running, Live
<1>4. ASSUME NEW L \in SUBSET Loops, Drop(L)  PROVE StartInv'
  <2>1. held \in SUBSET Delivery /\ Buffered(L) \subseteq held
    BY DEF TypeInv, Buffered
  <2>2. ChannelsLost(L, held) /\ UNCHANGED pc
    BY <1>4 DEF Drop
  <2>3. \A e \in held' : \E d \in held : Kin(d, e)
    BY <2>1, <2>2, LostChannels DEF Kin
  <2> QED  BY <2>1, <2>2, <2>3, LostChannels, StartLost
<1>5. CASE BrokerRestart
  <2>1. held \in SUBSET Delivery /\ Buffered(Loops) \subseteq held /\ Loops \in SUBSET Loops
    BY DEF TypeInv, Buffered
  <2>2. ChannelsLost(Loops, held) /\ UNCHANGED pc
    BY <1>5 DEF BrokerRestart
  <2>3. \A e \in held' : \E d \in held : Kin(d, e)
    BY <2>1, <2>2, LostChannels DEF Kin
  <2> QED  BY <2>1, <2>2, <2>3, LostChannels, StartLost
<1>6. ASSUME NEW l \in Loops, Reopen(l)  PROVE StartInv'
  <2>1. /\ Running(l) /\ open' = [open EXCEPT ![l] = TRUE]
        /\ UNCHANGED <<epoch, held, pc>>
    BY <1>6 DEF Reopen, Running, process
  <2>2. \A k \in Loops : open[k] => open'[k]
    BY <2>1, Zenon DEF TypeInv
  <2>3. \A k \in Loops : open'[k] => open[k] \/ k = l
    BY <2>1, Zenon DEF TypeInv
  <2>4. \A d \in held : d.copy.loop \in Loops
    BY HeldFields
  <2> QED  BY <2>1, <2>2, <2>3, <2>4 DEF StartInv, Running, Live
<1>7. CASE ProcessEnds
  BY <1>7, ProcessEnded DEF StartInv, Loops
<1>8. CASE QueueHandle
  <2>1. /\ pc["main"] = "off" /\ UNCHANGED <<open, epoch, held>>
        /\ pc'["main"] = "sleep"
        /\ pc'["retry"] = IF DelayOnFailure = <<>> THEN "off" ELSE "declare"
    BY <1>8 DEF QueueHandle, channels
  <2>2. \A l \in Loops : ~Running(l)
    BY <2>1 DEF StartInv, Running, Loops
  <2>3. held = {} /\ \A l \in Loops : ~open[l]
    BY <2>2, HeldFields DEF StartInv
  <2> QED  BY <2>1, <2>3 DEF StartInv
<1>9. CASE DeclareExchange \/ BindAndConsume \/ StartMain
  <2>1. PICK l \in Loops, q \in {"bind", "idle"} :
          /\ pc[l] \in {"declare", "bind", "sleep"} /\ pc' = [pc EXCEPT ![l] = q]
          /\ \/ open' = open
             \/ q = "idle" /\ open' = [open EXCEPT ![l] = TRUE]
          /\ q = "idle" \/ l = "retry"
          /\ UNCHANGED <<epoch, held>>
    BY <1>9 DEF DeclareExchange, BindAndConsume, StartMain, Loops, channels
  <2>2. ~Running(l) /\ ~open[l] /\ \A d \in held : d.copy.loop # l /\ d.copy.loop \in Loops
    BY <2>1, HeldFields DEF StartInv, Running
  <2>3. \A k \in Loops : k # l => pc'[k] = pc[k] /\ (open'[k] <=> open[k])
    BY <2>1, Zenon DEF TypeInv
  <2>4. pc'[l] = q /\ (open'[l] => q = "idle")
    BY <2>1, <2>2 DEF TypeInv
  <2>5. /\ pc'["main"] = "off" => pc'["retry"] = "off"
        /\ pc'["retry"] # "sleep"
        /\ pc'["main"] # "off" /\ DelayOnFailure # <<>> => pc'["retry"] # "off"
    BY <2>1, <2>3, <2>4 DEF StartInv, Loops
  <2>6. \A k \in Loops : open'[k] => Running(k)'
    BY <2>3, <2>4 DEF StartInv, Running
  <2>7. \A d \in held' : Running(d.copy.loop)' /\ (Live(d)' => open'[d.copy.loop])
    BY <2>1, <2>2, <2>3 DEF StartInv, Running, Live
  <2> QED  BY <2>5, <2>6, <2>7 DEF StartInv
<1>10. ASSUME NEW d \in held, NEW p \in Places, held' \subseteq Moved(d, p)
       PROVE  \A e \in held' : \E f \in held : Kin(f, e)
  BY <1>10, MovedDelivery DEF Kin
<1>11. ASSUME held' \subseteq held  PROVE \A e \in held' : \E d \in held : Kin(d, e)
  BY <1>11 DEF Kin
<1>12. ASSUME NEW d \in held,
              \/ Receive(d) \/ Spawn(d) \/ SpawnUndecodable(d) \/ Reply(d) \/ AckFirst(d)
              \/ CountAcked(d) \/ CountSuccess(d) \/ CountFailure(d) \/ Publish(d) \/ Ack(d)
       PROVE  StartInv'
  <2>1. held' \subseteq held \/ \E p \in Places : held' = Moved(d, p)
    BY <1>12
    DEF Receive, Spawn, SpawnUndecodable, Reply, AckFirst, CountAcked, CountSuccess,
        CountFailure, Publish, Ack, Places, AtWork
  <2>2. \/ UNCHANGED pc
        \/ \E q \in {"idle", "spawn"} : pc' = [pc EXCEPT ![d.copy.loop] = q]
    BY <1>12
    DEF Receive, Spawn, SpawnUndecodable, Reply, AckFirst, CountAcked, CountSuccess,
        CountFailure, Publish, Ack
  <2>3. UNCHANGED <<open, epoch>>
    BY <1>12
    DEF Receive, Spawn, SpawnUndecodable, Reply, AckFirst, CountAcked, CountSuccess,
        CountFailure, Publish, Ack, channels
  <2>4. d.copy.loop \in Loops /\ Running(d.copy.loop)
    BY HeldFields DEF StartInv
  <2>5. \A e \in held' : \E f \in held : Kin(f, e)
    BY <1>10, <1>11, <2>1
  <2> QED  BY <2>2, <2>3, <2>4, <2>5, StartKept
<1>13. ASSUME NEW d \in held, PublishNowhere(d)  PROVE StartInv'
  <2> DEFINE L == {d.copy.loop}
  <2>1. L \in SUBSET Loops /\ "settled" \in Places /\ d.at = "failed"
    BY <1>13, HeldFields DEF PublishNowhere, Retries, Places, AtWork
  <2>2. Moved(d, "settled") \in SUBSET Delivery /\ Buffered(L) \subseteq Moved(d, "settled")
    BY <2>1, MovedDelivery DEF TypeInv, Buffered
  <2>3. ChannelsLost(L, Moved(d, "settled")) /\ UNCHANGED pc
    BY <1>13 DEF PublishNowhere
  <2> HIDE DEF L
  <2>4. /\ held' \subseteq Moved(d, "settled")
        /\ \A l \in L : ~open'[l] /\ epoch'[l] = epoch[l] + 1
        /\ \A l \in Loops \ L : open'[l] = open[l] /\ epoch'[l] = epoch[l]
    BY <2>1, <2>2, <2>3, LostChannels
  <2>5. \A e \in held' : \E f \in held : Kin(f, e)
    BY <1>10, <2>1, <2>4
  <2> QED  BY <2>1, <2>3, <2>4, <2>5, StartLost
<1> QED
  BY <1>2, <1>3, <1>4, <1>5, <1>6, <1>7, <1>8, <1>9, <1>12, <1>13
  DEF Step, Next, Dispatching, Stop, ReplyNull
-----------------------------------------------------------------------------
(***************************************************************************)
(* At least once.  What is published to <exchange>.delayed reaches the     *)
(* retry queue: as long as the wait of a second was enough, it is bound    *)
(* before anything can fail.                                               *)
(***************************************************************************)
BoundInv ==
  ~Lossy =>
    /\ Running("main") => pc["retry"] \notin {"declare", "bind"}
    /\ Running("retry") => bindings = "bound"
    /\ \A c \in ready \cup unacked : c.loop = "retry" => bindings = "bound"

(* The invariant holds at first.                                           *)
LEMMA BoundInvInit == Init => BoundInv
BY DEF Init, BoundInv, Running, Loops

(* What may be lost is a matter of the setup.                              *)
LEMMA LossyKept ==
  ASSUME Step
  PROVE  Lossy' <=> Lossy
BY DEF Step, Lossy, Faulty, IsDurable

(* Whoever publishes a retry finds the queue bound, unless the setup is    *)
(* one that may lose it.                                                   *)
LEMMA RetryBound ==
  ASSUME TypeInv, StartInv, BoundInv, ~Lossy, NEW d \in held, DelayOnFailure # <<>>
  PROVE  bindings = "bound"
<1>1. d.copy.loop \in Loops /\ Running(d.copy.loop)
  BY HeldFields DEF StartInv
<1>2. CASE d.copy.loop = "main"
  <2>1. Running("main") /\ pc["retry"] \notin {"off", "sleep", "declare", "bind"}
    BY <1>1, <1>2 DEF StartInv, BoundInv, Running
  <2>2. Running("retry")
    BY <2>1 DEF TypeInv, Running, Loops
  <2> QED  BY <2>2 DEF BoundInv
<1> QED  BY <1>1, <1>2 DEF BoundInv, Loops

(* A step that does not unbind, starts no loop and adds no copy keeps it.  *)
LEMMA BoundKept ==
  ASSUME Step, BoundInv,
         bindings = "bound" => bindings' = "bound",
         ready' \cup unacked' \subseteq ready \cup unacked,
         Running("main")' => Running("main"),
         Running("retry")' => Running("retry"),
         pc'["retry"] \in {"declare", "bind"} => pc["retry"] \in {"declare", "bind"}
  PROVE  BoundInv'
BY LossyKept DEF BoundInv

(* Every step keeps it.                                                    *)
LEMMA BoundInvNext == TypeInv /\ StartInv /\ BoundInv /\ Step => BoundInv'
<1> SUFFICES ASSUME TypeInv, StartInv, BoundInv, Step, ~Lossy  PROVE BoundInv'
  BY LossyKept DEF BoundInv
<1>1. ASSUME NEW m \in Msgs, Push(m) \/ PushForeign(m)  PROVE BoundInv'
  <2>1. PICK c \in Served : ready' = ready \cup {c} /\ (c.loop = "retry" => bindings = "bound")
    BY <1>1, PushedCopy
  <2>2. UNCHANGED <<unacked, bindings, pc>>
    BY <1>1 DEF Push, PushForeign, process
  <2> QED  BY <2>1, <2>2 DEF BoundInv, Running
<1>2. ASSUME UNCHANGED <<pc, bindings>>, ready' \cup unacked' \subseteq ready \cup unacked
      PROVE  BoundInv'
  BY <1>2, BoundKept DEF Running
<1>3. CASE \/ Tick \/ UNCHANGED <<vars, setup>> \/ (\E l \in Loops : Reopen(l))
           \/ (\E c \in ready : Unrouted(c) \/ Deliver(c))
           \/ (\E L \in SUBSET Loops : Drop(L))
  BY <1>2, <1>3 DEF Tick, Reopen, Unrouted, Deliver, Drop, Requeued, vars, broker, process
<1>4. CASE BrokerRestart
  <2>1. IsDurable
    BY <1>4 DEF BrokerRestart, Lossy
  <2>2. /\ UNCHANGED <<pc, bindings>> /\ unacked' = {} /\ ready' \subseteq ready \cup unacked
    BY <1>4, <2>1 DEF BrokerRestart, Kept
  <2> QED  BY <1>2, <2>2
<1>5. CASE ProcessEnds
  <2>1. pc'["main"] = "off" /\ pc'["retry"] = "off"
    BY <1>5, ProcessEnded DEF Loops
  <2> QED  BY <1>5, <2>1, ProcessEnded, BoundKept DEF Running
<1>6. CASE QueueHandle
  <2>1. /\ pc'["main"] = "sleep" /\ pc'["retry"] \in {"off", "declare"}
        /\ UNCHANGED <<ready, unacked, bindings>>
    BY <1>6 DEF QueueHandle, broker
  <2> QED  BY <2>1 DEF BoundInv, Running
<1>7. CASE DeclareExchange
  <2>1. /\ pc["retry"] = "declare" /\ pc'["retry"] = "bind" /\ pc'["main"] = pc["main"]
        /\ bindings = "bound" => bindings' = "bound"
        /\ UNCHANGED <<ready, unacked>>
    BY <1>7 DEF DeclareExchange, TypeInv, Loops
  <2> QED  BY <2>1, BoundKept DEF Running
<1>8. CASE BindAndConsume
  <2>1. /\ pc'["retry"] = "idle" /\ bindings' = "bound"
    BY <1>8 DEF BindAndConsume, TypeInv, Loops
  <2> QED  BY <2>1 DEF BoundInv
<1>9. CASE StartMain
  <2>1. /\ pc["retry"] \notin {"declare", "bind"} /\ pc'["retry"] = pc["retry"]
        /\ UNCHANGED <<ready, unacked, bindings>>
    BY <1>9 DEF StartMain, Lossy, Faulty, TypeInv, Loops
  <2> QED  BY <2>1 DEF BoundInv, Running
<1>10. ASSUME NEW d \in held, Receive(d) \/ Spawn(d) \/ SpawnUndecodable(d)
       PROVE  BoundInv'
  <2>1. \E q \in {"idle", "spawn"} : pc' = [pc EXCEPT ![d.copy.loop] = q]
    BY <1>10 DEF Receive, Spawn, SpawnUndecodable
  <2>2. d.copy.loop \in Loops /\ Running(d.copy.loop)
    BY HeldFields DEF StartInv
  <2>3. /\ \A l \in Loops : Running(l)' => Running(l)
        /\ pc'["retry"] \in {"declare", "bind"} => pc["retry"] \in {"declare", "bind"}
    BY <2>1, <2>2 DEF TypeInv, Running, Loops
  <2>4. UNCHANGED <<ready, unacked, bindings>>
    BY <1>10 DEF Receive, Spawn, SpawnUndecodable, broker
  <2> QED  BY <2>3, <2>4, BoundKept DEF Loops
<1>11. ASSUME NEW d \in held,
              \/ Reply(d) \/ AckFirst(d) \/ CountAcked(d) \/ CountSuccess(d)
              \/ CountFailure(d) \/ PublishNowhere(d) \/ Ack(d)
              \/ (Publish(d) /\ ~open[d.copy.loop])
       PROVE  BoundInv'
  BY <1>2, <1>11
  DEF Reply, AckFirst, CountAcked, CountSuccess, CountFailure, Publish, PublishNowhere, Ack,
      Acknowledged, Requeued, broker
<1>12. ASSUME NEW d \in held, Publishes(d)  PROVE BoundInv'
  <2>1. /\ DelayFor(d.copy) > 0 /\ ready' = ready \cup {Child(d)}
        /\ UNCHANGED <<unacked, bindings, pc>>
    BY <1>12 DEF Publishes, Publish, Retries
  <2>2. bindings = "bound"
    BY <2>1, HeldFields, DelayForType, RetryBound
  <2> QED  BY <2>1, <2>2 DEF BoundInv, Running
<1> QED
  BY <1>1, <1>3, <1>4, <1>5, <1>6, <1>7, <1>8, <1>9, <1>10, <1>11, <1>12
  DEF Step, Next, Dispatching, Stop, ReplyNull, Publishes

(* Counters only grow, so what is finished stays so.                       *)
LEMMA FinishedStays ==
  ASSUME TypeInv, Step, NEW m \in Msgs, Finished(m)
  PROVE  Finished(m)'
<1>1. ASSUME NEW n \in Msgs
      PROVE  /\ Counted(success, n)[m] \in Nat /\ Counted(success, n)[m] >= success[m]
             /\ Counted(failure, n)[m] \in Nat /\ Counted(failure, n)[m] >= failure[m]
  BY DEF Counted, TypeInv
<1>2. success[m] \in Nat /\ failure[m] \in Nat
  BY DEF TypeInv
<1>3. /\ UNCHANGED success \/ \E d \in held : success' = Counted(success, d.copy.msg)
      /\ UNCHANGED failure \/ \E d \in held : failure' = Counted(failure, d.copy.msg)
  BY DEF Step, Next, Dispatching, Push, PushForeign, Tick, Unrouted, Deliver, Drop, Reopen,
     Stop, ProcessEnds, BrokerRestart, QueueHandle, DeclareExchange, BindAndConsume,
     StartMain, Receive, Spawn, SpawnUndecodable, Reply, ReplyNull, AckFirst, CountAcked,
     CountSuccess, CountFailure, Publish, PublishNowhere, Ack, vars, counters
<1>4. \A d \in held : d.copy.msg \in Msgs
  BY HeldFields
<1>5. success'[m] \in Nat /\ success'[m] >= success[m]
  BY <1>1, <1>2, <1>3, <1>4
<1>6. failure'[m] \in Nat /\ failure'[m] >= failure[m]
  BY <1>1, <1>2, <1>3, <1>4
<1>7. IsAutoAck' <=> IsAutoAck
  BY SetupKept DEF IsAutoAck
<1> QED  BY <1>2, <1>5, <1>6, <1>7, TriedGrows DEF Finished, Outcomes

(***************************************************************************)
(* A delivery that is settled but for its acknowledgement has counted its  *)
(* message or has left a descendant with the broker.                       *)
(***************************************************************************)
HasHeir(d) == \E c \in ready \cup unacked : Descends(c, d.copy, d.epoch)

KeptInv ==
  ~Lossy =>
    /\ \A m \in pushed : Finished(m) \/ \E c \in ready \cup unacked : c.msg = m
    /\ \A d \in held : Live(d) /\ d.at = "settled" => Finished(d.copy.msg) \/ HasHeir(d)

(* The invariant holds at first.                                           *)
LEMMA KeptInvInit == Init => KeptInv
BY DEF Init, KeptInv

(* The broker gives up only copies of finished messages, and no delivery   *)
(* becomes settled without a reason.                                       *)
LEMMA KeptOn ==
  ASSUME TypeInv, KeptInv, Step, UNCHANGED pushed,
         \A c \in ready \cup unacked : c \in ready' \cup unacked' \/ Finished(c.msg)',
         \A e \in held' : Live(e)' /\ e.at = "settled" =>
           \/ Finished(e.copy.msg)' \/ HasHeir(e)'
           \/ \E d \in held : Kin(d, e) /\ Live(d) /\ d.at = "settled"
  PROVE  KeptInv'
<1> SUFFICES ASSUME ~Lossy  PROVE KeptInv'
  BY LossyKept DEF KeptInv
<1>1. ASSUME NEW m \in pushed
      PROVE  Finished(m)' \/ \E c \in ready' \cup unacked' : c.msg = m
  <2>1. m \in Msgs
    BY DEF TypeInv
  <2> QED  BY <2>1, FinishedStays DEF KeptInv
<1>2. ASSUME NEW e \in held', NEW d \in held, Kin(d, e), Live(d), d.at = "settled"
      PROVE  Finished(e.copy.msg)' \/ HasHeir(e)'
  <2>1. d.copy.msg \in Msgs
    BY HeldFields
  <2>2. Finished(d.copy.msg) \/ HasHeir(d)
    BY <1>2 DEF KeptInv
  <2>3. ASSUME NEW c \in ready \cup unacked, Descends(c, d.copy, d.epoch)
        PROVE  Finished(e.copy.msg)' \/ HasHeir(e)'
    BY <1>2, <2>3 DEF Kin, HasHeir, Descends
  <2> QED  BY <1>2, <2>1, <2>2, <2>3, FinishedStays DEF Kin, HasHeir
<1> QED  BY <1>1, <1>2 DEF KeptInv

(* d.Ack: what the acknowledged copy stood for is counted or has an heir,  *)
(* which descends from whatever that copy descended from.                  *)
LEMMA KeptAck ==
  ASSUME TypeInv, KeptInv, Step, NEW d \in held, Ack(d)
  PROVE  KeptInv'
<1> SUFFICES ASSUME ~Lossy  PROVE KeptInv'
  BY LossyKept DEF KeptInv
<1>1. /\ d.at = "settled" /\ unacked' = Acknowledged(d) /\ held' = held \ {d}
      /\ UNCHANGED <<ready, epoch, pushed>>
  BY DEF Ack, channels, history
<1>2. \A e \in held' : e \in held /\ Kin(e, e) /\ (Live(e)' => Live(e))
  BY <1>1 DEF Live, Kin
<1>3. unacked \ {d.copy} \subseteq unacked' /\ (~Live(d) => unacked' = unacked)
  BY <1>1 DEF Acknowledged
<1>4. d.copy.msg \in Msgs
  BY HeldFields
<1>5. CASE ~Live(d) \/ Finished(d.copy.msg)
  <2>1. \A c \in ready \cup unacked : c \in ready' \cup unacked' \/ Finished(c.msg)'
    BY <1>1, <1>3, <1>4, <1>5, FinishedStays
  <2> QED  BY <1>1, <1>2, <2>1, KeptOn
<1>6. CASE Live(d) /\ HasHeir(d)
  <2>1. PICK h \in ready \cup unacked : Descends(h, d.copy, d.epoch)
    BY <1>6 DEF HasHeir
  <2>2. /\ h \in Copies /\ h.path \in Seq(Nat) /\ d.copy.path \in Seq(Nat) /\ d.epoch \in Nat
        /\ h.msg = d.copy.msg /\ Extends(h.path, d.copy.path, d.epoch)
    BY <2>1, HeldFields, CopyFields DEF Copies, Descends
  <2>3. h # d.copy
    BY <2>2, ExtendsAppend
  <2>4. h \in ready' \cup unacked'
    BY <1>1, <1>3, <2>3
  <2>5. ASSUME NEW m \in pushed'
        PROVE  Finished(m)' \/ \E c \in ready' \cup unacked' : c.msg = m
    <3>1. m \in Msgs /\ m \in pushed
      BY <1>1 DEF TypeInv
    <3>2. Finished(m) \/ \E c \in ready \cup unacked : c.msg = m
      BY <3>1 DEF KeptInv
    <3> QED  BY <1>1, <1>3, <2>2, <2>4, <3>1, <3>2, FinishedStays
  <2>6. ASSUME NEW e \in held', Live(e)', e.at = "settled"
        PROVE  Finished(e.copy.msg)' \/ HasHeir(e)'
    <3>1. e \in held /\ Live(e) /\ e.copy.msg \in Msgs /\ e.copy.path \in Seq(Nat) /\ e.epoch \in Nat
      BY <1>2, <2>6, HeldFields
    <3>2. CASE Finished(e.copy.msg)
      BY <3>1, <3>2, FinishedStays
    <3>3. ASSUME NEW c \in ready \cup unacked, Descends(c, e.copy, e.epoch)
          PROVE  HasHeir(e)'
      <4>1. CASE c = d.copy
        <5>1. Extends(h.path, e.copy.path, e.epoch) /\ h.msg = e.copy.msg
          BY <2>2, <3>1, <3>3, <4>1, ExtendsTransitive DEF Descends
        <5> QED  BY <2>4, <5>1 DEF HasHeir, Descends
      <4>2. CASE c # d.copy
        BY <1>1, <1>3, <3>3, <4>2 DEF HasHeir, Descends
      <4> QED  BY <4>1, <4>2
    <3> QED  BY <2>6, <3>1, <3>2, <3>3 DEF KeptInv, HasHeir
  <2> QED  BY <2>5, <2>6 DEF KeptInv
<1> QED  BY <1>1, <1>5, <1>6 DEF KeptInv

(* Every step keeps it.                                                    *)
LEMMA KeptInvNext ==
  TypeInv /\ LineageInv /\ AnswerInv /\ StartInv /\ BoundInv /\ KeptInv /\ Step => KeptInv'
<1> SUFFICES ASSUME TypeInv, LineageInv, AnswerInv, StartInv, BoundInv, KeptInv, Step, ~Lossy
             PROVE  KeptInv'
  BY LossyKept DEF KeptInv
<1> DEFINE Granted(e) == Live(e)' /\ e.at = "settled" =>
             \/ Finished(e.copy.msg)' \/ HasHeir(e)'
             \/ \E d \in held : Kin(d, e) /\ Live(d) /\ d.at = "settled"
<1>1. ASSUME NEW e \in held, \A l \in Loops : epoch'[l] \in Nat /\ epoch'[l] >= epoch[l]
      PROVE  Granted(e)
  <2>1. /\ e.copy.loop \in Loops /\ e.epoch \in Nat /\ e.epoch <= epoch[e.copy.loop]
        /\ epoch[e.copy.loop] \in Nat
    BY HeldFields DEF LineageInv, TypeInv
  <2>2. Live(e)' => Live(e)
    BY <1>1, <2>1 DEF Live
  <2> QED  BY <2>2 DEF Kin
<1> HIDE DEF Granted
<1>2. ASSUME ready \cup unacked \subseteq ready' \cup unacked', UNCHANGED pushed,
             \A e \in held' : Granted(e)
      PROVE  KeptInv'
  BY <1>2, KeptOn DEF Granted
<1>3. UNCHANGED epoch => \A l \in Loops : epoch'[l] \in Nat /\ epoch'[l] >= epoch[l]
  BY DEF TypeInv
<1>4. ASSUME NEW m \in Msgs, Push(m) \/ PushForeign(m)  PROVE KeptInv'
  <2>1. PICK c \in Served : c.msg = m /\ ready' = ready \cup {c}
    BY <1>4, PushedCopy
  <2>2. pushed' = pushed \cup {m} /\ UNCHANGED <<unacked, held, epoch>>
    BY <1>4 DEF Push, PushForeign, channels, process
  <2>3. ASSUME NEW n \in pushed'
        PROVE  Finished(n)' \/ \E k \in ready' \cup unacked' : k.msg = n
    <3>1. n \in Msgs
      BY <2>2 DEF TypeInv
    <3> QED  BY <2>1, <2>2, <3>1, FinishedStays DEF KeptInv
  <2>4. ASSUME NEW e \in held', Live(e)', e.at = "settled"
        PROVE  Finished(e.copy.msg)' \/ HasHeir(e)'
    <3>1. e \in held /\ Live(e) /\ e.copy.msg \in Msgs
      BY <2>2, <2>4, HeldFields DEF Live
    <3> QED  BY <2>1, <2>2, <2>4, <3>1, FinishedStays DEF KeptInv, HasHeir
  <2> QED  BY <2>3, <2>4 DEF KeptInv
<1>5. CASE \/ Tick \/ QueueHandle \/ DeclareExchange \/ BindAndConsume \/ StartMain
           \/ (\E l \in Loops : Reopen(l)) \/ UNCHANGED <<vars, setup>>
  <2>1. UNCHANGED <<ready, unacked, held, epoch, pushed>>
    BY <1>5 DEF Tick, QueueHandle, DeclareExchange, BindAndConsume, StartMain, Reopen,
       vars, broker, channels, process, history
  <2> QED  BY <1>1, <1>2, <1>3, <2>1
<1>6. ASSUME NEW c \in ready, Unrouted(c)  PROVE FALSE
  BY <1>6 DEF Unrouted, BoundInv
<1>7. ASSUME NEW c \in ready, Deliver(c)  PROVE KeptInv'
  <2>1. PICK d : d.at = "buffered" /\ held' = held \cup {d}
    BY <1>7 DEF Deliver
  <2>2. Granted(d)
    BY <2>1 DEF Granted
  <2>3. ready' = ready \ {c} /\ unacked' = unacked \cup {c} /\ UNCHANGED <<epoch, pushed>>
    BY <1>7 DEF Deliver, channels, history
  <2> QED  BY <1>1, <1>2, <1>3, <2>1, <2>2, <2>3
<1>8. ASSUME NEW L \in SUBSET Loops, ChannelsLost(L, held)
      PROVE  held' \subseteq held /\ \A l \in Loops : epoch'[l] \in Nat /\ epoch'[l] >= epoch[l]
  <2>1. held \in SUBSET Delivery /\ Buffered(L) \subseteq held
    BY DEF TypeInv, Buffered
  <2>2. /\ held' \subseteq held
        /\ \A l \in L : epoch'[l] = epoch[l] + 1
        /\ \A l \in Loops \ L : epoch'[l] = epoch[l]
    BY <1>8, <2>1, LostChannels
  <2> QED  BY <2>2 DEF TypeInv
<1>9. ASSUME NEW L \in SUBSET Loops, Drop(L)  PROVE KeptInv'
  <2>1. ready \cup unacked \subseteq ready' \cup unacked' /\ UNCHANGED pushed /\ ChannelsLost(L, held)
    BY <1>9 DEF Drop, Requeued, history
  <2> QED  BY <1>1, <1>2, <1>8, <2>1
<1>10. CASE BrokerRestart
  <2>1. IsDurable /\ UNCHANGED pushed /\ ChannelsLost(Loops, held)
    BY <1>10 DEF BrokerRestart, Lossy, history
  <2>2. ready \cup unacked \subseteq ready'
    BY <1>10, <2>1 DEF BrokerRestart, Kept
  <2> QED  BY <1>1, <1>2, <1>8, <2>1, <2>2
<1>11. CASE ProcessEnds
  BY <1>2, <1>11, ProcessEnded DEF history
<1>12. ASSUME NEW d \in held, Receive(d) \/ Spawn(d) \/ Reply(d)  PROVE KeptInv'
  <2>1. PICK p \in Places : p # "settled" /\ held' = Moved(d, p)
    BY <1>12 DEF Receive, Spawn, Reply, Places, AtWork
  <2>2. UNCHANGED <<ready, unacked, epoch, pushed>>
    BY <1>12 DEF Receive, Spawn, Reply, broker, channels, history
  <2>3. Granted(MovedTo(d, p)) /\ Moved(d, p) = (held \ {d}) \cup {MovedTo(d, p)}
    BY <2>1, MovedDelivery DEF Granted
  <2> QED  BY <1>1, <1>2, <1>3, <2>1, <2>2, <2>3
<1>13. ASSUME NEW d \in held, SpawnUndecodable(d) \/ CountAcked(d)  PROVE KeptInv'
  <2>1. held' \subseteq held /\ UNCHANGED <<ready, unacked, epoch, pushed>>
    BY <1>13 DEF SpawnUndecodable, CountAcked, broker, channels, history
  <2> QED  BY <1>1, <1>2, <1>3, <2>1
<1>14. ASSUME NEW d \in held, AckFirst(d)  PROVE KeptInv'
  <2>1. IsAutoAck /\ d.at \in Answers
    BY <1>14 DEF AckFirst, Lossy, Faulty, Answers
  <2>2. d.copy.msg \in Msgs /\ Finished(d.copy.msg)
    BY <2>1, HeldFields DEF AnswerInv, Done, Finished
  <2>3. /\ ready' = ready /\ unacked \ {d.copy} \subseteq unacked'
        /\ held' = Moved(d, "acked") /\ "acked" \in Places /\ UNCHANGED <<epoch, pushed>>
    BY <1>14 DEF AckFirst, Acknowledged, Places, AtWork, channels, history
  <2>4. \A c \in ready \cup unacked : c \in ready' \cup unacked' \/ Finished(c.msg)'
    BY <2>2, <2>3, FinishedStays
  <2>5. \A e \in held' : e.at # "settled"
    BY <2>1, <2>3, MovedDelivery DEF AnswerInv, Done
  <2> QED  BY <2>3, <2>4, <2>5, KeptOn
<1>15. ASSUME NEW d \in held, CountSuccess(d) \/ CountFailure(d)  PROVE KeptInv'
  <2>1. /\ held' = Moved(d, "settled") /\ "settled" \in Places
        /\ UNCHANGED <<ready, unacked, epoch, pushed>> /\ ~IsAutoAck
    BY <1>15 DEF CountSuccess, CountFailure, Places, AtWork, broker, channels, history
  <2>2. /\ d.copy.msg \in Msgs /\ success[d.copy.msg] \in Nat /\ failure[d.copy.msg] \in Nat
    BY HeldFields DEF TypeInv
  <2>3. \/ success'[d.copy.msg] = success[d.copy.msg] + 1 /\ failure' = failure
        \/ failure'[d.copy.msg] = failure[d.copy.msg] + 1 /\ success' = success
    BY <1>15, <2>2 DEF CountSuccess, CountFailure, Counted, Lossy, Faulty, TypeInv
  <2>4. Finished(d.copy.msg)'
    BY <2>1, <2>2, <2>3, SetupKept DEF Finished, Outcomes, IsAutoAck
  <2>5. Granted(MovedTo(d, "settled"))
    BY <2>1, <2>4, MovedDelivery DEF Granted
  <2>6. Moved(d, "settled") = (held \ {d}) \cup {MovedTo(d, "settled")}
    BY <2>1, MovedDelivery
  <2> QED  BY <1>1, <1>2, <1>3, <2>1, <2>5, <2>6
<1>16. ASSUME NEW d \in held, Publish(d)  PROVE KeptInv'
  <2>1. /\ DelayFor(d.copy) > 0
        /\ held' = Moved(d, "settled") /\ "settled" \in Places
        /\ ready' = IF open[d.copy.loop] THEN ready \cup {Child(d)} ELSE ready
        /\ UNCHANGED <<unacked, epoch, pushed>>
    BY <1>16 DEF Publish, Retries, Places, AtWork, channels, history
  <2>2. /\ MovedTo(d, "settled").copy = d.copy /\ MovedTo(d, "settled").epoch = d.epoch
        /\ Moved(d, "settled") = (held \ {d}) \cup {MovedTo(d, "settled")}
    BY <2>1, MovedDelivery
  <2>3. Live(d) => open[d.copy.loop]
    BY DEF StartInv
  <2>4. Descends(Child(d), d.copy, d.epoch)
    <3>1. /\ Child(d).msg = d.copy.msg /\ Child(d).path = Append(d.copy.path, d.epoch)
          /\ d.copy.path \in Seq(Nat) /\ d.epoch \in Nat
      BY <2>1, HeldFields, ChildFields
    <3>2. Extends(Child(d).path, d.copy.path, d.epoch)
      BY <3>1, ExtendsAppend
    <3> QED  BY <3>1, <3>2 DEF Descends
  <2>5. Granted(MovedTo(d, "settled"))
    BY <2>1, <2>2, <2>3, <2>4 DEF Granted, HasHeir, Live, Descends
  <2> QED  BY <1>1, <1>2, <1>3, <2>1, <2>2, <2>5
<1>17. ASSUME NEW d \in held, PublishNowhere(d)  PROVE FALSE
  <2>1. bindings = "none" /\ DelayFor(d.copy) > 0
    BY <1>17 DEF PublishNowhere, Retries
  <2> QED  BY <2>1, HeldFields, DelayForType, RetryBound
<1> QED
  BY <1>4, <1>5, <1>6, <1>7, <1>9, <1>10, <1>11, <1>12, <1>13, <1>14, <1>15, <1>16, <1>17,
     KeptAck
  DEF Step, Next, Dispatching, Stop, ReplyNull

(* At least once: the broker has a copy of every message until it was      *)
(* counted (with IsAutoAck: answered), whatever channels, broker and       *)
(* process do between two statements, unless one of the faults occurs that *)
(* Lossy names.                                                            *)
THEOREM NothingForgottenHolds == Spec => []NothingForgotten
<1>1. KeptInv => NothingForgotten
  BY DEF KeptInv, NothingForgotten
<1> QED  BY <1>1, BaseInvInit, BaseInvNext, AnswerInvInit, AnswerInvNext, StartInvInit,
            StartInvNext, BoundInvInit, BoundInvNext, KeptInvInit, KeptInvNext, PTL
         DEF Spec, Step, BaseInv
-----------------------------------------------------------------------------
(***************************************************************************)
(* Once.  While nothing is interrupted one copy of a message bears it: the *)
(* copy whose delivery has not yet counted the message or published its    *)
(* retry.  It is the last one, and its message is not counted.             *)
(***************************************************************************)
Quiet == drops + stops = 0

Bears(c) == c \in Copies /\ \A d \in held : d.copy = c => d.at # "settled"

AfterPost == Answers \cup {"acked"}

OnceInv ==
  Quiet =>
    /\ \A l \in Loops : epoch[l] = 0
    /\ \A c, k \in Copies : Bears(c) /\ Bears(k) /\ c.msg = k.msg => c = k
    /\ \A m \in Msgs : Outcomes(m) <= 1
    /\ \A m \in Msgs \ pushed : Outcomes(m) = 0 /\ tried[m] = {}
    /\ \A c \in Copies : Bears(c) =>
         /\ Outcomes(c.msg) = 0
         /\ \A t \in tried[c.msg] : t <= c.cur
         /\ c.cur \in tried[c.msg] => \E d \in held : d.copy = c /\ d.at \in AfterPost

(* The invariant holds at first.                                           *)
LEMMA OnceInvInit == Init => OnceInv
BY DEF Init, OnceInv, Copies, Outcomes

(* No channel was lost in this step, nor did the process end.              *)
LEMMA QuietStep ==
  ASSUME TypeInv, Step, Quiet'
  PROVE  /\ Quiet /\ UNCHANGED epoch
         /\ ~BrokerRestart /\ ~ProcessEnds
         /\ \A L \in SUBSET Loops : ~Drop(L)
         /\ \A d \in held : ~PublishNowhere(d)
<1>1. drops' = 0 /\ stops' = 0 /\ drops \in Nat /\ stops \in Nat
  BY TypeInvNext DEF TypeInv, Quiet
<1>2. ASSUME NEW L \in SUBSET Loops, NEW S \in SUBSET Delivery, Buffered(L) \subseteq S
      PROVE  ~ChannelsLost(L, S)
  BY <1>1, <1>2, LostChannels
<1>3. ~BrokerRestart /\ \A L \in SUBSET Loops : ~Drop(L)
  <2>1. ASSUME NEW L \in SUBSET Loops  PROVE ~ChannelsLost(L, held)
    <3>1. held \in SUBSET Delivery /\ Buffered(L) \subseteq held
      BY DEF TypeInv, Buffered
    <3> QED  BY <1>2, <3>1
  <2>2. Loops \in SUBSET Loops
    OBVIOUS
  <2> QED  BY <2>1, <2>2 DEF Drop, BrokerRestart
<1>4. ASSUME NEW d \in held  PROVE ~PublishNowhere(d)
  <2>1. CASE d.at # "failed"
    BY <2>1 DEF PublishNowhere, Retries
  <2>2. CASE d.at = "failed"
    <3>1. {d.copy.loop} \in SUBSET Loops /\ "settled" \in Places
      BY HeldFields DEF Places, AtWork
    <3>2. /\ Moved(d, "settled") \in SUBSET Delivery
          /\ Buffered({d.copy.loop}) \subseteq Moved(d, "settled")
      BY <2>2, <3>1, MovedDelivery DEF TypeInv, Buffered
    <3> QED  BY <1>2, <3>1, <3>2 DEF PublishNowhere
  <2> QED  BY <2>1, <2>2
<1>5. ~ProcessEnds
  BY <1>1, ProcessEnded
<1>6. UNCHANGED <<drops, stops, epoch>>
  BY <1>3, <1>4, <1>5
  DEF Step, Next, Dispatching, Push, PushForeign, Tick, Unrouted, Deliver, Reopen,
     Stop, QueueHandle, DeclareExchange, BindAndConsume,
     StartMain, Receive, Spawn, SpawnUndecodable, Reply, ReplyNull, AckFirst, CountAcked,
     CountSuccess, CountFailure, Publish, Ack, vars, channels
<1> QED  BY <1>1, <1>3, <1>4, <1>5, <1>6 DEF Quiet

(* While nothing was interrupted, a copy has one delivery, on the channel  *)
(* that is open.                                                           *)
LEMMA OneDelivery ==
  ASSUME BaseInv, OnceInv, Quiet, NEW d \in held
  PROVE  /\ Live(d)
         /\ \A e \in held : e.copy = d.copy => e = d
         /\ d.at # "settled" <=> Bears(d.copy)
<1>1. \A e \in held : /\ e.epoch \in Nat /\ e.copy.loop \in Loops /\ e.epoch <= epoch[e.copy.loop]
                       /\ e.copy \in Copies
  BY HeldFields DEF BaseInv, LineageInv
<1>2. \A l \in Loops : epoch[l] = 0
  BY DEF OnceInv
<1>3. \A e \in held : e.epoch = 0
  BY <1>1, <1>2
<1>4. \A e \in held : e.copy = d.copy => e = d
  BY <1>3 DEF BaseInv, LineageInv
<1> QED  BY <1>1, <1>2, <1>3, <1>4 DEF Live, Bears

(* Nobody new bears a message, and nothing is counted or answered.         *)
LEMMA OnceKept ==
  ASSUME OnceInv, Quiet, UNCHANGED <<epoch, counters, tried, pushed>>,
         Copies' \subseteq Copies,
         \A c \in Copies' : Bears(c)' => Bears(c),
         \A d \in held : d.at \in AfterPost /\ Bears(d.copy)' =>
           \E e \in held' : e.copy = d.copy /\ e.at \in AfterPost
  PROVE  OnceInv'
<1>1. \A m \in Msgs : Outcomes(m)' = Outcomes(m)
  BY DEF Outcomes, counters
<1>2. ASSUME NEW c \in Copies', Bears(c)'
      PROVE  /\ Outcomes(c.msg)' = 0
             /\ \A t \in tried'[c.msg] : t <= c.cur
             /\ c.cur \in tried'[c.msg] => \E d \in held' : d.copy = c /\ d.at \in AfterPost
  BY <1>2 DEF OnceInv, Outcomes, counters
<1> QED  BY <1>1, <1>2 DEF OnceInv

(* The copy of d no longer bears its message, which may have been counted. *)
LEMMA OnceCounted ==
  ASSUME TypeInv, LineageInv, OnceInv, Quiet, NEW d \in held, Bears(d.copy),
         UNCHANGED <<epoch, tried, pushed>>,
         \A m \in Msgs : \/ Outcomes(m)' = Outcomes(m)
                         \/ m = d.copy.msg /\ Outcomes(m)' = Outcomes(m) + 1,
         Copies' \subseteq Copies,
         \A c \in Copies' : Bears(c)' => Bears(c) /\ c # d.copy,
         \A e \in held : e # d => e \in held'
  PROVE  OnceInv'
<1>1. d.copy \in Copies /\ d.copy.msg \in Msgs /\ d.copy.msg \in pushed
  BY HeldFields DEF LineageInv
<1>2. \A m \in Msgs : Outcomes(m) \in Nat
  BY DEF TypeInv, Outcomes
<1>3. Outcomes(d.copy.msg) = 0
  BY <1>1 DEF OnceInv
<1>4. \A m \in Msgs : Outcomes(m)' <= 1
  BY <1>2, <1>3 DEF OnceInv
<1>5. \A m \in Msgs \ pushed' : Outcomes(m)' = 0 /\ tried'[m] = {}
  BY <1>1 DEF OnceInv
<1>6. ASSUME NEW c \in Copies', Bears(c)'
      PROVE  /\ Outcomes(c.msg)' = 0
             /\ \A t \in tried'[c.msg] : t <= c.cur
             /\ c.cur \in tried'[c.msg] => \E e \in held' : e.copy = c /\ e.at \in AfterPost
  <2>1. c \in Copies /\ Bears(c) /\ c # d.copy /\ c.msg \in Msgs
    BY <1>6, CopyFields
  <2>2. c.msg # d.copy.msg
    BY <1>1, <2>1 DEF OnceInv
  <2>3. Outcomes(c.msg)' = 0
    BY <2>1, <2>2 DEF OnceInv
  <2> QED  BY <2>1, <2>3 DEF OnceInv
<1> QED  BY <1>4, <1>5, <1>6 DEF OnceInv

(* Every step keeps it.                                                    *)
LEMMA OnceInvNext == BaseInv /\ AnswerInv /\ OnceInv /\ Step => OnceInv'
<1> SUFFICES ASSUME BaseInv, AnswerInv, OnceInv, Step, Quiet'  PROVE OnceInv'
  BY DEF OnceInv
<1>1. /\ Quiet /\ UNCHANGED epoch /\ TypeInv /\ LineageInv
      /\ ~BrokerRestart /\ ~ProcessEnds
      /\ \A L \in SUBSET Loops : ~Drop(L)
      /\ \A d \in held : ~PublishNowhere(d)
  BY QuietStep DEF BaseInv
<1>2. ASSUME NEW m \in Msgs, Push(m) \/ PushForeign(m)  PROVE OnceInv'
  <2>1. PICK c \in Served : c.msg = m /\ ready' = ready \cup {c}
    BY <1>1, <1>2, PushedCopy
  <2>2. /\ m \notin pushed /\ pushed' = pushed \cup {m}
        /\ UNCHANGED <<unacked, held, counters, tried>>
    BY <1>2 DEF Push, PushForeign, process
  <2>3. Copies' = Copies \cup {c} /\ \A k \in Copies : k.msg # m
    BY <1>1, <2>1, <2>2 DEF Copies, LineageInv
  <2>4. \A k \in Copies : Bears(k)' <=> Bears(k)
    BY <2>2, <2>3 DEF Bears
  <2>5. Outcomes(m) = 0 /\ tried[m] = {} /\ \A n \in Msgs : Outcomes(n)' = Outcomes(n)
    BY <1>1, <2>2 DEF OnceInv, Outcomes, counters
  <2>6. ASSUME NEW k \in Copies', Bears(k)'
        PROVE  /\ Outcomes(k.msg)' = 0
               /\ \A t \in tried'[k.msg] : t <= k.cur
               /\ k.cur \in tried'[k.msg] => \E d \in held' : d.copy = k /\ d.at \in AfterPost
    <3>1. CASE k = c
      BY <2>1, <2>2, <2>5, <3>1
    <3>2. CASE k \in Copies
      BY <1>1, <2>2, <2>4, <2>5, <2>6, <3>2, CopyFields DEF OnceInv
    <3> QED  BY <2>3, <3>1, <3>2
  <2>7. \A k, j \in Copies' : Bears(k)' /\ Bears(j)' /\ k.msg = j.msg => k = j
    BY <1>1, <2>1, <2>3, <2>4 DEF OnceInv
  <2>8. \A n \in Msgs : Outcomes(n)' <= 1 /\ (n \notin pushed' => Outcomes(n)' = 0 /\ tried'[n] = {})
    BY <1>1, <2>2, <2>5 DEF OnceInv
  <2> QED  BY <1>1, <2>6, <2>7, <2>8 DEF OnceInv
<1>3. ASSUME UNCHANGED <<counters, tried, pushed, held>>,
             ready' \cup unacked' \subseteq ready \cup unacked
      PROVE  OnceInv'
  <2>1. Copies' \subseteq Copies
    BY <1>3 DEF Copies
  <2>2. \A c \in Copies' : Bears(c)' => Bears(c)
    BY <1>3, <2>1 DEF Bears
  <2> QED  BY <1>1, <1>3, <2>1, <2>2, OnceKept
<1>4. CASE \/ Tick \/ QueueHandle \/ DeclareExchange \/ BindAndConsume \/ StartMain
           \/ (\E l \in Loops : Reopen(l)) \/ UNCHANGED <<vars, setup>>
           \/ (\E c \in ready : Unrouted(c))
  BY <1>3, <1>4 DEF Tick, QueueHandle, DeclareExchange, BindAndConsume, StartMain, Reopen,
     Unrouted, vars, broker, process, history
<1>5. ASSUME NEW c \in ready, Deliver(c)  PROVE OnceInv'
  <2>1. PICK d : d.copy = c /\ d.at = "buffered" /\ held' = held \cup {d}
    BY <1>5 DEF Deliver
  <2>2. /\ ready' \cup unacked' \subseteq ready \cup unacked
        /\ UNCHANGED <<counters, tried, pushed>>
    BY <1>5 DEF Deliver, history
  <2>3. Copies' \subseteq Copies
    BY <2>1, <2>2 DEF Copies
  <2>4. \A k \in Copies' : Bears(k)' => Bears(k)
    BY <2>1, <2>3 DEF Bears
  <2> QED  BY <1>1, <2>1, <2>2, <2>3, <2>4, OnceKept
<1>6. ASSUME NEW d \in held, NEW p \in Places, d.at # "settled", held' = Moved(d, p),
             d.at \in AfterPost => p \in AfterPost \cup {"settled"},
             ready' \cup unacked' \subseteq ready \cup unacked,
             UNCHANGED <<counters, tried, pushed>>
      PROVE  OnceInv'
  <2> DEFINE e == MovedTo(d, p)
  <2>1. held' = (held \ {d}) \cup {e} /\ e.copy = d.copy /\ e.at = p
    BY <1>1, <1>6, MovedDelivery
  <2> HIDE DEF e
  <2>2. Copies' \subseteq Copies
    BY <1>6, <2>1 DEF Copies
  <2>3. \A c \in Copies' : Bears(c)' => Bears(c)
    BY <1>6, <2>1, <2>2 DEF Bears
  <2>4. Bears(d.copy)' => p # "settled"
    BY <2>1 DEF Bears
  <2> QED  BY <1>1, <1>6, <2>1, <2>2, <2>3, <2>4, OnceKept
<1>7. ASSUME NEW d \in held, Receive(d) \/ Spawn(d) \/ AckFirst(d)  PROVE OnceInv'
  <2>1. \E p \in Places : /\ d.at # "settled" /\ held' = Moved(d, p)
                          /\ d.at \in AfterPost => p \in AfterPost \cup {"settled"}
    BY <1>7 DEF Receive, Spawn, AckFirst, Places, AtWork, AfterPost, Answers
  <2>2. /\ ready' \cup unacked' \subseteq ready \cup unacked
        /\ UNCHANGED <<counters, tried, pushed>>
    BY <1>7 DEF Receive, Spawn, AckFirst, Acknowledged, broker, history
  <2> QED  BY <1>6, <2>1, <2>2
<1>8. ASSUME NEW d \in held, Publish(d), ~open[d.copy.loop]  PROVE OnceInv'
  BY <1>6, <1>8 DEF Publish, Retries, Places, AtWork, AfterPost, history
<1>9. ASSUME NEW d \in held, SpawnUndecodable(d)  PROVE OnceInv'
  <2>1. /\ d.at = "received" /\ held' = held \ {d}
        /\ UNCHANGED <<ready, unacked, counters, tried, pushed>>
    BY <1>9 DEF SpawnUndecodable, broker, history
  <2>2. Copies' \subseteq Copies
    BY <2>1 DEF Copies
  <2>3. \A c \in Copies' : Bears(c)' => Bears(c)
    BY <2>1, <2>2 DEF Bears
  <2>4. \A e \in held : e.at \in AfterPost => e \in held'
    BY <2>1 DEF AfterPost, Answers
  <2> QED  BY <1>1, <2>1, <2>2, <2>3, <2>4, OnceKept
<1>10. ASSUME NEW d \in held, Ack(d)  PROVE OnceInv'
  <2>1. /\ d.at = "settled" /\ held' = held \ {d} /\ unacked' = Acknowledged(d)
        /\ UNCHANGED <<ready, counters, tried, pushed>>
    BY <1>10 DEF Ack, history
  <2>2. Live(d) /\ d.copy \notin ready /\ \A e \in held : e.copy = d.copy => e = d
    BY <1>1, OneDelivery DEF BaseInv, CustodyInv, Custody
  <2>3. Copies' \subseteq Copies \ {d.copy}
    BY <2>1, <2>2 DEF Copies, Acknowledged
  <2>4. \A c \in Copies' : Bears(c)' => Bears(c)
    BY <2>1, <2>3 DEF Bears
  <2>5. \A e \in held : e.at \in AfterPost => e \in held'
    BY <2>1 DEF AfterPost, Answers
  <2> QED  BY <1>1, <2>1, <2>3, <2>4, <2>5, OnceKept
<1>11. ASSUME NEW d \in held, Reply(d)  PROVE OnceInv'
  <2>1. PICK p \in Answers : /\ held' = (held \ {d}) \cup {MovedTo(d, p)}
                             /\ MovedTo(d, p).copy = d.copy /\ MovedTo(d, p).at = p
    BY <1>1, <1>11, Replied
  <2>2. /\ d.at = "post" /\ tried'[d.copy.msg] = tried[d.copy.msg] \cup {d.copy.cur}
        /\ \A m \in Msgs : m # d.copy.msg => tried'[m] = tried[m]
        /\ Copies' = Copies /\ UNCHANGED <<counters, pushed>>
    BY <1>1, <1>11, Replied
  <2>3. /\ Bears(d.copy) /\ d.copy \in Copies /\ d.copy.msg \in pushed
        /\ d.copy.msg \in Msgs /\ d.copy.cur \in Int
    BY <1>1, <2>2, OneDelivery, HeldFields DEF LineageInv
  <2>4. \A c \in Copies : Bears(c)' => Bears(c)
    BY <2>1, <2>2 DEF Bears
  <2>5. \A m \in Msgs : Outcomes(m)' = Outcomes(m)
    BY <2>2 DEF Outcomes, counters
  <2>6. ASSUME NEW c \in Copies', Bears(c)'
        PROVE  /\ Outcomes(c.msg)' = 0
               /\ \A t \in tried'[c.msg] : t <= c.cur
               /\ c.cur \in tried'[c.msg] => \E e \in held' : e.copy = c /\ e.at \in AfterPost
    <3>1. c \in Copies /\ Bears(c) /\ c.msg \in Msgs /\ c.cur \in Int
      BY <1>1, <2>2, <2>4, <2>6, CopyFields
    <3>2. CASE c.msg = d.copy.msg
      <4>1. c = d.copy
        BY <1>1, <2>3, <3>1, <3>2 DEF OnceInv
      <4> QED  BY <1>1, <2>1, <2>2, <2>3, <2>5, <3>1, <4>1 DEF OnceInv, AfterPost
    <3>3. CASE c.msg # d.copy.msg
      <4>1. \A e \in held : e.at \in AfterPost => e \in held'
        BY <2>1, <2>2 DEF AfterPost, Answers
      <4> QED  BY <1>1, <2>2, <2>5, <3>1, <3>3, <4>1 DEF OnceInv
    <3> QED  BY <3>2, <3>3
  <2>7. \A k, j \in Copies' : Bears(k)' /\ Bears(j)' /\ k.msg = j.msg => k = j
    BY <1>1, <2>2, <2>4 DEF OnceInv
  <2>8. \A n \in Msgs : Outcomes(n)' <= 1 /\ (n \notin pushed' => Outcomes(n)' = 0 /\ tried'[n] = {})
    BY <1>1, <2>2, <2>3, <2>5 DEF OnceInv
  <2> QED  BY <1>1, <2>6, <2>7, <2>8 DEF OnceInv
<1>12. ASSUME NEW d \in held, CountAcked(d) \/ CountSuccess(d) \/ CountFailure(d)
       PROVE  \A m \in Msgs : \/ Outcomes(m)' = Outcomes(m)
                              \/ m = d.copy.msg /\ Outcomes(m)' = Outcomes(m) + 1
  <2>1. \/ success' = Counted(success, d.copy.msg) /\ UNCHANGED failure
        \/ failure' = Counted(failure, d.copy.msg) /\ UNCHANGED success
        \/ UNCHANGED <<success, failure>>
    BY <1>12 DEF CountAcked, CountSuccess, CountFailure, counters
  <2>2. d.copy.msg \in Msgs
    BY <1>1, HeldFields
  <2> QED  BY <1>1, <2>1, <2>2 DEF Counted, Outcomes, TypeInv
<1>13. ASSUME NEW d \in held, CountAcked(d)  PROVE OnceInv'
  <2>1. /\ d.at = "acked" /\ held' = held \ {d}
        /\ UNCHANGED <<ready, unacked, tried, pushed>>
    BY <1>13 DEF CountAcked, broker, history
  <2>2. /\ Bears(d.copy) /\ d.copy \notin ready \cup unacked
        /\ \A e \in held : e.copy = d.copy => e = d
    BY <1>1, <2>1, OneDelivery DEF BaseInv, CustodyInv, Custody
  <2>3. Copies' \subseteq Copies \ {d.copy}
    BY <2>1, <2>2 DEF Copies
  <2>4. \A c \in Copies' : Bears(c)' => Bears(c)
    BY <2>1, <2>3 DEF Bears
  <2> QED  BY <1>1, <1>12, <1>13, <2>1, <2>2, <2>3, <2>4, OnceCounted
<1>14. ASSUME NEW d \in held, CountSuccess(d) \/ CountFailure(d)  PROVE OnceInv'
  <2> DEFINE e == MovedTo(d, "settled")
  <2>1. /\ d.at \in Answers /\ "settled" \in Places /\ held' = Moved(d, "settled")
        /\ UNCHANGED <<ready, unacked, tried, pushed>>
    BY <1>14 DEF CountSuccess, CountFailure, Places, AtWork, Answers, broker, history
  <2>2. held' = (held \ {d}) \cup {e} /\ e.copy = d.copy /\ e.at = "settled"
    BY <1>1, <2>1, MovedDelivery
  <2> HIDE DEF e
  <2>3. Copies' \subseteq Copies
    BY <2>1, <2>2 DEF Copies
  <2>4. Bears(d.copy)
    BY <1>1, <2>1, OneDelivery DEF Answers
  <2>5. \A c \in Copies' : Bears(c)' => Bears(c) /\ c # d.copy
    BY <2>1, <2>2, <2>3 DEF Bears, Answers
  <2> QED  BY <1>1, <1>12, <1>14, <2>1, <2>2, <2>3, <2>4, <2>5, OnceCounted
<1>15. ASSUME NEW d \in held, Publishes(d)  PROVE OnceInv'
  <2> DEFINE e == MovedTo(d, "settled")
             h == Child(d)
  <2>1. /\ Retries(d) /\ d.at = "failed" /\ DelayFor(d.copy) > 0 /\ "settled" \in Places
        /\ held' = Moved(d, "settled") /\ ready' = ready \cup {h}
        /\ UNCHANGED <<unacked, counters, tried, pushed>>
    BY <1>15 DEF Publishes, Publish, Retries, Places, AtWork, history
  <2>2. held' = (held \ {d}) \cup {e} /\ e.copy = d.copy /\ e.at = "settled"
    BY <1>1, <2>1, MovedDelivery
  <2>3. h.msg = d.copy.msg /\ h.cur \in Int /\ h.cur > d.copy.cur
    BY <1>1, <2>1, ChildFields
  <2> HIDE DEF e, h
  <2>4. \A k \in Copies' : k \in Copies \/ k = h
    BY <2>1, <2>2 DEF Copies
  <2>5. /\ Bears(d.copy) /\ d.copy \in Copies /\ d.copy.msg \in Msgs /\ d.copy.msg \in pushed
        /\ d.copy.cur \in Int
    BY <1>1, <2>1, OneDelivery, HeldFields DEF LineageInv
  <2>6. /\ Outcomes(h.msg) = 0
        /\ \A t \in tried[h.msg] : t <= d.copy.cur /\ t \in Int
    BY <1>1, <2>3, <2>5 DEF OnceInv, TypeInv
  <2>7. ASSUME NEW k \in Copies', Bears(k)', k # h
        PROVE  k \in Copies /\ Bears(k) /\ k # d.copy /\ k.msg \in Msgs /\ k.msg # h.msg
    <3>1. k \in Copies /\ Bears(k) /\ k # d.copy
      BY <2>1, <2>2, <2>4, <2>7 DEF Bears
    <3> QED  BY <1>1, <2>3, <2>5, <3>1, CopyFields DEF OnceInv
  <2>8. \A m \in Msgs : Outcomes(m)' = Outcomes(m)
    BY <2>1 DEF Outcomes, counters
  <2>9. ASSUME NEW k \in Copies', Bears(k)'
        PROVE  /\ Outcomes(k.msg)' = 0
               /\ \A t \in tried'[k.msg] : t <= k.cur
               /\ k.cur \in tried'[k.msg] => \E f \in held' : f.copy = k /\ f.at \in AfterPost
    <3>1. CASE k = h
      BY <2>1, <2>3, <2>5, <2>6, <2>8, <3>1
    <3>2. CASE k # h
      <4>1. \A f \in held : f.copy = k => f \in held'
        BY <2>2, <2>7, <2>9, <3>2
      <4> QED  BY <1>1, <2>1, <2>7, <2>8, <2>9, <3>2, <4>1 DEF OnceInv
    <3> QED  BY <3>1, <3>2
  <2>10. \A k, j \in Copies' : Bears(k)' /\ Bears(j)' /\ k.msg = j.msg => k = j
    BY <1>1, <2>7 DEF OnceInv
  <2>11. \A n \in Msgs : Outcomes(n)' <= 1 /\ (n \notin pushed' => Outcomes(n)' = 0 /\ tried'[n] = {})
    BY <1>1, <2>1, <2>8 DEF OnceInv
  <2> QED  BY <1>1, <2>9, <2>10, <2>11 DEF OnceInv
<1> QED
  BY <1>1, <1>2, <1>4, <1>5, <1>7, <1>8, <1>9, <1>10, <1>11, <1>13, <1>14, <1>15
  DEF Step, Next, Dispatching, Stop, ReplyNull, Publishes

(* While no channel and no process ended, a message has one copy, is       *)
(* posted once per delay and counted once.                                 *)
THEOREM OnceUninterruptedHolds == Spec => []OnceUninterrupted
<1>1. BaseInv /\ OnceInv => OnceUninterrupted
  <2> SUFFICES ASSUME BaseInv, OnceInv, Quiet
               PROVE  /\ \A c, k \in ready \cup unacked : c.msg = k.msg => c = k \/ \E e \in held :
                           e.at = "settled" /\ e.copy \in {c, k}
                      /\ \A d \in held : d.at = "post" => d.copy.cur \notin tried[d.copy.msg]
                      /\ \A m \in Msgs : Outcomes(m) <= 1
    BY DEF OnceUninterrupted, Quiet
  <2>1. ASSUME NEW c \in ready \cup unacked, NEW k \in ready \cup unacked, c.msg = k.msg
        PROVE  c = k \/ \E e \in held : e.at = "settled" /\ e.copy \in {c, k}
    BY <2>1 DEF OnceInv, Bears, Copies
  <2>2. ASSUME NEW d \in held, d.at = "post"  PROVE d.copy.cur \notin tried[d.copy.msg]
    <3>1. Bears(d.copy) /\ d.copy \in Copies /\ \A e \in held : e.copy = d.copy => e = d
      BY <2>2, OneDelivery DEF Copies
    <3> QED  BY <2>2, <3>1 DEF OnceInv, AfterPost, Answers
  <2> QED  BY <2>1, <2>2 DEF OnceInv
<1> QED  BY <1>1, BaseInvInit, BaseInvNext, AnswerInvInit, AnswerInvNext, OnceInvInit,
            OnceInvNext, PTL DEF Spec, Step, BaseInv
-----------------------------------------------------------------------------
(***************************************************************************)
(* Duplicates.  A dispatch that is counted has a trace: the epochs of the  *)
(* channels that made the deliveries it descends from, its own the last.   *)
(* No counted dispatch descends from another, so no trace goes on another. *)
(* Each interruption begins an epoch, so a trace tells, dispatch by        *)
(* dispatch, how many interruptions had happened: a list of numbers that   *)
(* never falls, and another one for every other trace.                     *)
(***************************************************************************)
Dispatches == Cardinality(AllTiers) + 1

Interruptions == drops + stops

Trace(d) == Append(d.copy.path, d.epoch)

(* Trace q is trace p, or goes on where it ends.                           *)
Under(q, p) == Len(p) <= Len(q) /\ \A i \in 1..Len(p) : q[i] = p[i]

(* Going on from a delivery is descending from it.                         *)
LEMMA UnderAppend ==
  ASSUME NEW p \in Seq(Nat), NEW n \in Nat
  PROVE  /\ Append(p, n) \in Seq(Nat) /\ Len(Append(p, n)) = Len(p) + 1
         /\ \A q \in Seq(Nat) :
              /\ Under(q, Append(p, n)) <=> Extends(q, p, n)
              /\ Under(Append(p, n), q) <=> Under(p, q) \/ q = Append(p, n)
              /\ Extends(q, p, n) => Under(q, p)
<1> DEFINE r == Append(p, n)
<1>1. /\ r \in Seq(Nat) /\ Len(r) = Len(p) + 1 /\ Len(p) \in Nat
      /\ \A i \in 1..Len(p) : r[i] = p[i]
      /\ r[Len(p) + 1] = n
  OBVIOUS
<1> HIDE DEF r
<1> SUFFICES ASSUME NEW q \in Seq(Nat)
             PROVE  /\ Under(q, r) <=> Extends(q, p, n)
                    /\ Under(r, q) <=> Under(p, q) \/ q = r
                    /\ Extends(q, p, n) => Under(q, p)
  BY <1>1 DEF r
<1>2. Len(q) \in Nat
  OBVIOUS
<1>3. Under(q, r) <=> Extends(q, p, n)
  <2>1. ASSUME Under(q, r)  PROVE Extends(q, p, n)
    <3>1. Len(p) + 1 <= Len(q) /\ \A i \in 1..(Len(p) + 1) : q[i] = r[i]
      BY <1>1, <2>1 DEF Under
    <3>2. Len(p) + 1 \in 1..(Len(p) + 1) /\ \A i \in 1..Len(p) : i \in 1..(Len(p) + 1)
      BY <1>1
    <3> QED  BY <1>1, <1>2, <3>1, <3>2 DEF Extends
  <2>2. ASSUME Extends(q, p, n)  PROVE Under(q, r)
    <3>1. \A i \in 1..(Len(p) + 1) : i \in 1..Len(p) \/ i = Len(p) + 1
      BY <1>1
    <3>2. \A i \in 1..Len(r) : q[i] = r[i]
      BY <1>1, <2>2, <3>1 DEF Extends
    <3>3. Len(r) <= Len(q)
      BY <1>1, <1>2, <2>2 DEF Extends
    <3> QED  BY <3>2, <3>3 DEF Under
  <2> QED  BY <2>1, <2>2
<1>4. Under(r, q) <=> Under(p, q) \/ q = r
  <2>1. ASSUME Under(r, q)  PROVE Under(p, q) \/ q = r
    <3>1. Len(q) <= Len(p) + 1 /\ \A i \in 1..Len(q) : r[i] = q[i]
      BY <1>1, <2>1 DEF Under
    <3>2. CASE Len(q) = Len(p) + 1
      BY <1>1, <3>1, <3>2
    <3>3. CASE Len(q) <= Len(p)
      BY <1>1, <1>2, <3>1, <3>3 DEF Under
    <3> QED  BY <1>1, <1>2, <3>1, <3>2, <3>3
  <2>2. ASSUME Under(p, q)  PROVE Under(r, q)
    BY <1>1, <1>2, <2>2 DEF Under
  <2>3. Under(r, r)
    BY <1>1 DEF Under
  <2> QED  BY <2>1, <2>2, <2>3
<1>5. Extends(q, p, n) => Under(q, p)
  BY <1>1, <1>2 DEF Extends, Under
<1> QED  BY <1>3, <1>4, <1>5
-----------------------------------------------------------------------------
(* Tiers of a copy's schedule that its message has been given.             *)
TiersGiven(c) == {t \in AllTiers : t <= c.cur}

(* A trace is no longer than the dispatches of the schedule, whatever the  *)
(* order of DelayOnFailure: its delays grow.                               *)
PathInv ==
  \A c \in Copies : Decodes(c) =>
    /\ c.loop = "main" <=> Len(c.path) = 0
    /\ c.cur \in {0} \cup AllTiers
    /\ Len(c.path) <= Cardinality(TiersGiven(c))

(* The tiers are finitely many integers.                                   *)
LEMMA TiersFinite ==
  /\ AllTiers \in SUBSET Int /\ IsFiniteSet(AllTiers)
  /\ Dispatches \in Nat /\ Dispatches > 0
  /\ \A c : /\ IsFiniteSet(TiersGiven(c))
            /\ Cardinality(TiersGiven(c)) \in Nat
            /\ Cardinality(TiersGiven(c)) <= Cardinality(AllTiers)
<1> DEFINE D == DelayOnFailure
           f == [i \in 1..Len(D) |-> D[i]]
<1>1. D \in Seq(Int) /\ Len(D) \in Nat /\ DOMAIN D = 1..Len(D)
  BY ConfigAssumption
<1>2. Tiers(D) \in SUBSET Int /\ f \in Surjection(1..Len(D), Tiers(D))
  BY <1>1 DEF Tiers, Surjection
<1>3. IsFiniteSet(1..Len(D))
  BY <1>1, FS_Interval
<1>4. IsFiniteSet(Tiers(D))
  BY <1>2, <1>3, FS_Surjection
<1>5. AllTiers \in SUBSET Int /\ IsFiniteSet(AllTiers)
  BY <1>2, <1>4, FS_EmptySet DEF AllTiers
<1>6. \A c : TiersGiven(c) \in SUBSET AllTiers
  BY DEF TiersGiven
<1> QED  BY <1>5, <1>6, FS_Subset, FS_CardinalityType DEF Dispatches

(* A retry's delay is one more tier.                                       *)
LEMMA ChildPath ==
  ASSUME TypeInv, PathInv, NEW d \in held, Retries(d), Decodes(d.copy)
  PROVE  /\ Child(d).loop = "retry" /\ Len(Child(d).path) # 0
         /\ Child(d).cur \in AllTiers
         /\ Len(Child(d).path) <= Cardinality(TiersGiven(Child(d)))
<1> DEFINE c == d.copy
           h == Child(d)
<1>1. /\ c \in Copies /\ c \in Served /\ c.cur \in Int /\ c.cur >= 0 /\ c.path \in Seq(Nat)
      /\ c.loop \in Loops /\ d.epoch \in Nat /\ DelayFor(c) > 0
  BY HeldFields DEF Retries
<1>2. /\ h.loop = "retry" /\ h.path = Append(c.path, d.epoch) /\ h.cur = DelayFor(c)
      /\ h.cur \in Int /\ h.cur > c.cur
  BY <1>1, ChildFields
<1>3. Len(h.path) = Len(c.path) + 1 /\ Len(c.path) \in Nat
  BY <1>1, <1>2
<1>4. /\ c.loop = "main" <=> Len(c.path) = 0
      /\ c.cur \in {0} \cup AllTiers
      /\ Len(c.path) <= Cardinality(TiersGiven(c))
  BY <1>1 DEF PathInv
<1>5. h.cur \in AllTiers
  <2>1. CASE c.loop = "main"
    <3>1. c.cur = 0 /\ RunMode("main") # "retry"
      BY <1>1, <2>1 DEF Served, RunMode
    <3>2. h.cur = FirstDelay(DelayOnFailure) /\ h.cur > 0
      BY <1>1, <1>2, <2>1, <3>1 DEF DelayFor, DelayAfter
    <3>3. DelayOnFailure \in Seq(Int) /\ DelayOnFailure # <<>>
      BY <3>2, ConfigAssumption DEF FirstDelay
    <3>4. 1 \in DOMAIN DelayOnFailure
      BY <3>3
    <3> QED  BY <3>2, <3>3, <3>4 DEF FirstDelay, AllTiers, Tiers
  <2>2. CASE c.loop = "retry"
    <3>1. AllTiers = Tiers(DelayOnFailure)
      BY <1>1, <1>4, <2>2 DEF Decodes, AllTiers
    <3>2. h.cur = NextDelay(DelayOnFailure, c.cur) /\ h.cur > 0
      BY <1>1, <1>2, <2>2 DEF DelayFor, DelayAfter, RunMode
    <3>3. \E i \in DOMAIN DelayOnFailure : BreaksAt(DelayOnFailure, c.cur, i)
      BY <3>2 DEF NextDelay
    <3> QED  BY <3>1, <3>2, <3>3 DEF NextDelay, Tiers
  <2> QED  BY <1>1, <2>1, <2>2 DEF Loops
<1>6. Cardinality(TiersGiven(c)) + 1 <= Cardinality(TiersGiven(h))
  <2>1. h.cur \in TiersGiven(h) /\ h.cur \notin TiersGiven(c)
    BY <1>1, <1>2, <1>5 DEF TiersGiven
  <2>2. TiersGiven(c) \in SUBSET TiersGiven(h)
    BY <1>1, <1>2, TiersFinite DEF TiersGiven
  <2>3. TiersGiven(c) \cup {h.cur} \in SUBSET TiersGiven(h)
    BY <2>1, <2>2
  <2> DEFINE A == TiersGiven(c)
  <2>4. IsFiniteSet(A) /\ IsFiniteSet(TiersGiven(h))
    BY TiersFinite
  <2>5. Cardinality(A \cup {h.cur}) = Cardinality(A) + 1
    BY <2>1, <2>4, FS_AddElement
  <2> QED  BY <2>3, <2>4, <2>5, FS_Subset
<1> QED  BY <1>2, <1>3, <1>4, <1>5, <1>6, TiersFinite

(* The invariant holds at first.                                           *)
LEMMA PathInvInit == Init => PathInv
BY DEF Init, PathInv, Copies

(* Every step keeps it.                                                    *)
LEMMA PathInvNext == TypeInv /\ AnswerInv /\ PathInv /\ Step => PathInv'
<1> SUFFICES ASSUME TypeInv, AnswerInv, PathInv, Step  PROVE PathInv'
  OBVIOUS
<1> DEFINE Good(c) == Decodes(c) => /\ c.loop = "main" <=> Len(c.path) = 0
                                    /\ c.cur \in {0} \cup AllTiers
                                    /\ Len(c.path) <= Cardinality(TiersGiven(c))
<1>1. ASSUME \A c \in Copies' : c \in Copies \/ Good(c)  PROVE PathInv'
  BY <1>1 DEF PathInv, Decodes, TiersGiven
<1> HIDE DEF Good
<1>2. ASSUME NEW m \in Msgs, Push(m) \/ PushForeign(m)  PROVE PathInv'
  <2>1. PICK c \in Served : c.path = <<>> /\ c.cur = 0 /\ ready' = ready \cup {c}
    BY <1>2, PushedCopy
  <2>2. UNCHANGED <<unacked, held>>
    BY <1>2 DEF Push, PushForeign, process
  <2>3. Copies' \subseteq Copies \cup {c}
    BY <2>1, <2>2 DEF Copies
  <2>4. Good(c)
    BY <2>1, TiersFinite DEF Good, Decodes, Served, Copy, Loops
  <2> QED  BY <1>1, <2>3, <2>4
<1>3. ASSUME NEW c \in ready, Deliver(c)  PROVE PathInv'
  <2>1. PICK d : d.copy = c /\ held' = held \cup {d}
    BY <1>3 DEF Deliver
  <2>2. ready' \subseteq ready /\ unacked' \subseteq unacked \cup {c}
    BY <1>3 DEF Deliver
  <2> QED  BY <1>1, <2>1, <2>2 DEF Copies
<1>4. ASSUME NEW d \in held, Publishes(d)  PROVE PathInv'
  <2>1. /\ Retries(d) /\ d.at = "failed" /\ "settled" \in Places
        /\ held' = Moved(d, "settled") /\ ready' = ready \cup {Child(d)} /\ unacked' = unacked
    BY <1>4 DEF Publishes, Publish, Retries, Places, AtWork
  <2>2. Copies' \subseteq Copies \cup {Child(d)}
    BY <2>1, MovedDelivery DEF Copies
  <2>3. Decodes(d.copy)
    BY <2>1 DEF AnswerInv, Done, AtWork
  <2>4. Good(Child(d))
    BY <2>1, <2>3, ChildPath DEF Good
  <2> QED  BY <1>1, <2>2, <2>4
<1>5. CASE OnlyMoves
  BY <1>1, <1>5, CopiesOnlyMove
<1> QED  BY <1>2, <1>3, <1>4, <1>5, StepKinds
-----------------------------------------------------------------------------
(***************************************************************************)
(* The time line.  B[l][e] is how many interruptions there had been when   *)
(* the loop l got its channel of epoch e.                                  *)
(***************************************************************************)
Begun == [Loops -> [Nat -> Nat]]

Timeline(B) ==
  /\ \A l \in Loops, e \in Nat : e <= epoch[l] => B[l][e] <= Interruptions
  /\ \A l \in Loops, e, f \in Nat : e < f /\ f <= epoch[l] => B[l][e] < B[l][f]

(* The main queue delivers first, then the retry queue, whose epochs never *)
(* fall; and the first retry is not over when the main delivery is made.   *)
Possible(s, B) ==
  /\ Len(s) >= 1 => s[1] <= epoch["main"]
  /\ \A i \in 2..Len(s) : s[i] <= epoch["retry"]
  /\ \A i, j \in 2..Len(s) : i <= j => s[i] <= s[j]
  /\ Len(s) >= 2 => s[2] = epoch["retry"] \/ B["main"][s[1]] < B["retry"][s[2] + 1]

(* Epochs end with interruptions only, and one interruption ends no more   *)
(* than one epoch of a loop.                                               *)
LEMMA EpochsMove ==
  ASSUME TypeInv, Step
  PROVE  \E L \in SUBSET Loops :
           /\ \A l \in L : epoch'[l] = epoch[l] + 1
           /\ \A l \in Loops \ L : epoch'[l] = epoch[l]
           /\ Interruptions' = IF L = {} THEN Interruptions ELSE Interruptions + 1
<1> DEFINE Goal == \E L \in SUBSET Loops :
                     /\ \A l \in L : epoch'[l] = epoch[l] + 1
                     /\ \A l \in Loops \ L : epoch'[l] = epoch[l]
                     /\ Interruptions' = IF L = {} THEN Interruptions ELSE Interruptions + 1
<1>1. ASSUME UNCHANGED <<epoch, drops, stops>>  PROVE Goal
  <2>1. {} \in SUBSET Loops
    OBVIOUS
  <2> QED  BY <1>1, <2>1 DEF Interruptions
<1>2. ASSUME \/ Tick \/ QueueHandle \/ DeclareExchange \/ BindAndConsume \/ StartMain
             \/ (\E l \in Loops : Reopen(l)) \/ UNCHANGED <<vars, setup>>
             \/ (\E c \in ready : Unrouted(c) \/ Deliver(c))
             \/ (\E m \in Msgs : Push(m) \/ PushForeign(m))
      PROVE  Goal
  BY <1>1, <1>2 DEF Tick, QueueHandle, DeclareExchange, BindAndConsume, StartMain, Reopen,
     Unrouted, Deliver, Push, PushForeign, vars, channels
<1>3. ASSUME NEW d \in held,
             \/ Receive(d) \/ Spawn(d) \/ SpawnUndecodable(d) \/ Reply(d) \/ AckFirst(d)
             \/ CountAcked(d) \/ CountSuccess(d) \/ CountFailure(d) \/ Publish(d) \/ Ack(d)
      PROVE  Goal
  BY <1>1, <1>3
  DEF Receive, Spawn, SpawnUndecodable, Reply, AckFirst, CountAcked, CountSuccess,
      CountFailure, Publish, Ack, channels
<1>4. ASSUME NEW L \in SUBSET Loops, L # {}, NEW S \in SUBSET Delivery,
             Buffered(L) \subseteq S, ChannelsLost(L, S), UNCHANGED stops
      PROVE  Goal
  <2>1. /\ \A l \in L : epoch'[l] = epoch[l] + 1
        /\ \A l \in Loops \ L : epoch'[l] = epoch[l]
    BY <1>4, LostChannels
  <2>2. Interruptions' = Interruptions + 1
    BY <1>4 DEF ChannelsLost, Interruptions, TypeInv
  <2> QED  BY <1>4, <2>1, <2>2
<1>5. held \in SUBSET Delivery /\ \A L : Buffered(L) \subseteq held
  BY DEF TypeInv, Buffered
<1>6. ASSUME NEW L \in (SUBSET Loops) \ {{}}, Drop(L)  PROVE Goal
  BY <1>4, <1>5, <1>6 DEF Drop
<1>7. ASSUME BrokerRestart  PROVE Goal
  <2>1. Loops \in SUBSET Loops /\ Loops # {}
    BY DEF Loops
  <2> QED  BY <1>4, <1>5, <1>7, <2>1 DEF BrokerRestart
<1>8. ASSUME NEW d \in held, PublishNowhere(d)  PROVE Goal
  <2> DEFINE L == {d.copy.loop}
             S == Moved(d, "settled")
  <2>1. L \in SUBSET Loops /\ L # {} /\ "settled" \in Places /\ d.at = "failed"
    BY <1>8, HeldFields DEF PublishNowhere, Retries, Places, AtWork
  <2>2. S \in SUBSET Delivery /\ Buffered(L) \subseteq S
    BY <2>1, MovedDelivery DEF TypeInv, Buffered
  <2>3. ChannelsLost(L, S) /\ UNCHANGED stops
    BY <1>8 DEF PublishNowhere
  <2> HIDE DEF L, S, Goal
  <2> QED  BY <1>4, <2>1, <2>2, <2>3
<1>9. ASSUME ProcessEnds  PROVE Goal
  <2>1. Loops \in SUBSET Loops /\ Loops # {} /\ Loops \ Loops = {}
    BY DEF Loops
  <2>2. \A l \in Loops : epoch'[l] = epoch[l] + 1
    BY <1>9, ProcessEnded
  <2>3. Interruptions' = Interruptions + 1
    BY <1>9 DEF ProcessEnds, Interruptions, TypeInv
  <2> QED  BY <2>1, <2>2, <2>3
<1> HIDE DEF Goal
<1>10. Goal
  BY <1>2, <1>3, <1>6, <1>7, <1>8, <1>9 DEF Step, Next, Dispatching, Stop, ReplyNull
<1> QED  BY <1>10 DEF Goal

(* The time line goes on, and nothing that was possible becomes            *)
(* impossible: a first retry that is over now has begun with an epoch that *)
(* ends now, after every delivery there was.                               *)
LEMMA TimelineNext ==
  ASSUME TypeInv, Step, NEW B \in Begun, Timeline(B)
  PROVE  \E C \in Begun :
           /\ Timeline(C)'
           /\ \A s \in Seq(Nat) : Possible(s, B) => Possible(s, C)'
<1>1. PICK L \in SUBSET Loops :
        /\ \A l \in L : epoch'[l] = epoch[l] + 1
        /\ \A l \in Loops \ L : epoch'[l] = epoch[l]
        /\ Interruptions' = IF L = {} THEN Interruptions ELSE Interruptions + 1
  BY EpochsMove
<1> DEFINE n == Interruptions
<1>2. n \in Nat /\ n' \in Nat /\ n <= n' /\ \A l \in Loops : epoch[l] \in Nat /\ epoch'[l] \in Nat
  BY <1>1 DEF TypeInv, Interruptions
<1>3. \A l \in Loops, e \in Nat : B[l][e] \in Nat
  BY DEF Begun
<1>4. PICK C \in Begun :
        \A l \in Loops, e \in Nat :
          C[l][e] = IF l \in L /\ e = epoch[l] + 1 THEN n + 1 ELSE B[l][e]
  <2> DEFINE D == [l \in Loops |-> [e \in Nat |-> IF l \in L /\ e = epoch[l] + 1 THEN n + 1
                                                                              ELSE B[l][e]]]
  <2>1. D \in Begun
    BY <1>2, <1>3 DEF Begun
  <2>2. \A l \in Loops, e \in Nat :
          D[l][e] = IF l \in L /\ e = epoch[l] + 1 THEN n + 1 ELSE B[l][e]
    OBVIOUS
  <2> HIDE DEF D
  <2> QED  BY <2>1, <2>2
<1>5. /\ \A l \in Loops, e \in Nat : e <= epoch[l] => C[l][e] = B[l][e]
      /\ \A l \in L : C[l][epoch[l] + 1] = n + 1
  BY <1>2, <1>4
<1>6. \A l \in Loops, e \in Nat : e <= epoch[l] => B[l][e] <= n /\ C[l][e] <= n
  BY <1>5 DEF Timeline
<1>7. \A l \in Loops, e \in Nat :
        e <= epoch'[l] => e <= epoch[l] \/ (l \in L /\ e = epoch[l] + 1)
  BY <1>1, <1>2
<1>8. Timeline(C)'
  <2>1. ASSUME NEW l \in Loops, NEW e \in Nat, e <= epoch'[l]  PROVE C[l][e] <= n'
    <3>1. CASE e <= epoch[l]
      BY <1>2, <1>3, <1>5, <1>6, <3>1
    <3>2. CASE l \in L /\ e = epoch[l] + 1
      BY <1>1, <1>2, <1>5, <3>2
    <3> QED  BY <1>7, <2>1, <3>1, <3>2
  <2>2. ASSUME NEW l \in Loops, NEW e \in Nat, NEW f \in Nat, e < f, f <= epoch'[l]
        PROVE  C[l][e] < C[l][f]
    <3>1. CASE f <= epoch[l]
      <4>1. B[l][e] < B[l][f] /\ e <= epoch[l]
        BY <1>2, <2>2, <3>1 DEF Timeline
      <4> QED  BY <1>5, <3>1, <4>1
    <3>2. CASE l \in L /\ f = epoch[l] + 1
      <4>1. e <= epoch[l]
        BY <1>2, <2>2, <3>2
      <4> QED  BY <1>2, <1>3, <1>5, <1>6, <3>2, <4>1
    <3> QED  BY <1>7, <2>2, <3>1, <3>2
  <2> QED  BY <2>1, <2>2 DEF Timeline
<1>9. ASSUME NEW s \in Seq(Nat), Possible(s, B)  PROVE Possible(s, C)'
  <2>1. "main" \in Loops /\ "retry" \in Loops
    BY DEF Loops
  <2>2. Len(s) \in Nat /\ \A i \in 1..Len(s) : s[i] \in Nat
    OBVIOUS
  <2>3. epoch["main"] <= epoch'["main"] /\ epoch["retry"] <= epoch'["retry"]
    BY <1>1, <1>2, <2>1
  <2>4. Len(s) >= 1 => s[1] <= epoch'["main"]
    BY <1>2, <1>9, <2>1, <2>2, <2>3 DEF Possible
  <2>5. \A i \in 2..Len(s) : s[i] <= epoch'["retry"]
    <3>1. \A i \in 2..Len(s) : s[i] \in Nat
      BY <2>2
    <3> QED  BY <1>2, <1>9, <2>1, <2>3, <3>1 DEF Possible
  <2>6. \A i, j \in 2..Len(s) : i <= j => s[i] <= s[j]
    BY <1>9 DEF Possible
  <2>7. ASSUME Len(s) >= 2
        PROVE  s[2] = epoch'["retry"] \/ C["main"][s[1]] < C["retry"][s[2] + 1]
    <3>1. s[1] \in Nat /\ s[2] \in Nat /\ s[1] <= epoch["main"] /\ s[2] <= epoch["retry"]
      BY <1>9, <2>2, <2>7 DEF Possible
    <3>2. C["main"][s[1]] = B["main"][s[1]] /\ B["main"][s[1]] <= n /\ B["main"][s[1]] \in Nat
      BY <1>3, <1>5, <1>6, <2>1, <3>1
    <3>3. CASE s[2] = epoch["retry"] /\ "retry" \notin L
      BY <1>1, <2>1, <3>3
    <3>4. CASE s[2] = epoch["retry"] /\ "retry" \in L
      BY <1>2, <1>5, <2>1, <3>2, <3>4
    <3>5. CASE s[2] # epoch["retry"]
      <4>1. B["main"][s[1]] < B["retry"][s[2] + 1] /\ s[2] + 1 <= epoch["retry"]
        BY <1>2, <1>9, <2>1, <2>7, <3>1, <3>5 DEF Possible
      <4> QED  BY <1>5, <2>1, <3>1, <3>2, <4>1
    <3> QED  BY <3>3, <3>4, <3>5
  <2> QED  BY <2>4, <2>5, <2>6, <2>7 DEF Possible
<1> QED  BY <1>4, <1>8, <1>9

(* A delivery on the channel of the present goes on with any trace.        *)
LEMMA DeliveredPossible ==
  ASSUME TypeInv, PathInv, NEW B, NEW c \in Copies, Decodes(c), Possible(c.path, B)
  PROVE  Possible(Append(c.path, epoch[c.loop]), B)
<1> DEFINE p == c.path
           k == epoch[c.loop]
           r == Append(p, k)
<1>1. /\ p \in Seq(Nat) /\ Len(p) \in Nat /\ c.loop \in {"main", "retry"} /\ k \in Nat
      /\ c.loop = "main" <=> Len(p) = 0
  BY CopyFields DEF PathInv, TypeInv, Loops
<1>2. /\ Len(r) = Len(p) + 1 /\ r[Len(p) + 1] = k
      /\ \A i \in 1..Len(p) : r[i] = p[i] /\ p[i] \in Nat
  BY <1>1
<1>3. /\ Len(p) >= 1 => p[1] <= epoch["main"]
      /\ \A i \in 2..Len(p) : p[i] <= epoch["retry"]
      /\ \A i, j \in 2..Len(p) : i <= j => p[i] <= p[j]
      /\ Len(p) >= 2 => p[2] = epoch["retry"] \/ B["main"][p[1]] < B["retry"][p[2] + 1]
  BY DEF Possible
<1>4. c.loop = "retry" => k = epoch["retry"]
  OBVIOUS
<1>5. c.loop = "main" => k = epoch["main"]
  OBVIOUS
<1> HIDE DEF p, k, r
<1>6. CASE Len(p) = 0
  BY <1>1, <1>2, <1>5, <1>6 DEF Possible, r, p, k
<1>7. CASE Len(p) >= 1
  <2>1. c.loop = "retry" /\ k = epoch["retry"]
    BY <1>1, <1>4, <1>7
  <2>2. r[1] <= epoch["main"]
    BY <1>1, <1>2, <1>3, <1>7
  <2>3. \A i \in 2..Len(r) : r[i] <= epoch["retry"] /\ (i = Len(p) + 1 \/ i \in 2..Len(p))
    BY <1>1, <1>2, <1>3, <2>1
  <2>4. ASSUME NEW i \in 2..Len(r), NEW j \in 2..Len(r), i <= j  PROVE r[i] <= r[j]
    <3>1. CASE j = Len(p) + 1
      BY <1>2, <2>1, <2>3, <3>1
    <3>2. CASE j \in 2..Len(p)
      <4>1. i \in 2..Len(p) /\ i \in 1..Len(p) /\ j \in 1..Len(p)
        BY <1>1, <2>4, <3>2
      <4> QED  BY <1>2, <1>3, <2>4, <3>2, <4>1
    <3> QED  BY <2>3, <3>1, <3>2
  <2>5. r[2] = epoch["retry"] \/ B["main"][r[1]] < B["retry"][r[2] + 1]
    <3>1. CASE Len(p) = 1
      BY <1>2, <2>1, <3>1
    <3>2. CASE Len(p) >= 2
      <4>1. 1 \in 1..Len(p) /\ 2 \in 1..Len(p)
        BY <1>1, <3>2
      <4> QED  BY <1>2, <1>3, <3>2, <4>1
    <3>3. \A n \in Nat : n >= 1 => n = 1 \/ n >= 2
      OBVIOUS
    <3> QED  BY <1>1, <1>7, <3>1, <3>2, <3>3
  <2> QED  BY <2>2, <2>3, <2>4, <2>5 DEF Possible, r, p, k
<1> QED  BY <1>1, <1>6, <1>7
-----------------------------------------------------------------------------
(***************************************************************************)
(* P are the traces of the dispatches of m that were counted: none goes on *)
(* another, no copy there is goes on one of them, and none goes on a       *)
(* delivery that is not settled.  A copy that the broker will deliver      *)
(* again has them under its lost deliveries only.                          *)
(***************************************************************************)
Separate(m, P) ==
  /\ P \in SUBSET Seq(Nat)
  /\ IsFiniteSet(P) /\ Cardinality(P) = Outcomes(m)
  /\ m \notin pushed => P = {}
  /\ \A p \in P : Len(p) \in 1..Dispatches
  /\ \A p, q \in P : Under(q, p) => p = q
  /\ \A c \in Copies, p \in P : c.msg = m => ~Under(c.path, p)
  /\ \A d \in held, p \in P : d.copy.msg = m /\ d.at \in Unsettled => ~Under(p, Trace(d))
  /\ \A c \in ready \cup unacked, p \in P, n \in Nat :
       c.msg = m /\ Extends(p, c.path, n) =>
         n <= epoch[c.loop] /\ (c \in ready => n < epoch[c.loop])

(* A dispatch of d is counted: d is then settled or gone.                  *)
Counting(d) ==
  /\ d.at \in {"ok", "failed", "acked"}
  /\ Outcomes(d.copy.msg)' = Outcomes(d.copy.msg) + 1
  /\ \A m \in Msgs : m # d.copy.msg => Outcomes(m)' = Outcomes(m)
  /\ \A e \in held' : e \in held \ {d} \/ (e.copy = d.copy /\ e.at = "settled")
  /\ UNCHANGED <<ready, unacked, epoch, pushed>>

(* Who counts.                                                             *)
LEMMA OutcomeSteps ==
  ASSUME TypeInv, Step
  PROVE  \/ \A m \in Msgs : Outcomes(m)' = Outcomes(m)
         \/ \E d \in held : Counting(d)
<1>1. ASSUME UNCHANGED <<success, failure>>
      PROVE  \A m \in Msgs : Outcomes(m)' = Outcomes(m)
  BY <1>1 DEF Outcomes
<1>2. ASSUME NEW d \in held,
             \/ success' = Counted(success, d.copy.msg) /\ UNCHANGED failure
             \/ failure' = Counted(failure, d.copy.msg) /\ UNCHANGED success
      PROVE  /\ Outcomes(d.copy.msg)' = Outcomes(d.copy.msg) + 1
             /\ \A m \in Msgs : m # d.copy.msg => Outcomes(m)' = Outcomes(m)
  <2>1. d.copy.msg \in Msgs /\ \A m \in Msgs : success[m] \in Nat /\ failure[m] \in Nat
    BY HeldFields DEF TypeInv
  <2>2. ASSUME NEW counter \in [Msgs -> Nat]
        PROVE  /\ Counted(counter, d.copy.msg)[d.copy.msg] = counter[d.copy.msg] + 1
               /\ \A m \in Msgs : m # d.copy.msg => Counted(counter, d.copy.msg)[m] = counter[m]
    BY <2>1 DEF Counted
  <2>3. success \in [Msgs -> Nat] /\ failure \in [Msgs -> Nat]
    BY DEF TypeInv
  <2> QED  BY <1>2, <2>1, <2>2, <2>3 DEF Outcomes
<1>3. ASSUME NEW d \in held, CountAcked(d)
      PROVE  UNCHANGED <<success, failure>> \/ Counting(d)
  <2>1. /\ d.at = "acked" /\ held' = held \ {d}
        /\ UNCHANGED <<ready, unacked, epoch, pushed>>
        /\ \/ success' = Counted(success, d.copy.msg) /\ UNCHANGED failure
           \/ failure' = Counted(failure, d.copy.msg) /\ UNCHANGED success
           \/ UNCHANGED <<success, failure>>
    BY <1>3 DEF CountAcked, broker, channels, history, counters
  <2> QED  BY <1>2, <2>1 DEF Counting
<1>4. ASSUME NEW d \in held, CountSuccess(d) \/ CountFailure(d)
      PROVE  UNCHANGED <<success, failure>> \/ Counting(d)
  <2>1. /\ d.at \in {"ok", "failed"} /\ held' = Moved(d, "settled") /\ "settled" \in Places
        /\ UNCHANGED <<ready, unacked, epoch, pushed>>
        /\ \/ success' = Counted(success, d.copy.msg) /\ UNCHANGED failure
           \/ failure' = Counted(failure, d.copy.msg) /\ UNCHANGED success
           \/ UNCHANGED <<success, failure>>
    BY <1>4 DEF CountSuccess, CountFailure, broker, channels, history, Places, AtWork
  <2>2. \A e \in held' : e \in held \ {d} \/ (e.copy = d.copy /\ e.at = "settled")
    BY <2>1, MovedDelivery
  <2> QED  BY <1>2, <2>1, <2>2 DEF Counting
<1>5. UNCHANGED <<success, failure>> \/ \E d \in held : Counting(d)
  BY <1>3, <1>4
  DEF Step, Next, Dispatching, Push, PushForeign, Tick, Unrouted, Deliver, Drop, Reopen,
     Stop, ProcessEnds, BrokerRestart, QueueHandle, DeclareExchange, BindAndConsume,
     StartMain, Receive, Spawn, SpawnUndecodable, Reply, ReplyNull, AckFirst,
     Publish, PublishNowhere, Ack, vars, counters
<1> QED  BY <1>1, <1>5

(* A sequence is its length and its elements.                              *)
LEMMA SameElements ==
  ASSUME NEW p \in Seq(Nat), NEW q \in Seq(Nat), Len(p) = Len(q),
         \A i \in 1..Len(p) : p[i] = q[i]
  PROVE  p = q
OBVIOUS

(* A trace is a sequence of epochs.                                        *)
LEMMA TraceType ==
  ASSUME TypeInv, NEW d \in held
  PROVE  /\ Trace(d) \in Seq(Nat) /\ d.copy.path \in Seq(Nat) /\ d.epoch \in Nat
         /\ Len(Trace(d)) = Len(d.copy.path) + 1
         /\ Trace(d)[Len(d.copy.path) + 1] = d.epoch
         /\ \A i \in 1..Len(d.copy.path) : Trace(d)[i] = d.copy.path[i]
BY HeldFields DEF Trace

(* A trace tells what it goes on and how.                                  *)
LEMMA TraceTells ==
  ASSUME TypeInv, NEW d \in held, NEW e \in held, Trace(d) = Trace(e)
  PROVE  d.copy.path = e.copy.path /\ d.epoch = e.epoch
<1> DEFINE p == d.copy.path
           q == e.copy.path
           r == Trace(d)
<1>1. p \in Seq(Nat) /\ q \in Seq(Nat) /\ Len(p) \in Nat /\ Len(q) \in Nat
  BY HeldFields
<1>2. Len(r) = Len(p) + 1 /\ r[Len(p) + 1] = d.epoch /\ \A i \in 1..Len(p) : r[i] = p[i]
  BY TraceType
<1>3. Len(r) = Len(q) + 1 /\ r[Len(q) + 1] = e.epoch /\ \A i \in 1..Len(q) : r[i] = q[i]
  BY TraceType
<1> HIDE DEF p, q, r
<1>4. Len(p) = Len(q) /\ d.epoch = e.epoch
  BY <1>1, <1>2, <1>3
<1>5. \A i \in 1..Len(p) : p[i] = q[i]
  BY <1>2, <1>3, <1>4
<1>6. p = q
  BY <1>1, <1>4, <1>5, SameElements
<1> QED  BY <1>4, <1>6 DEF p, q

(* The trace that is counted now is separate from those before: no copy    *)
(* goes on an unsettled delivery, nor does another unsettled delivery.     *)
LEMMA SeparateCounted ==
  ASSUME BaseInv, AnswerInv, PathInv, Step, NEW m \in Msgs, NEW P, Separate(m, P),
         NEW d \in held, Counting(d), d.copy.msg = m
  PROVE  Separate(m, P \cup {Trace(d)})'
<1> DEFINE r == Trace(d)
           Q == P \cup {r}
<1>1. /\ TypeInv /\ LineageInv /\ CustodyInv
      /\ d.at \in Unsettled /\ Decodes(d.copy) /\ d.copy \in Copies
  BY HeldFields DEF BaseInv, Counting, Unsettled, AnswerInv, Done, AtWork
<1>2. /\ r = Append(d.copy.path, d.epoch) /\ r \in Seq(Nat) /\ d.copy.path \in Seq(Nat)
      /\ d.epoch \in Nat /\ Len(r) = Len(d.copy.path) + 1
  BY <1>1, TraceType DEF Trace
<1>3. \A q \in Seq(Nat) :
        /\ Under(q, r) <=> Extends(q, d.copy.path, d.epoch)
        /\ Under(r, q) <=> Under(d.copy.path, q) \/ q = r
  <2>1. \A q \in Seq(Nat) :
          /\ Under(q, Append(d.copy.path, d.epoch)) <=> Extends(q, d.copy.path, d.epoch)
          /\ Under(Append(d.copy.path, d.epoch), q) <=>
               Under(d.copy.path, q) \/ q = Append(d.copy.path, d.epoch)
    BY <1>2, UnderAppend
  <2> QED  BY <1>2, <2>1
<1>4. Copies' \subseteq Copies
  BY DEF Counting, Copies
<1>5. \A c \in Copies : c.path \in Seq(Nat)
  BY <1>1, CopyFields
<1>6. \A p \in P : p \in Seq(Nat) /\ ~Under(r, p) /\ ~Under(p, r)
  BY <1>1, <1>3 DEF Separate
<1> HIDE DEF r
<1>7. Q \in SUBSET Seq(Nat) /\ IsFiniteSet(Q) /\ Cardinality(Q) = Outcomes(m)'
  <2>1. r \notin P
    <3>1. Under(r, r)
      BY <1>2, <1>3
    <3> QED  BY <1>6, <3>1
  <2>2. IsFiniteSet(Q) /\ Cardinality(Q) = Cardinality(P) + 1
    BY <2>1, FS_AddElement DEF Separate
  <2> QED  BY <1>2, <2>2 DEF Separate, Counting
<1>8. m \in pushed'
  BY <1>1 DEF LineageInv, Counting
<1>9. \A p \in Q : Len(p) \in 1..Dispatches
  <2>1. Len(d.copy.path) <= Cardinality(TiersGiven(d.copy)) /\ Len(d.copy.path) \in Nat
    BY <1>1, <1>2 DEF PathInv
  <2>2. \A i, j, k \in Nat : i <= j /\ j <= k => i + 1 \in 1..(k + 1)
    OBVIOUS
  <2>3. Len(r) \in 1..Dispatches
    BY <1>2, <2>1, <2>2, TiersFinite, FS_CardinalityType DEF Dispatches
  <2> QED  BY <2>3 DEF Separate
<1>10. \A p, q \in Q : Under(q, p) => p = q
  BY <1>6 DEF Separate
<1>11. ASSUME NEW c \in Copies', NEW p \in Q, c.msg = m  PROVE ~Under(c.path, p)
  <2>1. c \in Copies /\ ~Descends(c, d.copy, d.epoch)
    BY <1>1, <1>4 DEF LineageInv
  <2>2. ~Under(c.path, r)
    BY <1>3, <1>5, <1>11, <2>1 DEF Descends
  <2> QED  BY <1>11, <2>1, <2>2 DEF Separate
<1>12. ASSUME NEW e \in held', NEW p \in Q, e.copy.msg = m, e.at \in Unsettled
       PROVE  ~Under(p, Trace(e))
  <2>1. e \in held /\ e # d
    BY <1>12 DEF Counting, Unsettled
  <2>2. CASE p \in P
    BY <1>12, <2>1, <2>2 DEF Separate
  <2>3. ASSUME Under(r, Trace(e))  PROVE FALSE
    <3>1. /\ Trace(e) \in Seq(Nat) /\ Trace(e) = Append(e.copy.path, e.epoch)
          /\ e.copy.path \in Seq(Nat) /\ e.epoch \in Nat /\ e.copy \in Copies
      BY <1>1, <2>1, TraceType, HeldFields DEF Trace
    <3>2. CASE Trace(e) = r
      <4>1. e.copy.path = d.copy.path /\ e.epoch = d.epoch
        BY <1>1, <2>1, <3>2, TraceTells DEF r
      <4> QED  BY <1>1, <1>12, <2>1, <3>1, <4>1 DEF LineageInv
    <3>3. CASE Under(d.copy.path, Trace(e))
      <4>1. Extends(d.copy.path, e.copy.path, e.epoch)
        BY <1>2, <3>1, <3>3, UnderAppend
      <4> QED  BY <1>1, <1>12, <2>1, <4>1 DEF LineageInv, Descends
    <3> QED  BY <1>3, <2>3, <3>1, <3>2, <3>3
  <2> QED  BY <2>2, <2>3
<1>13. ASSUME NEW c \in ready' \cup unacked', NEW p \in Q, NEW n \in Nat,
              c.msg = m, Extends(p, c.path, n)
       PROVE  n <= epoch'[c.loop] /\ (c \in ready' => n < epoch'[c.loop])
  <2>1. c \in ready \cup unacked /\ c \in Copies /\ ready' = ready /\ epoch' = epoch
    BY <1>13 DEF Counting, Copies
  <2>2. CASE p \in P
    BY <1>13, <2>1, <2>2 DEF Separate
  <2>3. CASE p = r
    <3>1. Extends(d.copy.path, c.path, n) \/ (c.path = d.copy.path /\ n = d.epoch)
      BY <1>2, <1>5, <1>13, <2>1, <2>3, ExtendsAppend
    <3>2. CASE Extends(d.copy.path, c.path, n)
      BY <1>1, <1>13, <2>1, <3>2 DEF LineageInv, Descends
    <3>3. CASE c.path = d.copy.path /\ n = d.epoch
      <4>1. c = d.copy
        BY <1>1, <1>13, <2>1, <3>3 DEF LineageInv
      <4>2. d.epoch <= epoch[d.copy.loop] /\ (d.copy \in ready => d.epoch # epoch[d.copy.loop])
        BY <1>1 DEF LineageInv, CustodyInv, Custody, Live
      <4>3. epoch[d.copy.loop] \in Nat
        BY <1>1, HeldFields DEF TypeInv
      <4> QED  BY <1>2, <2>1, <3>3, <4>1, <4>2, <4>3
    <3> QED  BY <3>1, <3>2, <3>3
  <2> QED  BY <2>2, <2>3
<1> HIDE DEF Q
<1>14. Separate(m, Q)'
  BY <1>7, <1>8, <1>9, <1>10, <1>11, <1>12, <1>13 DEF Separate, Trace
<1> QED  BY <1>14 DEF Q, r

(* While no dispatch of m is counted its traces stay separate: what is     *)
(* delivered goes on no settled delivery of the present channel, and what  *)
(* is published goes on a delivery no trace goes on.                       *)
LEMMA SeparateKept ==
  ASSUME BaseInv, Step, NEW m \in Msgs, NEW P, Separate(m, P),
         Outcomes(m)' = Outcomes(m)
  PROVE  Separate(m, P)'
<1>1. TypeInv /\ LineageInv /\ CustodyInv
  BY DEF BaseInv
<1>2. /\ P \in SUBSET Seq(Nat) /\ IsFiniteSet(P) /\ Cardinality(P) = Outcomes(m)
      /\ m \notin pushed => P = {}
      /\ \A p \in P : Len(p) \in 1..Dispatches
      /\ \A p, q \in P : Under(q, p) => p = q
      /\ \A c \in Copies, p \in P : c.msg = m => ~Under(c.path, p)
      /\ \A d \in held, p \in P : d.copy.msg = m /\ d.at \in Unsettled => ~Under(p, Trace(d))
      /\ \A c \in ready \cup unacked, p \in P, n \in Nat :
           c.msg = m /\ Extends(p, c.path, n) =>
             n <= epoch[c.loop] /\ (c \in ready => n < epoch[c.loop])
  BY DEF Separate
<1>3. ASSUME pushed \subseteq pushed',
             \A c \in Copies', p \in P : c.msg = m => c \in Copies \/ ~Under(c.path, p),
             \A e \in held', p \in P : e.copy.msg = m /\ e.at \in Unsettled =>
               \/ ~Under(p, Trace(e))
               \/ \E d \in held : /\ d.copy = e.copy /\ d.epoch = e.epoch
                                  /\ d.at \in Unsettled,
             \A c \in ready' \cup unacked', p \in P, n \in Nat :
               c.msg = m /\ Extends(p, c.path, n) =>
                 n <= epoch'[c.loop] /\ (c \in ready' => n < epoch'[c.loop])
      PROVE  Separate(m, P)'
  <2>1. \A c \in Copies', p \in P : c.msg = m => ~Under(c.path, p)
    BY <1>2, <1>3
  <2>2. \A e \in held', p \in P : e.copy.msg = m /\ e.at \in Unsettled => ~Under(p, Trace(e))
    BY <1>2, <1>3 DEF Trace
  <2>3. m \notin pushed' => P = {}
    BY <1>2, <1>3
  <2>4. Cardinality(P) = Outcomes(m)'
    BY <1>2
  <2> QED  BY <1>2, <1>3, <2>1, <2>2, <2>3, <2>4 DEF Separate, Trace
<1>4. ASSUME NEW n \in Msgs, Push(n) \/ PushForeign(n)  PROVE Separate(m, P)'
  <2>1. PICK c \in Served : c.msg = n /\ ready' = ready \cup {c}
    BY <1>1, <1>4, PushedCopy
  <2>2. n \notin pushed /\ pushed' = pushed \cup {n} /\ UNCHANGED <<unacked, held, epoch>>
    BY <1>4 DEF Push, PushForeign, channels, process
  <2>3. Copies' = Copies \cup {c}
    BY <2>1, <2>2 DEF Copies
  <2>4. c.msg = m => P = {}
    BY <1>2, <2>1, <2>2
  <2>5. \A k \in ready' \cup unacked', p \in P :
          k.msg = m => k \in ready \cup unacked /\ (k \in ready' => k \in ready)
    BY <2>1, <2>2, <2>4
  <2> QED  BY <1>2, <1>3, <2>2, <2>3, <2>4, <2>5
<1>5. ASSUME NEW c \in ready, Deliver(c)  PROVE Separate(m, P)'
  <2> DEFINE d == [copy |-> c, epoch |-> epoch[c.loop], at |-> "buffered"]
  <2>1. c \in Copies /\ c.loop \in Loops /\ epoch[c.loop] \in Nat /\ c.path \in Seq(Nat)
    BY <1>1, CopyFields DEF TypeInv, Copies
  <2>2. d.copy = c /\ d.epoch = epoch[c.loop]
    OBVIOUS
  <2>3. /\ held' = held \cup {d} /\ ready' = ready \ {c} /\ unacked' = unacked \cup {c}
        /\ UNCHANGED <<epoch, pushed>>
    BY <1>5 DEF Deliver, channels, history
  <2> HIDE DEF d
  <2>4. Copies' \subseteq Copies
    BY <2>1, <2>2, <2>3 DEF Copies
  <2>5. ASSUME NEW p \in P, c.msg = m  PROVE ~Under(p, Trace(d))
    <3>1. p \in Seq(Nat) /\ ~Extends(p, c.path, epoch[c.loop])
      BY <1>2, <2>1, <2>5
    <3>2. Trace(d) = Append(c.path, epoch[c.loop])
      BY <2>2 DEF Trace
    <3> QED  BY <2>1, <3>1, <3>2, UnderAppend
  <2>6. ASSUME NEW k \in ready' \cup unacked', NEW p \in P, NEW n \in Nat,
               k.msg = m, Extends(p, k.path, n)
        PROVE  n <= epoch'[k.loop] /\ (k \in ready' => n < epoch'[k.loop])
    BY <1>2, <2>3, <2>6
  <2> QED  BY <1>3, <2>2, <2>3, <2>4, <2>5, <2>6
<1>6. ASSUME NEW d \in held, Publishes(d)  PROVE Separate(m, P)'
  <2> DEFINE h == Child(d)
             e == MovedTo(d, "settled")
  <2>1. /\ Retries(d) /\ "settled" \in Places /\ "settled" \notin Unsettled
        /\ d.at \in Unsettled /\ DelayFor(d.copy) > 0
    BY <1>6 DEF Publishes, Publish, Retries, Places, AtWork, Unsettled
  <2>2. /\ h.msg = d.copy.msg /\ h.path = Trace(d) /\ h.path \in Seq(Nat)
        /\ d.copy \in Copies /\ d.copy.path \in Seq(Nat) /\ d.epoch \in Nat
    BY <1>1, <2>1, ChildFields, HeldFields, TraceType DEF Trace
  <2>3. e.copy = d.copy /\ e.at \notin Unsettled
    BY <1>1, <2>1, MovedDelivery
  <2>4. /\ held' = (held \ {d}) \cup {e} /\ ready' = ready \cup {h}
        /\ UNCHANGED <<unacked, epoch, pushed>>
    BY <1>1, <1>6, <2>1, MovedDelivery DEF Publishes, Publish, channels, history
  <2> HIDE DEF h, e
  <2>5. \A k \in Copies' : k \in Copies \/ k = h
    BY <2>3, <2>4 DEF Copies
  <2>6. ASSUME NEW p \in P, h.msg = m
        PROVE  ~Under(h.path, p) /\ \A n \in Nat : ~Extends(p, h.path, n)
    <3>1. p \in Seq(Nat) /\ ~Under(d.copy.path, p) /\ ~Under(p, Trace(d))
      BY <1>2, <2>1, <2>2, <2>6
    <3>2. Under(p, p)
      BY <3>1 DEF Under
    <3>3. Under(Trace(d), p) <=> Under(d.copy.path, p) \/ p = Trace(d)
      BY <2>2, <3>1, UnderAppend DEF Trace
    <3>4. \A n \in Nat : Extends(p, h.path, n) => Under(p, h.path)
      BY <2>2, <3>1, UnderAppend
    <3> QED  BY <2>2, <3>1, <3>2, <3>3, <3>4
  <2>7. ASSUME NEW k \in ready' \cup unacked', NEW p \in P, NEW n \in Nat,
               k.msg = m, Extends(p, k.path, n)
        PROVE  n <= epoch'[k.loop] /\ (k \in ready' => n < epoch'[k.loop])
    <3>1. k # h
      BY <2>6, <2>7
    <3> QED  BY <1>2, <2>4, <2>7, <3>1
  <2> QED  BY <1>3, <2>3, <2>4, <2>5, <2>6, <2>7
<1>7. CASE OnlyMoves
  <2>1. Copies' \subseteq Copies /\ pushed' = pushed
    BY <1>1, <1>7, CopiesOnlyMove DEF OnlyMoves
  <2>2. \A e \in held' : \E d \in held :
          /\ e.copy = d.copy /\ e.epoch = d.epoch
          /\ e.at \in Unsettled => d.at \in Unsettled
    BY <1>1, <1>7, MovedDelivery DEF OnlyMoves
  <2>3. ASSUME NEW k \in ready' \cup unacked', NEW p \in P, NEW n \in Nat,
               k.msg = m, Extends(p, k.path, n)
        PROVE  n <= epoch'[k.loop] /\ (k \in ready' => n < epoch'[k.loop])
    <3>1. k \in ready \cup unacked /\ k.loop \in Loops
      BY <1>1, <1>7 DEF OnlyMoves, TypeInv, Copy
    <3>2. n <= epoch[k.loop] /\ (k \in ready => n < epoch[k.loop])
      BY <1>2, <2>3, <3>1
    <3>3. /\ epoch[k.loop] \in Nat /\ epoch'[k.loop] \in Nat
          /\ epoch'[k.loop] >= epoch[k.loop]
          /\ k \in ready' => k \in ready \/ epoch'[k.loop] > epoch[k.loop]
      BY <1>1, <1>7, <3>1 DEF OnlyMoves, TypeInv
    <3> QED  BY <3>2, <3>3
  <2> QED  BY <1>3, <2>1, <2>2, <2>3
<1> QED  BY <1>1, <1>4, <1>5, <1>6, <1>7, StepKinds

(* The traces of a message after a step: those before, and that of the     *)
(* dispatch that is counted now.                                           *)
LEMMA SeparateNext ==
  ASSUME BaseInv, AnswerInv, PathInv, Step, NEW m \in Msgs, NEW P, Separate(m, P)
  PROVE  \E Q : /\ Separate(m, Q)'
                /\ \A q \in Q : \/ q \in P
                                \/ \E d \in held : Decodes(d.copy) /\ q = Trace(d)
<1>1. CASE Outcomes(m)' = Outcomes(m)
  BY <1>1, SeparateKept
<1>2. ASSUME NEW d \in held, Counting(d), d.copy.msg = m
      PROVE  \E Q : /\ Separate(m, Q)'
                    /\ \A q \in Q : \/ q \in P
                                    \/ \E e \in held : Decodes(e.copy) /\ q = Trace(e)
  <2>1. Separate(m, P \cup {Trace(d)})'
    BY <1>2, SeparateCounted
  <2>2. Decodes(d.copy)
    BY <1>2 DEF AnswerInv, Done, AtWork, Counting
  <2> QED  BY <2>1, <2>2
<1>3. ASSUME NEW d \in held, Counting(d), d.copy.msg # m
      PROVE  Outcomes(m)' = Outcomes(m)
  BY <1>3 DEF Counting
<1> QED  BY <1>1, <1>2, <1>3, OutcomeSteps DEF BaseInv
-----------------------------------------------------------------------------
(* All the traces there are fit in one time line.                          *)
DuplicateInv ==
  \E B \in Begun :
    /\ Timeline(B)
    /\ \A c \in Copies : Decodes(c) => Possible(c.path, B)
    /\ \A d \in held : Decodes(d.copy) => Possible(Trace(d), B)
    /\ \A m \in Msgs : \E P : Separate(m, P) /\ \A p \in P : Possible(p, B)

(* The invariant holds at first.                                           *)
LEMMA DuplicateInvInit == Init => DuplicateInv
<1> SUFFICES ASSUME Init  PROVE DuplicateInv
  OBVIOUS
<1> DEFINE B == [l \in Loops |-> [e \in Nat |-> 0]]
<1>1. B \in Begun /\ \A l \in Loops, e \in Nat : B[l][e] = 0
  BY DEF Begun
<1> HIDE DEF B
<1>2. /\ held = {} /\ Copies = {} /\ Interruptions = 0 /\ ready \cup unacked = {}
      /\ \A l \in Loops : epoch[l] = 0
      /\ \A m \in Msgs : Outcomes(m) = 0
  BY DEF Init, Copies, Interruptions, Outcomes
<1>3. Timeline(B)
  BY <1>1, <1>2 DEF Timeline
<1>4. ASSUME NEW m \in Msgs  PROVE Separate(m, {})
  BY <1>2, FS_EmptySet DEF Separate
<1>5. \A m \in Msgs : Separate(m, {}) /\ \A p \in {} : Possible(p, B)
  BY <1>4
<1> QED  BY <1>1, <1>2, <1>3, <1>5 DEF DuplicateInv

(* Every step keeps it.                                                    *)
LEMMA DuplicateInvNext ==
  BaseInv /\ AnswerInv /\ PathInv /\ DuplicateInv /\ Step => DuplicateInv'
<1> SUFFICES ASSUME BaseInv, AnswerInv, PathInv, DuplicateInv, Step  PROVE DuplicateInv'
  OBVIOUS
<1>1. TypeInv
  BY DEF BaseInv
<1>2. PICK B \in Begun :
        /\ Timeline(B)
        /\ \A c \in Copies : Decodes(c) => Possible(c.path, B)
        /\ \A d \in held : Decodes(d.copy) => Possible(Trace(d), B)
        /\ \A m \in Msgs : \E P : Separate(m, P) /\ \A p \in P : Possible(p, B)
  BY DEF DuplicateInv
<1>3. PICK C \in Begun : /\ Timeline(C)'
                         /\ \A s \in Seq(Nat) : Possible(s, B) => Possible(s, C)'
  BY <1>1, <1>2, TimelineNext
<1>4. ASSUME NEW m \in Msgs
      PROVE  \E Q : Separate(m, Q)' /\ \A q \in Q : Possible(q, C)'
  <2>1. PICK P : Separate(m, P) /\ \A p \in P : Possible(p, B)
    BY <1>2
  <2>2. PICK Q : /\ Separate(m, Q)'
                 /\ \A q \in Q : q \in P \/ \E d \in held : Decodes(d.copy) /\ q = Trace(d)
    BY <2>1, SeparateNext
  <2>3. \A q \in Q : q \in Seq(Nat) /\ Possible(q, B)
    BY <1>2, <2>1, <2>2 DEF Separate
  <2> QED  BY <1>3, <2>2, <2>3
<1>5. ASSUME \A c \in Copies' : Decodes(c) => Possible(c.path, B),
             \A e \in held' : Decodes(e.copy) => Possible(Trace(e), B)
      PROVE  DuplicateInv'
  <2>1. TypeInv'
    BY <1>1, TypeInvNext
  <2>2. \A c \in Copies' : c.path \in Seq(Nat)
    BY <2>1 DEF TypeInv, Served, Copy
  <2>3. \A e \in held' : e.copy.path \in Seq(Nat) /\ e.epoch \in Nat
    BY <2>1 DEF TypeInv, Delivery, Copy
  <2>4. \A e \in held' : Trace(e) \in Seq(Nat)
    BY <2>3 DEF Trace
  <2>5. \A c \in Copies' : Decodes(c) => Possible(c.path, C)'
    BY <1>3, <1>5, <2>2
  <2>6. \A e \in held' : Decodes(e.copy) => Possible(Trace(e), C)'
    BY <1>3, <1>5, <2>4
  <2>7. /\ Timeline(C)'
        /\ \A c \in Copies' : Decodes(c)' => Possible(c.path, C)'
        /\ \A e \in held' : Decodes(e.copy)' => Possible(Trace(e), C)'
        /\ \A m \in Msgs : \E Q : Separate(m, Q)' /\ \A q \in Q : Possible(q, C)'
    BY <1>3, <1>4, <2>5, <2>6 DEF Decodes
  <2> QED  BY <2>7 DEF DuplicateInv, Trace
<1>6. ASSUME NEW m \in Msgs, Push(m) \/ PushForeign(m)  PROVE DuplicateInv'
  <2>1. PICK c \in Served : c.path = <<>> /\ ready' = ready \cup {c}
    BY <1>1, <1>6, PushedCopy
  <2>2. UNCHANGED <<unacked, held>>
    BY <1>6 DEF Push, PushForeign, process
  <2>3. Copies' \subseteq Copies \cup {c}
    BY <2>1, <2>2 DEF Copies
  <2>4. Possible(<<>>, B)
    BY DEF Possible
  <2> QED  BY <1>2, <1>5, <2>1, <2>2, <2>3, <2>4
<1>7. ASSUME NEW c \in ready, Deliver(c)  PROVE DuplicateInv'
  <2>1. PICK d : d.copy = c /\ d.epoch = epoch[c.loop] /\ held' = held \cup {d}
    BY <1>7 DEF Deliver
  <2>2. ready' \subseteq ready /\ unacked' \subseteq unacked \cup {c} /\ c \in Copies
    BY <1>7 DEF Deliver, Copies
  <2>3. Copies' \subseteq Copies
    BY <2>1, <2>2 DEF Copies
  <2>4. Decodes(c) => Possible(Trace(d), B)
    BY <1>1, <1>2, <2>1, <2>2, DeliveredPossible DEF Trace
  <2> QED  BY <1>2, <1>5, <2>1, <2>3, <2>4
<1>8. ASSUME NEW d \in held, NEW p \in Places, held' \subseteq Moved(d, p)
      PROVE  \A e \in held' : Decodes(e.copy) => Possible(Trace(e), B)
  BY <1>1, <1>2, <1>8, MovedDelivery DEF Trace
<1>9. ASSUME NEW d \in held, Publishes(d)  PROVE DuplicateInv'
  <2>1. /\ Retries(d) /\ d.at = "failed" /\ "settled" \in Places /\ DelayFor(d.copy) > 0
        /\ held' = Moved(d, "settled") /\ ready' = ready \cup {Child(d)} /\ unacked' = unacked
    BY <1>9 DEF Publishes, Publish, Retries, Places, AtWork
  <2>2. Copies' \subseteq Copies \cup {Child(d)}
    BY <1>1, <2>1, MovedDelivery DEF Copies
  <2>3. Decodes(d.copy) /\ Child(d).path = Trace(d)
    BY <1>1, <2>1, ChildFields DEF AnswerInv, Done, AtWork, Trace
  <2> QED  BY <1>2, <1>5, <1>8, <2>1, <2>2, <2>3
<1>10. CASE OnlyMoves
  <2>1. Copies' \subseteq Copies
    BY <1>1, <1>10, CopiesOnlyMove
  <2>2. \A e \in held' : Decodes(e.copy) => Possible(Trace(e), B)
    BY <1>2, <1>8, <1>10 DEF OnlyMoves
  <2> QED  BY <1>2, <1>5, <2>1, <2>2
<1> QED  BY <1>1, <1>6, <1>7, <1>9, <1>10, StepKinds

(* When the delivery of a retry on channel e was made at the latest: no    *)
(* interruption later than the one that ended the channel.                 *)
Late(B, e) ==
  IF e = epoch["retry"] THEN Interruptions ELSE B["retry"][e + 1] - 1

(* The interruptions a trace tells of, padded to the length of a whole     *)
(* schedule.                                                               *)
Noted(B, p) ==
  [i \in 1..Dispatches |->
     IF i > Len(p) THEN Interruptions
     ELSE IF i = 1 THEN B["main"][p[1]] ELSE Late(B, p[i])]

(* A later channel tells of later interruptions.                           *)
LEMMA LateGrows ==
  ASSUME TypeInv, NEW B \in Begun, Timeline(B),
         NEW e \in Nat, e <= epoch["retry"], NEW f \in Nat, f <= epoch["retry"]
  PROVE  /\ Late(B, e) \in 0..Interruptions
         /\ e < f => Late(B, e) < Late(B, f)
<1>1. /\ "retry" \in Loops /\ epoch["retry"] \in Nat /\ Interruptions \in Nat
      /\ \A i \in Nat : B["retry"][i] \in Nat
  BY DEF Loops, TypeInv, Interruptions, Begun
<1>2. /\ \A i \in Nat : i <= epoch["retry"] => B["retry"][i] <= Interruptions
      /\ \A i, j \in Nat : i < j /\ j <= epoch["retry"] => B["retry"][i] < B["retry"][j]
  BY <1>1 DEF Timeline
<1>3. ASSUME NEW i \in Nat, i <= epoch["retry"], i # epoch["retry"]
      PROVE  /\ Late(B, i) = B["retry"][i + 1] - 1
             /\ Late(B, i) \in 0..Interruptions /\ Late(B, i) < Interruptions
  <2>1. i + 1 \in Nat /\ i < i + 1 /\ i + 1 <= epoch["retry"]
    BY <1>1, <1>3
  <2>2. B["retry"][i] < B["retry"][i + 1] /\ B["retry"][i + 1] <= Interruptions
    BY <1>2, <2>1
  <2> QED  BY <1>1, <1>3, <2>1, <2>2 DEF Late
<1>4. Late(B, epoch["retry"]) = Interruptions
  BY DEF Late
<1>5. Late(B, e) \in 0..Interruptions
  BY <1>1, <1>3, <1>4
<1>6. ASSUME e < f  PROVE Late(B, e) < Late(B, f)
  <2>1. e # epoch["retry"]
    BY <1>1, <1>6
  <2>2. CASE f = epoch["retry"]
    BY <1>3, <1>4, <2>1, <2>2
  <2>3. CASE f # epoch["retry"]
    <3>1. e + 1 \in Nat /\ f + 1 \in Nat /\ e + 1 < f + 1 /\ f + 1 <= epoch["retry"]
      BY <1>1, <1>6, <2>3
    <3>2. B["retry"][e + 1] < B["retry"][f + 1]
      BY <1>2, <3>1
    <3> QED  BY <1>1, <1>3, <2>1, <2>3, <3>1, <3>2
  <2> QED  BY <2>2, <2>3
<1> QED  BY <1>5, <1>6

(* What a trace tells of never falls.                                      *)
LEMMA NotedAscending ==
  ASSUME TypeInv, NEW B \in Begun, Timeline(B),
         NEW p \in Seq(Nat), Len(p) \in 1..Dispatches, Possible(p, B)
  PROVE  Noted(B, p) \in Ascending(Dispatches, Interruptions)
<1> DEFINE s == Noted(B, p)
           n == Interruptions
<1>1. /\ "main" \in Loops /\ epoch["main"] \in Nat /\ epoch["retry"] \in Nat /\ n \in Nat
      /\ Dispatches \in Nat /\ Len(p) \in Nat /\ \A i \in 1..Len(p) : p[i] \in Nat
  BY TiersFinite DEF Loops, TypeInv, Interruptions
<1>2. \A i \in 1..Dispatches :
        s[i] = IF i > Len(p) THEN n ELSE IF i = 1 THEN B["main"][p[1]] ELSE Late(B, p[i])
  BY DEF Noted
<1>3. p[1] \in Nat /\ B["main"][p[1]] \in 0..n
  <2>1. p[1] \in Nat /\ p[1] <= epoch["main"]
    BY <1>1 DEF Possible
  <2>2. B["main"][p[1]] \in Nat
    BY <1>1, <2>1 DEF Begun
  <2>3. B["main"][p[1]] <= n
    BY <1>1, <2>1 DEF Timeline
  <2> QED  BY <1>1, <2>1, <2>2, <2>3
<1>4. ASSUME NEW i \in 2..Len(p)
      PROVE  p[i] \in Nat /\ p[i] <= epoch["retry"] /\ Late(B, p[i]) \in 0..n
  <2>1. i \in 1..Len(p)
    BY <1>1
  <2>2. p[i] \in Nat /\ p[i] <= epoch["retry"]
    BY <1>1, <2>1 DEF Possible
  <2> QED  BY <2>2, LateGrows
<1>5. \A i \in 1..Dispatches : i > Len(p) \/ i = 1 \/ i \in 2..Len(p)
  BY <1>1
<1>6. \A i \in 1..Dispatches : s[i] \in 0..n
  BY <1>1, <1>2, <1>3, <1>4, <1>5
<1>7. ASSUME NEW i \in 2..Len(p)  PROVE B["main"][p[1]] <= Late(B, p[i])
  <2>1. 2 \in 2..Len(p) /\ 2 <= i
    BY <1>1
  <2>2. p[2] \in Nat /\ p[2] <= epoch["retry"] /\ p[2] <= p[i]
    BY <1>4, <2>1 DEF Possible
  <2>3. p[2] = epoch["retry"] \/ B["main"][p[1]] < B["retry"][p[2] + 1]
    BY <1>1, <2>1 DEF Possible
  <2>4. B["main"][p[1]] <= Late(B, p[2])
    <3>1. CASE p[2] = epoch["retry"]
      BY <1>1, <1>3, <3>1 DEF Late
    <3>2. CASE p[2] # epoch["retry"]
      <4>1. B["main"][p[1]] < B["retry"][p[2] + 1] /\ Late(B, p[2]) = B["retry"][p[2] + 1] - 1
        BY <2>3, <3>2 DEF Late
      <4>2. p[2] + 1 \in Nat /\ "retry" \in Loops
        BY <2>2 DEF Loops
      <4>3. B["retry"][p[2] + 1] \in Nat
        BY <4>2 DEF Begun
      <4>4. B["main"][p[1]] \in Int
        BY <1>1, <1>3
      <4>5. \A x, y \in Int : x < y => x <= y - 1
        OBVIOUS
      <4> QED  BY <4>1, <4>3, <4>4, <4>5
    <3> QED  BY <3>1, <3>2
  <2>5. p[2] = p[i] \/ p[2] < p[i]
    BY <1>4, <2>2
  <2>6. Late(B, p[2]) \in 0..n /\ Late(B, p[i]) \in 0..n /\ Late(B, p[2]) <= Late(B, p[i])
    BY <1>4, <2>1, <2>2, <2>5, LateGrows
  <2> QED  BY <1>3, <2>4, <2>6
<1>8. ASSUME NEW i \in 1..Dispatches, NEW j \in 1..Dispatches, i <= j  PROVE s[i] <= s[j]
  <2>1. CASE j > Len(p)
    BY <1>1, <1>2, <1>6, <2>1
  <2>2. CASE j = 1
    BY <1>1, <1>6, <1>8, <2>2
  <2>3. CASE j \in 2..Len(p) /\ i = 1
    BY <1>1, <1>2, <1>7, <2>3
  <2>4. CASE j \in 2..Len(p) /\ i \in 2..Len(p)
    <3>1. p[i] <= p[j]
      BY <1>8, <2>4 DEF Possible
    <3>2. p[i] = p[j] \/ p[i] < p[j]
      BY <1>4, <2>4, <3>1
    <3>3. Late(B, p[i]) <= Late(B, p[j])
      <4>1. Late(B, p[i]) \in Int /\ Late(B, p[j]) \in Int
        BY <1>1, <1>4, <2>4
      <4>2. p[i] < p[j] => Late(B, p[i]) < Late(B, p[j])
        BY <1>4, <2>4, LateGrows
      <4> QED  BY <3>2, <4>1, <4>2
    <3>4. s[i] = Late(B, p[i]) /\ s[j] = Late(B, p[j])
      BY <1>1, <1>2, <2>4
    <3> QED  BY <3>3, <3>4
  <2>5. j \in 2..Len(p) => i = 1 \/ i \in 2..Len(p)
    BY <1>1, <1>8
  <2> QED  BY <1>5, <2>1, <2>2, <2>3, <2>4, <2>5
<1>9. s \in [1..Dispatches -> 0..n]
  BY <1>6 DEF Noted
<1> QED  BY <1>8, <1>9 DEF Ascending

(* A trace that tells the same as a longer one is its beginning.           *)
LEMMA NotedTells ==
  ASSUME TypeInv, NEW B \in Begun, Timeline(B),
         NEW p \in Seq(Nat), Len(p) \in 1..Dispatches, Possible(p, B),
         NEW q \in Seq(Nat), Len(q) \in 1..Dispatches, Possible(q, B),
         Noted(B, p) = Noted(B, q), Len(p) <= Len(q)
  PROVE  Under(q, p)
<1>1. /\ "main" \in Loops /\ epoch["main"] \in Nat /\ epoch["retry"] \in Nat
      /\ Dispatches \in Nat /\ Len(p) \in Nat /\ Len(q) \in Nat
  BY TiersFinite DEF Loops, TypeInv
<1> SUFFICES ASSUME NEW i \in 1..Len(p)  PROVE q[i] = p[i]
  BY DEF Under
<1>2. /\ i \in 1..Dispatches /\ i \in 1..Len(q) /\ ~(i > Len(p)) /\ ~(i > Len(q))
      /\ p[i] \in Nat /\ q[i] \in Nat
  BY <1>1
<1>3. Noted(B, p)[i] = Noted(B, q)[i]
  OBVIOUS
<1>4. CASE i = 1
  <2>1. B["main"][p[1]] = B["main"][q[1]]
    BY <1>2, <1>3, <1>4 DEF Noted
  <2>2. p[1] \in Nat /\ q[1] \in Nat /\ p[1] <= epoch["main"] /\ q[1] <= epoch["main"]
    BY <1>1, <1>2, <1>4 DEF Possible
  <2>3. \A e, f \in Nat : e < f /\ f <= epoch["main"] => B["main"][e] < B["main"][f]
    BY <1>1 DEF Timeline
  <2>4. B["main"][p[1]] \in Nat
    BY <1>1, <2>2 DEF Begun
  <2>5. p[1] < q[1] => B["main"][p[1]] < B["main"][q[1]]
    BY <2>2, <2>3
  <2>6. q[1] < p[1] => B["main"][q[1]] < B["main"][p[1]]
    BY <2>2, <2>3
  <2>7. ~(p[1] < q[1]) /\ ~(q[1] < p[1])
    BY <2>1, <2>4, <2>5, <2>6
  <2> QED  BY <1>4, <2>2, <2>7
<1>5. CASE i # 1
  <2>1. i \in 2..Len(p) /\ i \in 2..Len(q)
    BY <1>1, <1>2, <1>5
  <2>2. Late(B, p[i]) = Late(B, q[i])
    BY <1>2, <1>3, <1>5 DEF Noted
  <2>3. p[i] <= epoch["retry"] /\ q[i] <= epoch["retry"]
    BY <2>1 DEF Possible
  <2>4. Late(B, p[i]) \in Int
    BY <1>2, <2>3, LateGrows
  <2>5. ~(p[i] < q[i]) /\ ~(q[i] < p[i])
    BY <1>2, <2>2, <2>3, <2>4, LateGrows
  <2> QED  BY <1>2, <2>5
<1> QED  BY <1>4, <1>5

(* Separate traces are no more than the lists that never fall.             *)
LEMMA SeparateFew ==
  ASSUME TypeInv, NEW B \in Begun, Timeline(B), NEW m \in Msgs, NEW P, Separate(m, P),
         \A p \in P : Possible(p, B)
  PROVE  Outcomes(m) <= choose(Interruptions + Dispatches, Dispatches)
<1> DEFINE A == Ascending(Dispatches, Interruptions)
           f == [p \in P |-> Noted(B, p)]
<1>1. /\ P \in SUBSET Seq(Nat) /\ IsFiniteSet(P) /\ Cardinality(P) = Outcomes(m)
      /\ \A p \in P : Len(p) \in 1..Dispatches
      /\ \A p, q \in P : Under(q, p) => p = q
  BY DEF Separate
<1>2. /\ Interruptions \in Nat /\ Dispatches \in Nat
      /\ IsFiniteSet(A) /\ Cardinality(A) = choose(Interruptions + Dispatches, Dispatches)
  <2>1. Interruptions \in Nat /\ Dispatches \in Nat
    BY TiersFinite DEF TypeInv, Interruptions
  <2> QED  BY <2>1, AscendingChoose
<1>3. ASSUME NEW p \in P  PROVE Noted(B, p) \in A
  BY <1>1, NotedAscending
<1>4. ASSUME NEW p \in P, NEW q \in P, Noted(B, p) = Noted(B, q)  PROVE p = q
  <2>1. p \in Seq(Nat) /\ q \in Seq(Nat) /\ Len(p) \in Nat /\ Len(q) \in Nat
    BY <1>1
  <2>2. Len(p) <= Len(q) \/ Len(q) <= Len(p)
    BY <2>1
  <2>3. Len(p) <= Len(q) => Under(q, p)
    BY <1>1, <1>4, <2>1, NotedTells
  <2>4. Len(q) <= Len(p) => Under(p, q)
    BY <1>1, <1>4, <2>1, NotedTells
  <2> QED  BY <1>1, <2>2, <2>3, <2>4
<1> HIDE DEF A
<1>5. f \in Injection(P, A)
  BY <1>3, <1>4 DEF Injection, IsInjective
<1>6. Cardinality(P) <= Cardinality(A)
  BY <1>2, <1>5, FS_Injection
<1> QED  BY <1>1, <1>2, <1>6

(* However a message's deliveries are repeated, and its repeated           *)
(* deliveries published again, it is counted no more often than the        *)
(* interruptions can be spread over the dispatches of its schedule.        *)
THEOREM DuplicatesBoundedHolds == Spec => []DuplicatesBounded
<1>1. TypeInv /\ DuplicateInv => DuplicatesBounded
  <2> SUFFICES ASSUME TypeInv, DuplicateInv, NEW m \in Msgs
               PROVE  Outcomes(m) <= choose(drops + stops + (Cardinality(AllTiers) + 1),
                                            Cardinality(AllTiers) + 1)
    BY DEF DuplicatesBounded
  <2>1. PICK B \in Begun : /\ Timeline(B)
                           /\ \E P : Separate(m, P) /\ \A p \in P : Possible(p, B)
    BY DEF DuplicateInv
  <2>2. Outcomes(m) <= choose(Interruptions + Dispatches, Dispatches)
    BY <2>1, SeparateFew
  <2> QED  BY <2>2 DEF Interruptions, Dispatches
<1> QED  BY <1>1, BaseInvInit, BaseInvNext, AnswerInvInit, AnswerInvNext, PathInvInit,
            PathInvNext, DuplicateInvInit, DuplicateInvNext, PTL DEF Spec, Step, BaseInv
-----------------------------------------------------------------------------
(***************************************************************************)
(* The refinement of Redelivery.  Whatever a step does, nobody begins to   *)
(* work on a message unless the broker delivers it, and the broker lets go *)
(* of nothing that was not tried; so most steps are a Release.             *)
(***************************************************************************)
AtBroker == ready \cup unacked

OwedAll == [m \in Msgs |-> Owed(m)]
WorkedAll == [m \in Msgs |-> WorkedOn(m)]

(* What Redelivery sees of a message with copies and deliveries.           *)
LEMMA SeenSets ==
  \A m, s : /\ s \in Owed(m) <=> \E c \in AtBroker : c.msg = m /\ c.cur = s
            /\ s \in WorkedOn(m) <=> \E d \in held : /\ d.copy.msg = m /\ d.copy.cur = s
                                                     /\ d.at # "settled"
BY DEF Owed, WorkedOn, AtBroker

(* The same of the next state.                                             *)
LEMMA SeenSetsNext ==
  \A m, s : /\ s \in Owed(m)' <=> \E c \in AtBroker' : c.msg = m /\ c.cur = s
            /\ s \in WorkedOn(m)' <=> \E d \in held' : /\ d.copy.msg = m /\ d.copy.cur = s
                                                       /\ d.at # "settled"
<1>1. (\A m, s : /\ s \in Owed(m) <=> \E c \in AtBroker : c.msg = m /\ c.cur = s
                 /\ s \in WorkedOn(m) <=> \E d \in held : /\ d.copy.msg = m /\ d.copy.cur = s
                                                          /\ d.at # "settled")'
  BY SeenSets, PTL
<1> QED  BY <1>1

(* Sets are the same if they have the same members.                        *)
LEMMA SeenSame ==
  ASSUME NEW m
  PROVE  /\ (\A s : s \in Owed(m)' <=> s \in Owed(m)) => Owed(m)' = Owed(m)
         /\ (\A s : s \in WorkedOn(m)' <=> s \in WorkedOn(m)) => WorkedOn(m)' = WorkedOn(m)
OBVIOUS

(* All delays are stages of the schedule.                                  *)
LEMMA SeenStages ==
  ASSUME TypeInv, TierInv
  PROVE  \A m : Owed(m) \subseteq Abstract!Stages /\ WorkedOn(m) \subseteq Abstract!Stages
<1>1. Abstract!Stages = Stages(DelayOnFailure)
  BY DEF Abstract!Stages, AllTiers, Stages, TiersReached
<1>2. \A c \in AtBroker : c \in Copies
  BY DEF AtBroker, Copies
<1>3. \A d \in held : d.copy \in Copies
  BY DEF Copies
<1> QED  BY <1>1, <1>2, <1>3, SeenSets DEF TierInv, Staged

(* The same of the next state.                                             *)
LEMMA SeenStagesNext ==
  TypeInv' /\ TierInv' =>
    \A m : Owed(m)' \subseteq Abstract!Stages /\ WorkedOn(m)' \subseteq Abstract!Stages
<1>1. (TypeInv /\ TierInv =>
        \A m : Owed(m) \subseteq Abstract!Stages /\ WorkedOn(m) \subseteq Abstract!Stages)'
  BY SeenStages, PTL
<1> QED  BY <1>1 DEF Abstract!Stages, AllTiers

(* A step that concerns one message.                                       *)
LEMMA OneOwed ==
  ASSUME NEW m \in Msgs, \A k \in Msgs \ {m} : Owed(k)' = Owed(k)
  PROVE  OwedAll' = [OwedAll EXCEPT ![m] = Owed(m)']
BY DEF OwedAll

(* A step that concerns one message.                                       *)
LEMMA OneWorked ==
  ASSUME NEW m \in Msgs, \A k \in Msgs \ {m} : WorkedOn(k)' = WorkedOn(k)
  PROVE  WorkedAll' = [WorkedAll EXCEPT ![m] = WorkedOn(m)']
BY DEF WorkedAll

(* Only a delivery of the broker begins work.                              *)
LEMMA WorkShrinks ==
  ASSUME TypeInv, Step, ~\E c \in ready : Deliver(c)
  PROVE  \A k \in Msgs : WorkedOn(k)' \subseteq WorkedOn(k)
<1>1. ASSUME \A e \in held' : e.at # "settled" =>
               \E d \in held : d.copy = e.copy /\ d.at # "settled"
      PROVE  \A k \in Msgs : WorkedOn(k)' \subseteq WorkedOn(k)
  BY <1>1, SeenSets, SeenSetsNext
<1>2. CASE held' \subseteq held
  BY <1>1, <1>2
<1>3. ASSUME NEW d \in held, NEW p \in Places, held' \subseteq Moved(d, p), Turn(d, p)
      PROVE  \A k \in Msgs : WorkedOn(k)' \subseteq WorkedOn(k)
  <2>1. d.at # "settled"
    BY <1>3 DEF Turn, Answers
  <2> QED  BY <1>1, <1>3, <2>1, MovedDelivery
<1> QED  BY <1>2, <1>3, HeldSteps

(* A delivery goes on; it is worked on as before.                          *)
LEMMA WorkGoesOn ==
  ASSUME TypeInv, NEW d \in held, NEW p \in Places, held' = Moved(d, p),
         d.at # "settled", p # "settled"
  PROVE  \A k \in Msgs : WorkedOn(k)' = WorkedOn(k)
<1>1. PICK e : e.copy = d.copy /\ e.at = p /\ held' = (held \ {d}) \cup {e}
  BY MovedDelivery
<1>2. \A k, s : s \in WorkedOn(k)' <=> s \in WorkedOn(k)
  BY <1>1, SeenSets, SeenSetsNext
<1> QED  BY <1>2, SeenSame

(* A delivery is done with.                                                *)
LEMMA WorkEnds ==
  ASSUME TypeInv, NEW d \in held,
         held' = held \ {d} \/ held' = Moved(d, "settled")
  PROVE  /\ \A k \in Msgs \ {d.copy.msg} : WorkedOn(k)' = WorkedOn(k)
         /\ WorkedOn(d.copy.msg)' \in {WorkedOn(d.copy.msg), WorkedOn(d.copy.msg) \ {d.copy.cur}}
<1> DEFINE m == d.copy.msg
<1>1. /\ \A e \in held' : e \in held \/ e.at = "settled"
      /\ \A e \in held : e # d => e \in held'
  <2>1. CASE held' = held \ {d}
    BY <2>1
  <2>2. CASE held' = Moved(d, "settled")
    <3>1. "settled" \in Places
      BY DEF Places, AtWork
    <3> QED  BY <2>2, <3>1, MovedDelivery
  <2> QED  BY <2>1, <2>2
<1>2. \A k, s : s \in WorkedOn(k)' => s \in WorkedOn(k)
  BY <1>1, SeenSets, SeenSetsNext
<1>3. \A k, s : s \in WorkedOn(k) => s \in WorkedOn(k)' \/ (k = m /\ s = d.copy.cur)
  BY <1>1, SeenSets, SeenSetsNext
<1> HIDE DEF m
<1>4. \A k \in Msgs \ {m} : WorkedOn(k)' = WorkedOn(k)
  BY <1>2, <1>3, SeenSame
<1>5. WorkedOn(m)' = WorkedOn(m) \/ WorkedOn(m)' = WorkedOn(m) \ {d.copy.cur}
  BY <1>2, <1>3
<1> QED  BY <1>4, <1>5 DEF m

(* What the broker lets go of was tried, unless the setup is one that may  *)
(* lose messages.                                                          *)
LEMMA OwedUntilTried ==
  ASSUME TypeInv, AnswerInv, BoundInv, Step, ~Lossy
  PROVE  \A c \in AtBroker : c \in AtBroker' \/ c.cur \in tried[c.msg]
<1> DEFINE Goal == \A c \in AtBroker : c \in AtBroker' \/ c.cur \in tried[c.msg]
<1>1. ASSUME NEW m \in Msgs, Push(m) \/ PushForeign(m)  PROVE Goal
  BY <1>1 DEF Push, PushForeign, AtBroker
<1>2. ASSUME NEW c \in ready, Deliver(c)  PROVE Goal
  BY <1>2 DEF Deliver, AtBroker
<1>3. ASSUME NEW c \in ready  PROVE ~Unrouted(c)
  BY DEF Unrouted, BoundInv
<1>4. ASSUME NEW L \in SUBSET Loops, Requeued(L)  PROVE Goal
  BY <1>4 DEF Requeued, AtBroker
<1>5. ASSUME BrokerRestart  PROVE Goal
  BY <1>5 DEF BrokerRestart, Lossy, Kept, AtBroker
<1>6. ASSUME ProcessEnds  PROVE Goal
  BY <1>6 DEF ProcessEnds, AtBroker
<1>7. ASSUME NEW d \in held, AckFirst(d) \/ Ack(d)  PROVE Goal
  <2>1. d.at \in Answers \cup {"settled", "acked"}
    BY <1>7 DEF AckFirst, Ack, Answers
  <2>2. d.copy.cur \in tried[d.copy.msg]
    BY <2>1 DEF AnswerInv, Done
  <2>3. ready' = ready /\ unacked \ {d.copy} \subseteq unacked'
    BY <1>7 DEF AckFirst, Ack, Acknowledged
  <2> QED  BY <2>2, <2>3 DEF AtBroker
<1>8. ASSUME NEW d \in held, Publish(d) \/ PublishNowhere(d)  PROVE Goal
  <2>1. {d.copy.loop} \in SUBSET Loops
    BY HeldFields
  <2> QED  BY <1>4, <1>8, <2>1 DEF Publish, PublishNowhere, AtBroker
<1>9. ASSUME UNCHANGED <<ready, unacked>>  PROVE Goal
  BY <1>9 DEF AtBroker
<1> HIDE DEF Goal
<1>10. Goal
  BY <1>1, <1>2, <1>3, <1>4, <1>5, <1>6, <1>7, <1>8, <1>9
  DEF Step, Next, Dispatching, Tick, Drop, Reopen, Stop, QueueHandle, DeclareExchange,
     BindAndConsume, StartMain, Receive, Spawn, SpawnUndecodable, Reply, ReplyNull,
     CountAcked, CountSuccess, CountFailure, vars, broker
<1> QED  BY <1>10 DEF Goal

(* A step that publishes, delivers, answers and counts nothing.            *)
LEMMA StepReleases ==
  ASSUME TypeInv, LineageInv, AnswerInv, BoundInv, Step, TypeInv', TierInv', KeptInv',
         OnlyMoves, ~\E c \in ready : Deliver(c), UNCHANGED <<tried, counters>>
  PROVE  Abstract!Release
<1>1. pushed' = pushed /\ AtBroker' \subseteq AtBroker
  BY DEF OnlyMoves, AtBroker
<1>2. \A m \in Msgs : Owed(m)' \subseteq Owed(m) /\ WorkedOn(m)' \subseteq WorkedOn(m)
  <2>1. \A m \in Msgs : Owed(m)' \subseteq Owed(m)
    BY <1>1, SeenSets, SeenSetsNext
  <2> QED  BY <2>1, WorkShrinks
<1>3. \A m \in Msgs : /\ Owed(m)' \in SUBSET Abstract!Stages
                      /\ WorkedOn(m)' \in SUBSET Abstract!Stages
  BY SeenStagesNext
<1>4. (drops + stops = 0)' \in {drops + stops = 0, FALSE}
  <2>1. CASE Quiet'
    BY <2>1, QuietStep DEF Quiet
  <2>2. CASE ~Quiet'
    BY <2>2 DEF Quiet
  <2> QED  BY <2>1, <2>2
<1>5. ASSUME ~Lossy, NEW m \in Msgs  PROVE Owed(m) \ Owed(m)' \subseteq tried[m]
  BY <1>5, OwedUntilTried, SeenSets, SeenSetsNext
<1>6. ASSUME ~Lossy, NEW m \in Msgs, Owed(m)' = {}
      PROVE  Owed(m) = {} \/ Abstract!Finished(m)
  <2>1. \A c \in AtBroker : c.msg \in pushed
    BY DEF LineageInv, AtBroker, Copies
  <2>2. \A c \in AtBroker' : c.msg # m
    BY <1>6, SeenSetsNext
  <2>3. CASE m \notin pushed
    BY <2>1, <2>3, SeenSets
  <2>4. CASE m \in pushed
    <3>1. Finished(m)'
      BY <1>1, <1>6, <2>2, <2>4, LossyKept DEF KeptInv, AtBroker
    <3>2. Finished(m)
      BY <3>1, SetupKept DEF Finished, Outcomes, counters, IsAutoAck
    <3> QED  BY <3>2 DEF Finished, Outcomes, Abstract!Finished, Abstract!Counts
  <2> QED  BY <2>3, <2>4
<1>7. UNCHANGED <<pushed, tried, success, failure>>
  BY <1>1 DEF counters
<1> QED  BY <1>2, <1>3, <1>4, <1>5, <1>6, <1>7 DEF Abstract!Release

(* A message is published: Accept.                                         *)
LEMMA PushAccepts ==
  ASSUME TypeInv, LineageInv, NEW m \in Msgs, Push(m) \/ PushForeign(m)
  PROVE  Abstract!Accept(m)
<1>1. PICK c \in Served : c.msg = m /\ c.cur = 0 /\ ready' = ready \cup {c}
  BY PushedCopy
<1>2. /\ m \notin pushed /\ pushed' = pushed \cup {m}
      /\ UNCHANGED <<unacked, held, tried, success, failure, drops, stops>>
  BY DEF Push, PushForeign, process, counters, channels
<1>3. \A k \in AtBroker : k.msg # m
  BY <1>2 DEF LineageInv, AtBroker, Copies
<1>4. AtBroker' = AtBroker \cup {c}
  BY <1>1, <1>2 DEF AtBroker
<1>5. Owed(m)' = {0} /\ \A k \in Msgs \ {m} : Owed(k)' = Owed(k)
  <2>1. \A s : s \in Owed(m)' <=> s = 0
    BY <1>1, <1>3, <1>4, SeenSetsNext
  <2>2. \A k \in Msgs \ {m} : \A s : s \in Owed(k)' <=> s \in Owed(k)
    BY <1>1, <1>4, SeenSets, SeenSetsNext
  <2>3. Owed(m)' = {0}
    BY <2>1
  <2> QED  BY <2>2, <2>3, SeenSame
<1>6. OwedAll' = [OwedAll EXCEPT ![m] = {0}]
  BY <1>5, OneOwed
<1>7. WorkedAll' = WorkedAll
  BY <1>2 DEF WorkedAll, WorkedOn
<1> QED  BY <1>2, <1>6, <1>7 DEF Abstract!Accept, OwedAll, WorkedAll

(* A message is delivered: Begin.                                          *)
LEMMA DeliverBegins ==
  ASSUME TypeInv, NEW c \in ready, Deliver(c)
  PROVE  Abstract!Begin(c.msg, c.cur)
<1> DEFINE m == c.msg
<1>1. m \in Msgs /\ m = c.msg /\ c \in AtBroker
  BY CopyFields DEF Copies, AtBroker
<1>2. PICK d : d.copy = c /\ d.at = "buffered" /\ held' = held \cup {d}
  BY DEF Deliver
<1>3. /\ AtBroker' = AtBroker
      /\ UNCHANGED <<pushed, tried, success, failure, drops, stops>>
  BY DEF Deliver, AtBroker, counters, channels, history
<1> HIDE DEF m
<1>4. /\ WorkedOn(m)' = WorkedOn(m) \cup {c.cur}
      /\ \A k \in Msgs \ {m} : WorkedOn(k)' = WorkedOn(k)
  <2>1. \A s : s \in WorkedOn(m)' <=> s \in WorkedOn(m) \/ s = c.cur
    BY <1>1, <1>2, SeenSets, SeenSetsNext
  <2>2. \A k \in Msgs \ {m} : \A s : s \in WorkedOn(k)' <=> s \in WorkedOn(k)
    BY <1>1, <1>2, SeenSets, SeenSetsNext
  <2>3. WorkedOn(m)' = WorkedOn(m) \cup {c.cur}
    BY <2>1
  <2> QED  BY <2>2, <2>3, SeenSame
<1>5. WorkedAll' = [WorkedAll EXCEPT ![m] = WorkedOn(m) \cup {c.cur}]
  BY <1>1, <1>4, OneWorked
<1>6. OwedAll' = OwedAll
  <2>1. \A k, s : s \in Owed(k)' <=> s \in Owed(k)
    BY <1>3, SeenSets, SeenSetsNext
  <2>2. \A k : Owed(k)' = Owed(k)
    BY <2>1, SeenSame
  <2> QED  BY <2>2 DEF OwedAll
<1>7. c.cur \in Owed(m)
  BY <1>1, SeenSets
<1>8. Abstract!Begin(m, c.cur)
  BY <1>1, <1>3, <1>5, <1>6, <1>7 DEF Abstract!Begin, OwedAll, WorkedAll
<1> QED  BY <1>8 DEF m

(* A receiver answers: Answer.                                             *)
LEMMA ReplyAnswers ==
  ASSUME BaseInv, OnceInv, NEW d \in held, Reply(d)
  PROVE  Abstract!Answer(d.copy.msg, d.copy.cur)
<1> DEFINE m == d.copy.msg
           s == d.copy.cur
<1>1. /\ TypeInv /\ d.at = "post" /\ m \in Msgs /\ s \in Int /\ d.copy \in Copies
  BY HeldFields DEF BaseInv, Reply
<1>2. /\ tried' = [tried EXCEPT ![m] = @ \cup {s}]
      /\ UNCHANGED <<ready, unacked, pushed, success, failure, drops, stops>>
  BY DEF Reply, broker, channels, counters
<1>3. \E p \in Places : held' = Moved(d, p) /\ p # "settled"
  BY DEF Reply, Places, AtWork
<1>4. WorkedAll' = WorkedAll
  <2>1. \A k \in Msgs : WorkedOn(k)' = WorkedOn(k)
    BY <1>1, <1>3, WorkGoesOn
  <2> QED  BY <2>1 DEF WorkedAll
<1>5. OwedAll' = OwedAll
  BY <1>2 DEF OwedAll, Owed
<1>6. s \in WorkedOn(m)
  BY <1>1, SeenSets
<1>7. ASSUME Quiet  PROVE \A t \in tried[m] : t < s
  <2>1. Bears(d.copy) /\ \A e \in held : e.copy = d.copy => e = d
    BY <1>1, <1>7, OneDelivery
  <2>2. d.at \notin AfterPost
    BY <1>1 DEF AfterPost, Answers
  <2>3. s \notin tried[m] /\ \A t \in tried[m] : t <= s
    BY <1>1, <1>7, <2>1, <2>2 DEF OnceInv
  <2>4. \A t \in tried[m] : t \in Int
    BY <1>1 DEF TypeInv
  <2> QED  BY <1>1, <2>3, <2>4
<1> HIDE DEF m, s
<1>8. Abstract!Answer(m, s)
  BY <1>1, <1>2, <1>4, <1>5, <1>6, <1>7 DEF Abstract!Answer, OwedAll, WorkedAll, Quiet
<1> QED  BY <1>8 DEF m, s

(* A goroutine is done with a message that was answered: Settle.           *)
LEMMA DispatchSettles ==
  ASSUME BaseInv, AnswerInv, OnceInv, NEW d \in held, d.at \in AfterPost,
         held' = held \ {d} \/ held' = Moved(d, "settled"),
         UNCHANGED <<pushed, tried, drops, stops>>
  PROVE  Abstract!Settle(d.copy.msg, d.copy.cur)
<1> DEFINE m == d.copy.msg
           s == d.copy.cur
<1>1. TypeInv /\ m \in Msgs /\ d.copy \in Copies /\ d.at # "settled"
  BY HeldFields DEF BaseInv, AfterPost, Answers
<1>2. s \in tried[m]
  BY DEF AnswerInv, Done, AfterPost
<1>3. s \in WorkedOn(m)
  BY <1>1, SeenSets
<1>4. ASSUME Quiet  PROVE success[m] + failure[m] = 0
  <2>1. Bears(d.copy)
    BY <1>1, <1>4, OneDelivery
  <2> QED  BY <1>1, <1>4, <2>1 DEF OnceInv, Outcomes
<1>5. /\ \A k \in Msgs \ {m} : WorkedOn(k)' = WorkedOn(k)
      /\ WorkedOn(m)' \in {WorkedOn(m), WorkedOn(m) \ {s}}
  BY <1>1, WorkEnds
<1> HIDE DEF m, s
<1>6. WorkedAll' = [WorkedAll EXCEPT ![m] = WorkedOn(m)']
  BY <1>1, <1>5, OneWorked
<1>7. WorkedAll' \in {WorkedAll, [WorkedAll EXCEPT ![m] = @ \ {s}]}
  <2>1. WorkedAll[m] = WorkedOn(m) /\ [WorkedAll EXCEPT ![m] = WorkedOn(m)] = WorkedAll
    BY <1>1 DEF WorkedAll
  <2> QED  BY <1>5, <1>6, <2>1
<1>8. Abstract!Settle(m, s)
  BY <1>1, <1>2, <1>3, <1>4, <1>7
  DEF Abstract!Settle, Abstract!Counts, OwedAll, WorkedAll, Quiet
<1> QED  BY <1>8 DEF m, s

(* What Redelivery calls the least greater delay.                          *)
LEMMA NextIsLeastGreater ==
  ASSUME TypeInv, AnswerInv, TierInv, IsSorted(DelayOnFailure),
         NEW d \in held, d.at = "failed"
  PROVE  /\ DelayFor(d.copy) <= 0 => Abstract!Greater(d.copy.cur) = {}
         /\ DelayFor(d.copy) > 0 => /\ DelayFor(d.copy) \in Abstract!Greater(d.copy.cur)
                                    /\ \A e \in Abstract!Greater(d.copy.cur) : DelayFor(d.copy) <= e
<1> DEFINE cur == d.copy.cur
           next == DelayFor(d.copy)
<1>1. AllTiers = TiersReached(DelayOnFailure)
  BY DEF AllTiers, TiersReached
<1>2. /\ cur \in Stages(DelayOnFailure) /\ cur \in Int /\ next \in Int
      /\ \A e \in AllTiers : e \in Int /\ e \in Stages(DelayOnFailure)
  BY <1>1, HeldFields, DelayForType, StagesPositive, ConfigAssumption DEF TierInv, Staged, Stages
<1>3. \A e : e \in Abstract!Greater(cur) <=> e \in AllTiers /\ cur < e
  BY DEF Abstract!Greater
<1>4. \/ next <= 0 /\ StagesUpTo(DelayOnFailure, cur) = Stages(DelayOnFailure)
      \/ /\ next > 0 /\ next \in AllTiers
         /\ StagesBelow(DelayOnFailure, next) = StagesUpTo(DelayOnFailure, cur)
  BY <1>1, DelayForNext
<1> HIDE DEF cur, next
<1>5. CASE next <= 0 /\ StagesUpTo(DelayOnFailure, cur) = Stages(DelayOnFailure)
  <2>1. \A e \in AllTiers : ~(cur < e)
    BY <1>2, <1>5 DEF StagesUpTo
  <2>2. Abstract!Greater(cur) = {}
    BY <1>3, <2>1
  <2> QED  BY <1>2, <1>5, <2>2 DEF cur, next
<1>6. CASE /\ next > 0 /\ next \in AllTiers
           /\ StagesBelow(DelayOnFailure, next) = StagesUpTo(DelayOnFailure, cur)
  <2>1. cur < next
    BY <1>2, <1>6 DEF StagesUpTo, StagesBelow
  <2>2. ASSUME NEW e \in AllTiers, cur < e  PROVE next <= e
    <3>1. e \notin StagesBelow(DelayOnFailure, next)
      BY <1>2, <1>6, <2>2 DEF StagesUpTo
    <3> QED  BY <1>2, <3>1 DEF StagesBelow
  <2> QED  BY <1>2, <1>3, <1>6, <2>1, <2>2 DEF cur, next
<1> QED  BY <1>4, <1>5, <1>6

(* A message is counted: Succeed or GiveUp.                                *)
LEMMA CountSettles ==
  ASSUME BaseInv, AnswerInv, OnceInv, TierInv, IsSorted(DelayOnFailure),
         NEW d \in held, CountAcked(d) \/ CountSuccess(d) \/ CountFailure(d),
         ~UNCHANGED counters
  PROVE  \/ Abstract!Succeed(d.copy.msg, d.copy.cur)
         \/ Abstract!GiveUp(d.copy.msg, d.copy.cur)
<1>1. /\ d.at \in AfterPost
      /\ held' = held \ {d} \/ held' = Moved(d, "settled")
      /\ UNCHANGED <<ready, unacked, pushed, tried, drops, stops>>
  BY DEF CountAcked, CountSuccess, CountFailure, AfterPost, Answers, broker, channels, history
<1>2. Abstract!Settle(d.copy.msg, d.copy.cur)
  BY <1>1, DispatchSettles
<1>3. OwedAll' = OwedAll
  BY <1>1 DEF OwedAll, Owed
<1>4. CASE success' = Counted(success, d.copy.msg) /\ UNCHANGED failure
  BY <1>2, <1>3, <1>4 DEF Abstract!Succeed, OwedAll, Counted
<1>5. CASE failure' = Counted(failure, d.copy.msg) /\ UNCHANGED success
  <2>1. CASE CountFailure(d)
    <3>1. d.at = "failed" /\ DelayFor(d.copy) <= 0
      BY <2>1 DEF CountFailure
    <3>2. Abstract!Greater(d.copy.cur) = {}
      BY <3>1, NextIsLeastGreater DEF BaseInv
    <3> QED  BY <1>2, <1>3, <1>5, <3>2 DEF Abstract!GiveUp, OwedAll, Counted
  <2>2. CASE CountAcked(d)
    <3>1. ~IsAutoAck
      <4>1. TypeInv /\ d.copy.msg \in Msgs
        BY HeldFields DEF BaseInv
      <4>2. Counted(success, d.copy.msg) # success
        BY <4>1 DEF Counted, TypeInv
      <4> QED  BY <1>5, <2>2, <4>2 DEF CountAcked, counters
    <3>2. Lossy
      BY <2>2, <3>1 DEF CountAcked, AnswerInv, Done, Lossy, Faulty
    <3> QED  BY <1>2, <1>3, <1>5, <3>2 DEF Abstract!GiveUp, OwedAll, Counted
  <2>3. CASE CountSuccess(d)
    BY <1>4, <1>5, <2>3 DEF CountSuccess, counters
  <2> QED  BY <2>1, <2>2, <2>3
<1> QED  BY <1>4, <1>5 DEF CountAcked, CountSuccess, CountFailure, counters

(* A retry is published: Retry.                                            *)
LEMMA PublishRetries ==
  ASSUME BaseInv, AnswerInv, OnceInv, TierInv, IsSorted(DelayOnFailure),
         NEW d \in held, Publishes(d)
  PROVE  Abstract!Retry(d.copy.msg, d.copy.cur)
<1> DEFINE m == d.copy.msg
           s == d.copy.cur
           h == Child(d)
<1>1. /\ d.at = "failed" /\ DelayFor(d.copy) > 0
      /\ held' = Moved(d, "settled") /\ ready' = ready \cup {h}
      /\ UNCHANGED <<unacked, success, failure, pushed, tried, drops, stops>>
  BY DEF Publishes, Publish, Retries, history, counters, channels
<1>2. Abstract!Settle(m, s)
  BY <1>1, DispatchSettles DEF AfterPost, Answers
<1>3. h.msg = m /\ h.cur = DelayFor(d.copy) /\ m \in Msgs
  BY <1>1, ChildFields, HeldFields DEF BaseInv
<1>4. AtBroker' = AtBroker \cup {h}
  BY <1>1 DEF AtBroker
<1>5. /\ DelayFor(d.copy) \in Abstract!Greater(s)
      /\ \A e \in Abstract!Greater(s) : DelayFor(d.copy) <= e
  BY <1>1, NextIsLeastGreater DEF BaseInv
<1> HIDE DEF m, s, h
<1>6. /\ Owed(m)' = Owed(m) \cup {h.cur}
      /\ \A k \in Msgs \ {m} : Owed(k)' = Owed(k)
  <2>1. \A t : t \in Owed(m)' <=> t \in Owed(m) \/ t = h.cur
    BY <1>3, <1>4, SeenSets, SeenSetsNext
  <2>2. \A k \in Msgs \ {m} : \A t : t \in Owed(k)' <=> t \in Owed(k)
    BY <1>3, <1>4, SeenSets, SeenSetsNext
  <2>3. Owed(m)' = Owed(m) \cup {h.cur}
    BY <2>1
  <2> QED  BY <2>2, <2>3, SeenSame
<1>7. OwedAll' = [OwedAll EXCEPT ![m] = Owed(m) \cup {h.cur}]
  BY <1>3, <1>6, OneOwed
<1>8. Abstract!Retry(m, s)
  BY <1>1, <1>2, <1>3, <1>5, <1>7 DEF Abstract!Retry, OwedAll
<1> QED  BY <1>8 DEF m, s

(* The initial states map to initial states.                               *)
LEMMA RedeliveryInit == Init => Abstract!Init
<1> SUFFICES ASSUME Init  PROVE Abstract!Init
  OBVIOUS
<1>1. AtBroker = {} /\ held = {} /\ (drops + stops = 0) = TRUE
  BY DEF Init, AtBroker
<1>2. \A m \in Msgs : Owed(m) = {} /\ WorkedOn(m) = {}
  BY <1>1, SeenSets
<1>3. Lossy \in BOOLEAN /\ IsAutoAck \in BOOLEAN
  BY ConfigAssumption DEF Init, Lossy, IsAutoAck, Setup
<1> QED  BY <1>1, <1>2, <1>3 DEF Init, Abstract!Init

RedeliveryInv ==
  BaseInv /\ AnswerInv /\ TierInv /\ StartInv /\ BoundInv /\ KeptInv /\ OnceInv

(* Every step maps to a step.                                              *)
LEMMA RedeliveryNext ==
  ASSUME IsSorted(DelayOnFailure)
  PROVE  RedeliveryInv /\ RedeliveryInv' /\ Step => Abstract!Next
<1> SUFFICES ASSUME RedeliveryInv, RedeliveryInv', Step  PROVE Abstract!Next
  OBVIOUS
<1>1. /\ BaseInv /\ TypeInv /\ LineageInv /\ AnswerInv /\ TierInv /\ BoundInv /\ OnceInv
      /\ TypeInv' /\ TierInv' /\ KeptInv'
  BY DEF RedeliveryInv, BaseInv
<1>2. UNCHANGED <<Lossy, IsAutoAck>>
  BY SetupKept DEF Lossy, IsAutoAck, Faulty, IsDurable
<1>3. ASSUME NEW m \in Msgs, NEW s \in Abstract!Stages,
             \/ Abstract!Accept(m) \/ Abstract!Begin(m, s) \/ Abstract!Answer(m, s)
             \/ Abstract!Succeed(m, s) \/ Abstract!GiveUp(m, s) \/ Abstract!Retry(m, s)
      PROVE  Abstract!Next
  BY <1>2, <1>3 DEF Abstract!Next
<1>4. ASSUME NEW c \in Copies  PROVE c.msg \in Msgs /\ c.cur \in Abstract!Stages
  <2>1. Abstract!Stages = Stages(DelayOnFailure)
    BY DEF Abstract!Stages, AllTiers, Stages, TiersReached
  <2> QED  BY <1>1, <2>1, CopyFields DEF TierInv, Staged
<1>5. ASSUME NEW d \in held  PROVE d.copy.msg \in Msgs /\ d.copy.cur \in Abstract!Stages
  BY <1>4 DEF Copies
<1>6. ASSUME NEW m \in Msgs, Push(m) \/ PushForeign(m)  PROVE Abstract!Next
  <2>1. 0 \in Abstract!Stages
    BY DEF Abstract!Stages
  <2> QED  BY <1>1, <1>3, <1>6, <2>1, PushAccepts
<1>7. ASSUME NEW c \in ready, Deliver(c)  PROVE Abstract!Next
  BY <1>1, <1>3, <1>4, <1>7, DeliverBegins DEF Copies
<1>8. ASSUME NEW d \in held, Publishes(d)  PROVE Abstract!Next
  BY <1>1, <1>3, <1>5, <1>8, PublishRetries
<1>9. ASSUME NEW d \in held, Reply(d)  PROVE Abstract!Next
  BY <1>1, <1>3, <1>5, <1>9, ReplyAnswers
<1>10. ASSUME NEW d \in held, CountAcked(d) \/ CountSuccess(d) \/ CountFailure(d),
              ~UNCHANGED counters
       PROVE  Abstract!Next
  BY <1>1, <1>3, <1>5, <1>10, CountSettles
<1>11. ASSUME OnlyMoves, ~\E c \in ready : Deliver(c), UNCHANGED <<tried, counters>>
       PROVE  Abstract!Next
  <2>1. Abstract!Release
    BY <1>1, <1>11, StepReleases
  <2> QED  BY <1>2, <2>1 DEF Abstract!Next
<1>12. \/ UNCHANGED counters
       \/ \E d \in held : CountAcked(d) \/ CountSuccess(d) \/ CountFailure(d)
  BY DEF Step, Next, Dispatching, Push, PushForeign, Tick, Unrouted, Deliver, Drop, Reopen,
     Stop, ProcessEnds, BrokerRestart, QueueHandle, DeclareExchange, BindAndConsume,
     StartMain, Receive, Spawn, SpawnUndecodable, Reply, ReplyNull, AckFirst,
     Publish, PublishNowhere, Ack, vars
<1>13. UNCHANGED tried \/ \E d \in held : Reply(d)
  BY <1>1, OnlyReplyAnswers
<1> QED
  BY <1>1, <1>6, <1>7, <1>8, <1>9, <1>10, <1>11, <1>12, <1>13, StepKinds

(* RabbitQueue implements Redelivery: whatever is lost, repeated or        *)
(* stopped, the broker owes a message until it is finished, a retry has    *)
(* the next delay of a sorted schedule, and nothing is done twice before   *)
(* the first interruption.                                                 *)
THEOREM RedeliveryPromiseHolds ==
  ASSUME IsSorted(DelayOnFailure)
  PROVE  Spec => RedeliveryPromise
<1>1. Init => Abstract!Init /\ RedeliveryInv
  BY RedeliveryInit, BaseInvInit, AnswerInvInit, TierInvInit, StartInvInit, BoundInvInit,
     KeptInvInit, OnceInvInit DEF RedeliveryInv
<1>2. RedeliveryInv /\ Step => RedeliveryInv'
  BY BaseInvNext, AnswerInvNext, TierInvNext, StartInvNext, BoundInvNext, KeptInvNext,
     OnceInvNext DEF RedeliveryInv, BaseInv
<1>3. RedeliveryInv /\ RedeliveryInv' /\ Step => Abstract!Next
  BY RedeliveryNext
<1> QED
  BY <1>1, <1>2, <1>3, PTL DEF Spec, Step, RedeliveryPromise, Abstract!Spec
=============================================================================
