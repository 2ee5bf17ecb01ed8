-------------------------- MODULE RabbitQueueProofs --------------------------
(***************************************************************************)
(* Theorems about RabbitQueue, for every value of its constants: types,    *)
(* the identity of copies and deliveries, who owes the broker an           *)
(* acknowledgement, and the concurrency control.                           *)
(***************************************************************************)
EXTENDS RabbitQueue, RetryScheduleProofs, FiniteSetTheorems

Step == [Next /\ UNCHANGED setup]_<<vars, setup>>

Places == {"buffered", "received"} \cup AtWork

(* Every copy of a message there is: in the broker, or in the memory of    *)
(* the process only, because its delivery lost its channel or was          *)
(* acknowledged.                                                           *)
Copies == ready \cup unacked \cup {d.copy : d \in held}

(* What the two publishers can have given a copy.                          *)
Served == {c \in Copy : c.cur >= 0 /\ (c.loop = "main" => c.cur = 0)}

MovedTo(d, place) == [d EXCEPT !.at = place]

(***************************************************************************)
(* Types.  As in RedisQueueProofs, slots is left in Int here: that no      *)
(* token is taken from an empty channel is a matter of the accounting.     *)
(***************************************************************************)
TypeInv ==
  /\ setup \in Setup
  /\ ready \in SUBSET Copy /\ unacked \in SUBSET Copy
  /\ bindings \in {"none", "exchange", "bound"} /\ queue \in BOOLEAN
  /\ open \in [Loops -> BOOLEAN]
  /\ epoch \in [Loops -> Nat]
  /\ held \in SUBSET Delivery
  /\ IsFiniteSet(held)
  /\ Copies \subseteq Served
  /\ pc \in [Loops -> {"off", "sleep", "declare", "bind", "idle", "spawn"}]
  /\ slots \in [Loops -> Int]
  /\ success \in [Msgs -> Nat] /\ failure \in [Msgs -> Nat]
  /\ now \in Nat /\ drops \in Nat /\ stops \in Nat
  /\ pushed \in SUBSET Msgs
  /\ tried \in [Msgs -> SUBSET Int]
  /\ failedAt \in [Msgs -> Int]

(* The parts of a delivery the process holds.                              *)
LEMMA HeldFields ==
  ASSUME TypeInv, NEW d \in held
  PROVE  /\ d \in Delivery /\ d.copy \in Copies /\ d.copy \in Served /\ d.copy \in Copy
         /\ d.copy.loop \in Loops /\ d.copy.msg \in Msgs /\ d.copy.cur \in Int
         /\ d.copy.cur >= 0 /\ d.copy.due \in Nat /\ d.copy.path \in Seq(Nat)
         /\ d.epoch \in Nat /\ d.at \in Places
BY DEF TypeInv, Delivery, Copies, Served, Copy, Places

(* The parts of a copy of a message.                                       *)
LEMMA CopyFields ==
  ASSUME TypeInv, NEW c \in Copies
  PROVE  /\ c \in Copy /\ c \in Served /\ c.msg \in Msgs /\ c.loop \in Loops
         /\ c.cur \in Int /\ c.cur >= 0 /\ c.due \in Nat /\ c.path \in Seq(Nat)
BY DEF TypeInv, Served, Copy

(* Moving a delivery changes its place and nothing else.                   *)
LEMMA MovedDelivery ==
  ASSUME TypeInv, NEW d \in held, NEW p \in Places
  PROVE  /\ MovedTo(d, p) \in Delivery
         /\ MovedTo(d, p).copy = d.copy
         /\ MovedTo(d, p).epoch = d.epoch
         /\ MovedTo(d, p).at = p
         /\ Moved(d, p) = (held \ {d}) \cup {MovedTo(d, p)}
         /\ IsFiniteSet(Moved(d, p))
<1>1. d \in Delivery
  BY DEF TypeInv
<1>2. /\ MovedTo(d, p) \in Delivery
      /\ MovedTo(d, p).copy = d.copy
      /\ MovedTo(d, p).epoch = d.epoch
      /\ MovedTo(d, p).at = p
  BY <1>1 DEF MovedTo, Delivery, Places
<1>3. Moved(d, p) = (held \ {d}) \cup {MovedTo(d, p)}
  BY DEF Moved, MovedTo
<1>4. IsFiniteSet((held \ {d}) \cup {MovedTo(d, p)})
  BY FS_AddElement, FS_RemoveElement DEF TypeInv
<1> QED  BY <1>2, <1>3, <1>4

(* The next delay of a copy is greater than the one it was published with, *)
(* or there is none.                                                       *)
LEMMA DelayForType ==
  ASSUME NEW c \in Served
  PROVE  /\ DelayFor(c) \in Int
         /\ DelayFor(c) > 0 => DelayFor(c) > c.cur
         /\ DelayFor(c) > 0 => DelayOnFailure # <<>>
<1>1. c.cur \in Int /\ c.cur >= 0 /\ c.loop \in Loops
  BY DEF Served, Copy
<1>2. CASE c.loop = "retry"
  <2>1. DelayFor(c) = NextDelay(DelayOnFailure, c.cur)
    BY <1>2 DEF DelayFor, DelayAfter, RunMode
  <2>2. NextDelay(DelayOnFailure, c.cur) \in Int
        /\ (NextDelay(DelayOnFailure, c.cur) = 0 \/ NextDelay(DelayOnFailure, c.cur) > c.cur)
    BY <1>1, ConfigAssumption, NextDelayGreater
  <2>3. NextDelay(<<>>, c.cur) = 0
    BY <1>1, NoDelays
  <2> QED  BY <1>1, <2>1, <2>2, <2>3
<1>3. CASE c.loop = "main"
  <2>1. c.cur = 0 /\ RunMode("main") # "retry"
    BY <1>3 DEF Served, RunMode
  <2>2. DelayFor(c) = FirstDelay(DelayOnFailure)
    BY <1>3, <2>1 DEF DelayFor, DelayAfter
  <2> QED  BY <2>1, <2>2, ConfigAssumption, FirstDelayType, NoDelays
<1> QED  BY <1>1, <1>2, <1>3 DEF Loops

(* A retry is a copy of the retry queue with a delay that grew.            *)
LEMMA ChildFields ==
  ASSUME TypeInv, NEW d \in held, DelayFor(d.copy) > 0
  PROVE  /\ Child(d) \in Served
         /\ Child(d).msg = d.copy.msg
         /\ Child(d).path = Append(d.copy.path, d.epoch)
         /\ Child(d).loop = "retry"
         /\ Child(d).cur = DelayFor(d.copy) /\ Child(d).cur \in Int
         /\ Child(d).cur > d.copy.cur
         /\ Child(d).due = now + DelayFor(d.copy) - d.copy.cur
<1>1. DelayFor(d.copy) \in Int /\ DelayFor(d.copy) > d.copy.cur
  BY HeldFields, DelayForType
<1>2. now + DelayFor(d.copy) - d.copy.cur \in Nat
  BY <1>1, HeldFields DEF TypeInv
<1>3. Append(d.copy.path, d.epoch) \in Seq(Nat)
  BY HeldFields
<1> QED
  BY <1>1, <1>2, <1>3, HeldFields DEF Child, DueAfter, Served, Copy, Loops

(* A lost channel: its loop loses what is buffered, except what is being   *)
(* handed over, and nothing else.                                          *)
LEMMA LostChannels ==
  ASSUME TypeInv, NEW L \in SUBSET Loops, NEW S \in SUBSET Delivery,
         Buffered(L) \subseteq S, ChannelsLost(L, S)
  PROVE  /\ S \ Buffered(L) \subseteq held' /\ held' \subseteq S
         /\ open' \in [Loops -> BOOLEAN] /\ epoch' \in [Loops -> Nat]
         /\ drops' \in Nat /\ drops' > 0
         /\ \A l \in L : ~open'[l] /\ epoch'[l] = epoch[l] + 1
         /\ \A l \in Loops \ L : open'[l] = open[l] /\ epoch'[l] = epoch[l]
<1>1. drops' \in Nat /\ drops' > 0
  BY DEF ChannelsLost, TypeInv
<1>2. /\ epoch' \in [Loops -> Nat]
      /\ \A l \in L : epoch'[l] = epoch[l] + 1
      /\ \A l \in Loops \ L : epoch'[l] = epoch[l]
  BY DEF ChannelsLost, TypeInv
<1>4. open' = [l \in Loops |-> open[l] /\ l \notin L]
  BY DEF ChannelsLost
<1>5. \A l \in Loops : open[l] \in BOOLEAN
  BY DEF TypeInv
<1>6. \A l \in Loops : open'[l] = (open[l] /\ l \notin L)
  BY <1>4
<1>7. /\ open' \in [Loops -> BOOLEAN]
      /\ \A l \in L : ~open'[l]
      /\ \A l \in Loops \ L : open'[l] = open[l]
  BY <1>4, <1>5, <1>6, Zenon
<1>3. S \ Buffered(L) \subseteq held' /\ held' \subseteq S
  BY DEF ChannelsLost
<1> QED  BY <1>1, <1>2, <1>3, <1>7

(* What the end of the process leaves: nothing in memory, and all copies   *)
(* ready again.                                                            *)
LEMMA ProcessEnded ==
  ASSUME TypeInv, ProcessEnds
  PROVE  /\ held' = {} /\ ready' = ready \cup unacked /\ unacked' = {}
         /\ open' \in [Loops -> BOOLEAN] /\ epoch' \in [Loops -> Nat]
         /\ pc' \in [Loops -> {"off"}] /\ slots' = [l \in Loops |-> 0]
         /\ stops' \in Nat /\ stops' > 0
         /\ \A l \in Loops : ~open'[l] /\ epoch'[l] = epoch[l] + 1
         /\ UNCHANGED <<bindings, queue, drops, counters, now, history>>
BY DEF ProcessEnds, TypeInv

(* A publisher's copy.                                                     *)
LEMMA PushedCopy ==
  ASSUME TypeInv, NEW m \in Msgs, Push(m) \/ PushForeign(m)
  PROVE  \E c \in Served :
           /\ c.msg = m /\ c.path = <<>> /\ c.cur = 0
           /\ c.loop = "retry" => bindings = "bound"
           /\ ready' = ready \cup {c}
<1>1. CASE Push(m)
  <2>1. PICK t \in Nat :
          ready' = ready \cup {[msg |-> m, path |-> <<>>, loop |-> "main", due |-> t, cur |-> 0]}
    BY <1>1, ConfigAssumption DEF Push
  <2> DEFINE c == [msg |-> m, path |-> <<>>, loop |-> "main", due |-> t, cur |-> 0]
  <2>2. c \in Served /\ c.msg = m /\ c.path = <<>> /\ c.cur = 0 /\ c.loop = "main"
    BY DEF Served, Copy, Loops
  <2>3. ready' = ready \cup {c}
    BY <2>1
  <2> HIDE DEF c
  <2> QED  BY <2>2, <2>3
<1>2. CASE PushForeign(m)
  <2> DEFINE c == [msg |-> m, path |-> <<>>, loop |-> "retry", due |-> 0, cur |-> 0]
  <2>1. c \in Served /\ c.msg = m /\ c.path = <<>> /\ c.cur = 0
    BY DEF Served, Copy, Loops
  <2>2. ready' = ready \cup {c} /\ bindings = "bound"
    BY <1>2 DEF PushForeign
  <2> HIDE DEF c
  <2> QED  BY <2>1, <2>2
<1> QED  BY <1>1, <1>2

(* The invariant holds at first.                                           *)
LEMMA TypeInvInit == Init => TypeInv
BY FS_EmptySet, ConfigAssumption DEF Init, TypeInv, Copies, Never

(* Every step keeps it.                                                    *)
LEMMA TypeInvNext == TypeInv /\ Step => TypeInv'
<1> SUFFICES ASSUME TypeInv, Step  PROVE TypeInv'
  OBVIOUS
<1>1. setup' = setup
  BY DEF Step
<1>2. ASSUME NEW m \in Msgs, Push(m) \/ PushForeign(m)  PROVE TypeInv'
  <2>1. PICK c \in Served : ready' = ready \cup {c}
    BY <1>2, PushedCopy
  <2>2. /\ pushed' = pushed \cup {m}
        /\ UNCHANGED <<unacked, bindings, queue, channels, process, counters, now, stops,
                       tried, failedAt>>
    BY <1>2 DEF Push, PushForeign
  <2>3. Copies' \subseteq Copies \cup {c}
    BY <2>1, <2>2 DEF Copies, process
  <2> QED
    BY <1>1, <2>1, <2>2, <2>3 DEF TypeInv, Served, channels, process, counters
<1>3. CASE Tick
  <2>1. now' \in Nat
    BY <1>3 DEF Tick, TypeInv
  <2> QED
    BY <1>1, <1>3, <2>1 DEF Tick, TypeInv, Copies, broker, channels, process, counters, history
<1>4. ASSUME NEW c \in ready, Unrouted(c)  PROVE TypeInv'
  BY <1>1, <1>4 DEF Unrouted, TypeInv, Copies, channels, process, counters, history
<1>5. ASSUME NEW c \in ready, Deliver(c)  PROVE TypeInv'
  <2> DEFINE d == [copy |-> c, epoch |-> epoch[c.loop], at |-> "buffered"]
  <2>1. c \in Copy /\ c \in Copies /\ c.loop \in Loops
    BY DEF TypeInv, Copy, Copies
  <2>2. d \in Delivery /\ d.copy = c
    BY <2>1 DEF TypeInv, Delivery
  <2>3. held' = held \cup {d}
    BY <1>5 DEF Deliver
  <2> HIDE DEF d
  <2>4. IsFiniteSet(held')
    BY <2>3, FS_AddElement DEF TypeInv
  <2>5. ready' = ready \ {c} /\ unacked' = unacked \cup {c}
    BY <1>5 DEF Deliver
  <2>6. Copies' \subseteq Copies
    BY <2>1, <2>2, <2>3, <2>5 DEF Copies
  <2> QED
    BY <1>1, <1>5, <2>1, <2>2, <2>3, <2>4, <2>5, <2>6
    DEF Deliver, TypeInv, channels, counters, history
<1>6. ASSUME held' \subseteq held, ready' \cup unacked' \subseteq ready \cup unacked
      PROVE  /\ held' \in SUBSET Delivery /\ IsFiniteSet(held') /\ Copies' \subseteq Served
             /\ ready' \in SUBSET Copy /\ unacked' \in SUBSET Copy
  <2>1. IsFiniteSet(held')
    BY <1>6, FS_Subset DEF TypeInv
  <2>2. Copies' \subseteq Copies
    BY <1>6 DEF Copies
  <2> QED  BY <1>6, <2>1, <2>2 DEF TypeInv
<1>7. ASSUME NEW L \in SUBSET Loops, Drop(L)  PROVE TypeInv'
  <2>1. ChannelsLost(L, held) /\ Requeued(L)
    BY <1>7 DEF Drop
  <2>2. held \in SUBSET Delivery /\ Buffered(L) \subseteq held
    BY DEF TypeInv, Buffered
  <2>3. /\ held' \subseteq held
        /\ open' \in [Loops -> BOOLEAN] /\ epoch' \in [Loops -> Nat] /\ drops' \in Nat
    BY <2>1, <2>2, LostChannels
  <2>4. ready' \cup unacked' \subseteq ready \cup unacked
    BY <2>1 DEF Requeued
  <2> QED
    BY <1>1, <1>6, <1>7, <2>3, <2>4 DEF Drop, TypeInv, counters, history
<1>8. CASE BrokerRestart
  <2>1. held \in SUBSET Delivery /\ Buffered(Loops) \subseteq held /\ Loops \in SUBSET Loops
    BY DEF TypeInv, Buffered
  <2>2. /\ held' \subseteq held
        /\ open' \in [Loops -> BOOLEAN] /\ epoch' \in [Loops -> Nat] /\ drops' \in Nat
    BY <1>8, <2>1, LostChannels DEF BrokerRestart
  <2>3. ready' \cup unacked' \subseteq ready \cup unacked
    BY <1>8 DEF BrokerRestart, Kept
  <2>4. queue' \in BOOLEAN /\ bindings' \in {"none", "exchange", "bound"}
    BY <1>8 DEF BrokerRestart, IsDurable, TypeInv, Setup
  <2> QED
    BY <1>1, <1>6, <1>8, <2>2, <2>3, <2>4 DEF BrokerRestart, TypeInv, counters, history
<1>9. ASSUME NEW l \in Loops, Reopen(l)  PROVE TypeInv'
  BY <1>1, <1>9 DEF Reopen, TypeInv, Copies, broker, process, counters, history
<1>10. ASSUME ProcessEnds  PROVE TypeInv'
  <2>1. /\ held' \subseteq held /\ ready' \cup unacked' \subseteq ready \cup unacked
    BY <1>10, ProcessEnded
  <2> QED
    BY <1>1, <1>6, <1>10, <2>1, ProcessEnded DEF TypeInv, counters, history
<1>11. CASE QueueHandle
  BY <1>1, <1>11 DEF QueueHandle, TypeInv, Copies, Loops, broker, channels, counters, history
<1>12. CASE DeclareExchange
  BY <1>1, <1>12 DEF DeclareExchange, TypeInv, Copies, Loops, channels, counters, history
<1>13. CASE BindAndConsume
  BY <1>1, <1>13 DEF BindAndConsume, TypeInv, Copies, Loops, counters, history
<1>14. CASE StartMain
  BY <1>1, <1>14 DEF StartMain, TypeInv, Copies, Loops, counters, history
<1>15. ASSUME NEW d \in held, NEW p \in Places, held' \subseteq Moved(d, p),
              ready' \cup unacked' \subseteq ready \cup unacked
      PROVE  /\ held' \in SUBSET Delivery /\ IsFiniteSet(held') /\ Copies' \subseteq Served
             /\ ready' \in SUBSET Copy /\ unacked' \in SUBSET Copy
  <2>1. IsFiniteSet(held')
    BY <1>15, MovedDelivery, FS_Subset
  <2>2. Copies' \subseteq Copies
    BY <1>15, MovedDelivery DEF Copies
  <2>3. held' \in SUBSET Delivery
    BY <1>15, MovedDelivery DEF TypeInv
  <2> QED  BY <1>15, <2>1, <2>2, <2>3 DEF TypeInv
<1>16. ASSUME NEW d \in held, Receive(d)  PROVE TypeInv'
  BY <1>1, <1>15, <1>16 DEF Receive, TypeInv, Places, broker, channels, counters, history
<1>17. ASSUME NEW d \in held, Spawn(d)  PROVE TypeInv'
  BY <1>1, <1>15, <1>17, HeldFields
  DEF Spawn, Taken, TypeInv, Places, AtWork, broker, channels, counters, history
<1>18. ASSUME NEW d \in held, SpawnUndecodable(d)  PROVE TypeInv'
  BY <1>1, <1>6, <1>18 DEF SpawnUndecodable, TypeInv, broker, channels, counters, history
<1>19. ASSUME NEW d \in held, Reply(d)  PROVE TypeInv'
  <2>1. d.copy.msg \in Msgs /\ d.copy.cur \in Int
    BY HeldFields
  <2>2. tried' \in [Msgs -> SUBSET Int] /\ failedAt' \in [Msgs -> Int]
    BY <1>19, <2>1 DEF Reply, TypeInv
  <2>3. held' = Moved(d, "ok") \/ held' = Moved(d, "failed")
    BY <1>19 DEF Reply
  <2> QED
    BY <1>1, <1>15, <1>19, <2>2, <2>3
    DEF Reply, TypeInv, Places, AtWork, broker, channels, counters
<1>20. ASSUME NEW d \in held, ReplyNull(d)  PROVE TypeInv'
  BY <1>10, <1>20 DEF ReplyNull
<1>21. ASSUME NEW d \in held, AckFirst(d)  PROVE TypeInv'
  BY <1>1, <1>15, <1>21
  DEF AckFirst, Acknowledged, TypeInv, Places, AtWork, channels, counters, history
<1>22. ASSUME NEW d \in held, CountAcked(d)  PROVE TypeInv'
  <2>1. /\ Counted(success, d.copy.msg) \in [Msgs -> Nat]
        /\ Counted(failure, d.copy.msg) \in [Msgs -> Nat]
    BY HeldFields DEF Counted, TypeInv
  <2>2. success' \in [Msgs -> Nat] /\ failure' \in [Msgs -> Nat]
    BY <1>22, <2>1 DEF CountAcked, TypeInv, counters
  <2>3. slots' \in [Loops -> Int]
    BY <1>22, HeldFields DEF CountAcked, Released, TypeInv
  <2>4. held' \subseteq held
    BY <1>22 DEF CountAcked
  <2> QED
    BY <1>1, <1>6, <1>22, <2>2, <2>3, <2>4 DEF CountAcked, TypeInv, broker, channels, history
<1>23. ASSUME NEW d \in held, CountSuccess(d)  PROVE TypeInv'
  <2>1. success' \in [Msgs -> Nat]
    BY <1>23, HeldFields DEF CountSuccess, Counted, TypeInv
  <2> QED
    BY <1>1, <1>15, <1>23, <2>1
    DEF CountSuccess, TypeInv, Places, AtWork, broker, channels, history
<1>24. ASSUME NEW d \in held, CountFailure(d)  PROVE TypeInv'
  <2>1. failure' \in [Msgs -> Nat]
    BY <1>24, HeldFields DEF CountFailure, Counted, TypeInv
  <2> QED
    BY <1>1, <1>15, <1>24, <2>1
    DEF CountFailure, TypeInv, Places, AtWork, broker, channels, history
<1>25. ASSUME NEW d \in held, Publish(d)  PROVE TypeInv'
  <2>1. DelayFor(d.copy) > 0 /\ "settled" \in Places
    BY <1>25 DEF Publish, Retries, Places, AtWork
  <2>2. Child(d) \in Served
    BY <2>1, ChildFields
  <2>3. held' = Moved(d, "settled") /\ UNCHANGED unacked
        /\ (ready' = ready \/ ready' = ready \cup {Child(d)})
    BY <1>25 DEF Publish
  <2>4. Copies' \subseteq Copies \cup {Child(d)}
    BY <2>1, <2>3, MovedDelivery DEF Copies
  <2>5. held' \in SUBSET Delivery /\ IsFiniteSet(held')
    BY <2>1, <2>3, MovedDelivery DEF TypeInv
  <2> QED
    BY <1>1, <1>25, <2>2, <2>3, <2>4, <2>5
    DEF Publish, TypeInv, Served, channels, counters, history
<1>26. ASSUME NEW d \in held, PublishNowhere(d)  PROVE TypeInv'
  <2> DEFINE L == {d.copy.loop}
  <2>1. L \in SUBSET Loops /\ "settled" \in Places /\ d.at = "failed"
    BY <1>26, HeldFields DEF PublishNowhere, Retries, Places, AtWork
  <2>2. Moved(d, "settled") \in SUBSET Delivery /\ Buffered(L) \subseteq Moved(d, "settled")
    BY <2>1, MovedDelivery DEF TypeInv, Buffered
  <2>3. ChannelsLost(L, Moved(d, "settled")) /\ Requeued(L)
    BY <1>26 DEF PublishNowhere
  <2> HIDE DEF L
  <2>4. /\ held' \subseteq Moved(d, "settled")
        /\ open' \in [Loops -> BOOLEAN] /\ epoch' \in [Loops -> Nat] /\ drops' \in Nat
    BY <2>1, <2>2, <2>3, LostChannels
  <2>5. ready' \cup unacked' \subseteq ready \cup unacked
    BY <2>3 DEF Requeued
  <2> QED
    BY <1>1, <1>15, <1>26, <2>1, <2>4, <2>5 DEF PublishNowhere, TypeInv, counters, history
<1>27. ASSUME NEW d \in held, Ack(d)  PROVE TypeInv'
  BY <1>1, <1>6, <1>27, HeldFields DEF Ack, Acknowledged, Released, TypeInv, channels, counters, history
<1>28. CASE UNCHANGED <<vars, setup>>
  BY <1>28
  DEF TypeInv, Copies, vars, broker, channels, process, counters, history
<1> QED
  BY <1>2, <1>3, <1>4, <1>5, <1>7, <1>8, <1>9, <1>10, <1>11, <1>12, <1>13, <1>14, <1>16,
     <1>17, <1>18, <1>19, <1>20, <1>21, <1>22, <1>23, <1>24, <1>25, <1>26, <1>27, <1>28
  DEF Step, Next, Dispatching, Stop

(* Every reachable state has the types the declarations of the code give   *)
(* it, the deliveries in memory are finitely many, and no copy of the main *)
(* queue has served a delay.                                               *)
THEOREM TypeCorrect == Spec => []TypeInv
<1> QED  BY TypeInvInit, TypeInvNext, PTL DEF Spec, Step
-----------------------------------------------------------------------------
(***************************************************************************)
(* Lineage.  The code has no identity for copies and deliveries; that the  *)
(* path of channel epochs is one has to be proved.  A copy's path ends     *)
(* with the epoch of the delivery whose failure published it: Extends says *)
(* that of a path further down.                                            *)
(***************************************************************************)
Extends(q, p, n) ==
  /\ Len(p) < Len(q)
  /\ \A i \in 1..Len(p) : q[i] = p[i]
  /\ q[Len(p) + 1] = n

(* Paths of deliveries, one step longer.                                   *)
LEMMA ExtendsAppend ==
  ASSUME NEW p \in Seq(Nat), NEW n \in Nat
  PROVE  /\ Extends(Append(p, n), p, n)
         /\ \A j : ~Extends(p, p, j)
         /\ \A q \in Seq(Nat), j \in Nat :
              /\ Extends(q, Append(p, n), j) => Extends(q, p, n)
              /\ Extends(Append(p, n), q, j) => Extends(p, q, j) \/ (q = p /\ j = n)
<1>1. /\ Append(p, n) \in Seq(Nat) /\ Len(Append(p, n)) = Len(p) + 1 /\ Len(p) \in Nat
      /\ \A i \in 1..Len(p) : Append(p, n)[i] = p[i]
      /\ Append(p, n)[Len(p) + 1] = n
  OBVIOUS
<1> DEFINE r == Append(p, n)
<1> HIDE DEF r
<1>2. Extends(r, p, n) /\ \A j : ~Extends(p, p, j)
  BY <1>1 DEF r, Extends
<1>3. ASSUME NEW q \in Seq(Nat), NEW j \in Nat, Extends(q, r, j)
      PROVE  Extends(q, p, n)
  <2>1. Len(q) \in Nat /\ Len(p) < Len(q)
    BY <1>1, <1>3 DEF r, Extends
  <2>2. \A i \in 1..(Len(p) + 1) : q[i] = r[i]
    BY <1>1, <1>3 DEF r, Extends
  <2>3. q[Len(p) + 1] = n /\ \A i \in 1..Len(p) : q[i] = p[i]
    BY <1>1, <2>2 DEF r
  <2> QED  BY <2>1, <2>3 DEF Extends
<1>4. ASSUME NEW q \in Seq(Nat), NEW j \in Nat, Extends(r, q, j)
      PROVE  Extends(p, q, j) \/ (q = p /\ j = n)
  <2>1. Len(q) \in Nat /\ Len(q) <= Len(p) /\ \A i \in 1..Len(q) : q[i] = p[i]
    BY <1>1, <1>4 DEF r, Extends
  <2>2. CASE Len(q) < Len(p)
    <3>1. p[Len(q) + 1] = j
      BY <1>1, <1>4, <2>1, <2>2 DEF r, Extends
    <3> QED  BY <2>1, <2>2, <3>1 DEF Extends
  <2>3. CASE Len(q) = Len(p)
    <3>1. q = p
      BY <2>1, <2>3
    <3> QED  BY <1>1, <1>4, <2>3, <3>1 DEF r, Extends
  <2> QED  BY <1>1, <2>1, <2>2, <2>3
<1> QED  BY <1>2, <1>3, <1>4 DEF r

(* Who descends from a descendant descends.                                *)
LEMMA ExtendsTransitive ==
  ASSUME NEW p \in Seq(Nat), NEW q \in Seq(Nat), NEW r \in Seq(Nat),
         NEW n \in Nat, NEW j \in Nat, Extends(r, q, j), Extends(q, p, n)
  PROVE  Extends(r, p, n)
<1>1. Len(p) \in Nat /\ Len(q) \in Nat /\ Len(r) \in Nat
  OBVIOUS
<1>2. Len(p) < Len(q) /\ Len(q) < Len(r) /\ Len(p) + 1 \in 1..Len(q)
  BY <1>1 DEF Extends
<1> QED  BY <1>1, <1>2 DEF Extends

(* Copy k stems from the delivery of copy c by channel n of its loop.      *)
Descends(k, c, n) == k.msg = c.msg /\ Extends(k.path, c.path, n)

Unsettled == {"buffered", "received", "post", "ok", "failed", "acked"}

(* Copies and deliveries are told apart, a delivery has no descendants     *)
(* before its dispatch is settled, and a copy that waits in the broker     *)
(* only descendants by channels that are lost.                             *)
LineageInv ==
  /\ \A c \in Copies : c.msg \in pushed
  /\ \A c, k \in Copies : c.msg = k.msg /\ c.path = k.path => c = k
  /\ \A d \in held : d.epoch <= epoch[d.copy.loop]
  /\ \A d, e \in held : d.copy = e.copy /\ d.epoch = e.epoch => d = e
  /\ \A d \in held : d.at \in Unsettled =>
       \A k \in Copies : ~Descends(k, d.copy, d.epoch)
  /\ \A c \in ready \cup unacked, k \in Copies, n \in Nat :
       Descends(k, c, n) => n <= epoch[c.loop] /\ (c \in ready => n < epoch[c.loop])

(* Custody.  Of the deliveries of one copy only that of the present        *)
(* channel can be acknowledged, and while the copy is unacknowledged it is *)
(* there.                                                                  *)
Custody(S) ==
  /\ ready \cap unacked = {}
  /\ \A d \in S : Live(d) => d.copy \notin ready /\ (d.copy \in unacked <=> d.at # "acked")
  /\ \A c \in unacked : Decodes(c) =>
       \E d \in S : Live(d) /\ d.at # "acked" /\ d.copy = c

CustodyInv == Custody(held)

(* The steps that make neither a copy nor a delivery.                      *)
OnlyMoves ==
  /\ ready' \cup unacked' \subseteq ready \cup unacked
  /\ \A c \in ready' : c \in ready \/ epoch'[c.loop] > epoch[c.loop]
  /\ \A l \in Loops : epoch'[l] \in Nat /\ epoch'[l] >= epoch[l]
  /\ \/ held' \subseteq held
     \/ \E d \in held, p \in Places :
          /\ held' \subseteq Moved(d, p)
          /\ p \in Unsettled => d.at \in Unsettled
  /\ UNCHANGED pushed

Publishes(d) == Publish(d) /\ open[d.copy.loop]

(* Four kinds of steps: a message enters the broker, a copy is delivered,  *)
(* one is published again, or copies only move or vanish.                  *)
LEMMA StepKinds ==
  ASSUME TypeInv, Step
  PROVE  \/ \E m \in Msgs : Push(m) \/ PushForeign(m)
         \/ \E c \in ready : Deliver(c)
         \/ \E d \in held : Publishes(d)
         \/ OnlyMoves
<1> USE DEF OnlyMoves
<1>1. ASSUME UNCHANGED epoch  PROVE \A l \in Loops : epoch'[l] \in Nat /\ epoch'[l] >= epoch[l]
  BY <1>1 DEF TypeInv
<1>2. ASSUME UNCHANGED <<ready, unacked, epoch, pushed>>,
             \/ held' \subseteq held
             \/ \E d \in held, p \in Places :
                  /\ held' \subseteq Moved(d, p)
                  /\ p \in Unsettled => d.at \in Unsettled
      PROVE  OnlyMoves
  BY <1>1, <1>2
<1>3. CASE Tick \/ QueueHandle \/ DeclareExchange \/ BindAndConsume \/ StartMain
           \/ (\E l \in Loops : Reopen(l)) \/ UNCHANGED <<vars, setup>>
  BY <1>2, <1>3 DEF Tick, QueueHandle, DeclareExchange, BindAndConsume, StartMain, Reopen,
     vars, broker, channels, process, counters, history
<1>4. ASSUME NEW c \in ready, Unrouted(c)  PROVE OnlyMoves
  BY <1>1, <1>4 DEF Unrouted, channels, process, history
<1>5. ASSUME NEW L \in SUBSET Loops, Requeued(L),
             \A l \in L : epoch'[l] = epoch[l] + 1,
             \A l \in Loops \ L : epoch'[l] = epoch[l]
      PROVE  /\ ready' \cup unacked' \subseteq ready \cup unacked
             /\ \A c \in ready' : c \in ready \/ epoch'[c.loop] > epoch[c.loop]
             /\ \A l \in Loops : epoch'[l] \in Nat /\ epoch'[l] >= epoch[l]
  BY <1>5 DEF TypeInv, Requeued
<1>6. ASSUME NEW L \in SUBSET Loops, Drop(L)  PROVE OnlyMoves
  <2>1. held \in SUBSET Delivery /\ Buffered(L) \subseteq held
    BY DEF TypeInv, Buffered
  <2>2. ChannelsLost(L, held) /\ Requeued(L) /\ UNCHANGED pushed
    BY <1>6 DEF Drop, history
  <2>3. /\ held' \subseteq held
        /\ \A l \in L : epoch'[l] = epoch[l] + 1
        /\ \A l \in Loops \ L : epoch'[l] = epoch[l]
    BY <2>1, <2>2, LostChannels
  <2> QED  BY <1>5, <2>2, <2>3
<1>7. ASSUME \A l \in Loops : epoch'[l] = epoch[l] + 1,
             ready' \subseteq ready \cup unacked, unacked' = {}, held' \subseteq held,
             UNCHANGED pushed
      PROVE  OnlyMoves
  <2>1. \A c \in ready \cup unacked : c.loop \in Loops
    BY DEF TypeInv, Copy
  <2> QED  BY <1>7, <2>1 DEF TypeInv
<1>8. CASE BrokerRestart
  <2>1. held \in SUBSET Delivery /\ Buffered(Loops) \subseteq held /\ Loops \in SUBSET Loops
    BY DEF TypeInv, Buffered
  <2>2. ChannelsLost(Loops, held) /\ ready' = Kept /\ unacked' = {} /\ UNCHANGED pushed
    BY <1>8 DEF BrokerRestart, history
  <2>3. held' \subseteq held /\ \A l \in Loops : epoch'[l] = epoch[l] + 1
    BY <2>1, <2>2, LostChannels
  <2> QED  BY <1>7, <2>2, <2>3 DEF Kept
<1>9. CASE ProcessEnds
  BY <1>7, <1>9, ProcessEnded DEF history
<1>10. ASSUME NEW d \in held, Receive(d) \/ Spawn(d) \/ Reply(d)  PROVE OnlyMoves
  <2>1. \E p \in Places : held' = Moved(d, p) /\ d.at \in Unsettled
    BY <1>10 DEF Receive, Spawn, Reply, Places, AtWork, Unsettled
  <2> QED  BY <1>2, <1>10, <2>1 DEF Receive, Spawn, Reply, broker, channels, history
<1>11. ASSUME NEW d \in held, CountSuccess(d) \/ CountFailure(d)  PROVE OnlyMoves
  <2>1. held' = Moved(d, "settled") /\ "settled" \in Places /\ "settled" \notin Unsettled
    BY <1>11 DEF CountSuccess, CountFailure, Places, AtWork, Unsettled
  <2> QED  BY <1>2, <1>11, <2>1 DEF CountSuccess, CountFailure, broker, channels, history
<1>12. ASSUME NEW d \in held, AckFirst(d)  PROVE OnlyMoves
  <2>1. held' = Moved(d, "acked") /\ "acked" \in Places /\ d.at \in Unsettled
    BY <1>12 DEF AckFirst, Places, AtWork, Unsettled
  <2>2. ready' = ready /\ unacked' \subseteq unacked /\ UNCHANGED <<epoch, pushed>>
    BY <1>12 DEF AckFirst, Acknowledged, channels, history
  <2> QED  BY <1>1, <2>1, <2>2
<1>13. ASSUME NEW d \in held, SpawnUndecodable(d) \/ CountAcked(d)  PROVE OnlyMoves
  BY <1>2, <1>13 DEF SpawnUndecodable, CountAcked, broker, channels, history
<1>14. ASSUME NEW d \in held, Ack(d)  PROVE OnlyMoves
  <2>1. /\ ready' = ready /\ unacked' \subseteq unacked /\ held' \subseteq held
        /\ UNCHANGED <<epoch, pushed>>
    BY <1>14 DEF Ack, Acknowledged, channels, history
  <2> QED  BY <1>1, <2>1
<1>15. ASSUME NEW d \in held, Publish(d), ~open[d.copy.loop]  PROVE OnlyMoves
  <2>1. held' = Moved(d, "settled") /\ "settled" \in Places /\ "settled" \notin Unsettled
    BY <1>15 DEF Publish, Places, AtWork, Unsettled
  <2> QED  BY <1>2, <1>15, <2>1 DEF Publish, channels, history
<1>16. ASSUME NEW d \in held, PublishNowhere(d)  PROVE OnlyMoves
  <2> DEFINE L == {d.copy.loop}
  <2>1. /\ L \in SUBSET Loops /\ d.at = "failed"
        /\ "settled" \in Places /\ "settled" \notin Unsettled
    BY <1>16, HeldFields DEF PublishNowhere, Retries, Places, AtWork, Unsettled
  <2>2. Moved(d, "settled") \in SUBSET Delivery /\ Buffered(L) \subseteq Moved(d, "settled")
    BY <2>1, MovedDelivery DEF TypeInv, Buffered
  <2>3. ChannelsLost(L, Moved(d, "settled")) /\ Requeued(L) /\ UNCHANGED pushed
    BY <1>16 DEF PublishNowhere, history
  <2> HIDE DEF L
  <2>4. /\ held' \subseteq Moved(d, "settled")
        /\ \A l \in L : epoch'[l] = epoch[l] + 1
        /\ \A l \in Loops \ L : epoch'[l] = epoch[l]
    BY <2>1, <2>2, <2>3, LostChannels
  <2> QED  BY <1>5, <2>1, <2>3, <2>4
<1> QED
  BY <1>3, <1>4, <1>6, <1>8, <1>9, <1>10, <1>11, <1>12, <1>13, <1>14, <1>15, <1>16
  DEF Step, Next, Dispatching, Stop, ReplyNull, Publishes

(* The invariant holds at first.                                           *)
LEMMA LineageInvInit == Init => LineageInv /\ CustodyInv
BY DEF Init, LineageInv, CustodyInv, Custody, Copies

(* A step of the last kind makes no copy.                                  *)
LEMMA CopiesOnlyMove ==
  ASSUME TypeInv, OnlyMoves
  PROVE  Copies' \subseteq Copies
<1>1. \A e \in held' : e.copy \in Copies
  BY MovedDelivery DEF OnlyMoves, Copies
<1> QED  BY <1>1 DEF OnlyMoves, Copies

(* No lineage is disturbed.                                                *)
LEMMA LineageMoves ==
  ASSUME TypeInv, LineageInv, OnlyMoves
  PROVE  LineageInv'
<1>1. Copies' \subseteq Copies /\ pushed' = pushed
  BY CopiesOnlyMove DEF OnlyMoves
<1>2. \A e \in held' : \E d \in held :
        /\ e.copy = d.copy /\ e.epoch = d.epoch
        /\ e.at \in Unsettled => d.at \in Unsettled
  BY MovedDelivery DEF OnlyMoves
<1>3. \A e, f \in held' : e.copy = f.copy /\ e.epoch = f.epoch => e = f
  <2>1. CASE held' \subseteq held
    BY <2>1 DEF LineageInv
  <2>2. ASSUME NEW d \in held, NEW p \in Places, held' \subseteq Moved(d, p)
        PROVE  \A e, f \in held' : e.copy = f.copy /\ e.epoch = f.epoch => e = f
    BY <2>2, MovedDelivery DEF LineageInv
  <2> QED  BY <2>1, <2>2 DEF OnlyMoves
<1>4. \A d \in held' : d.epoch <= epoch'[d.copy.loop]
  <2>1. \A d \in held : d.epoch \in Nat /\ d.copy.loop \in Loops /\ epoch[d.copy.loop] \in Nat
    BY HeldFields DEF TypeInv
  <2>2. \A d \in held : d.epoch <= epoch'[d.copy.loop]
    BY <2>1 DEF LineageInv, OnlyMoves
  <2> QED  BY <1>2, <2>2
<1>5. ASSUME NEW d \in held', d.at \in Unsettled, NEW k \in Copies'
      PROVE  ~Descends(k, d.copy, d.epoch)
  BY <1>1, <1>2, <1>5 DEF LineageInv
<1>6. ASSUME NEW c \in ready' \cup unacked', NEW k \in Copies', NEW n \in Nat,
             Descends(k, c, n)
      PROVE  n <= epoch'[c.loop] /\ (c \in ready' => n < epoch'[c.loop])
  <2>1. c \in ready \cup unacked /\ c.loop \in Loops /\ k \in Copies
    BY <1>1 DEF OnlyMoves, TypeInv, Copy
  <2>2. n <= epoch[c.loop] /\ (c \in ready => n < epoch[c.loop])
    BY <1>6, <2>1 DEF LineageInv
  <2>3. /\ epoch[c.loop] \in Nat /\ epoch'[c.loop] \in Nat
        /\ epoch'[c.loop] >= epoch[c.loop]
        /\ c \in ready' => c \in ready \/ epoch'[c.loop] > epoch[c.loop]
    BY <2>1 DEF OnlyMoves, TypeInv
  <2> QED  BY <2>2, <2>3
<1> QED  BY <1>1, <1>3, <1>4, <1>5, <1>6 DEF LineageInv

(* A retry's path is new: no copy descends from the delivery that is being *)
(* settled.                                                                *)
LEMMA ChildIsNew ==
  ASSUME TypeInv, LineageInv, NEW d \in held, Retries(d)
  PROVE  /\ \A c \in Copies : c.msg = Child(d).msg => c.path # Child(d).path
         /\ Child(d) \notin Copies
         /\ Descends(Child(d), d.copy, d.epoch)
         /\ \A c \in Copies, n \in Nat :
              /\ ~Descends(c, Child(d), n)
              /\ Descends(Child(d), c, n) => Descends(d.copy, c, n) \/ (c = d.copy /\ n = d.epoch)
         /\ \A n : ~Descends(Child(d), Child(d), n)
<1>1. DelayFor(d.copy) > 0 /\ d.at \in Unsettled
  BY DEF Retries, Unsettled
<1>2. /\ Child(d).msg = d.copy.msg /\ Child(d).path = Append(d.copy.path, d.epoch)
      /\ d.copy.path \in Seq(Nat) /\ d.epoch \in Nat /\ d.copy \in Copies
  BY <1>1, ChildFields, HeldFields
<1>3. \A c \in Copies : c.path \in Seq(Nat) /\ ~Descends(c, d.copy, d.epoch)
  BY <1>1, CopyFields DEF LineageInv
<1>4. Extends(Child(d).path, d.copy.path, d.epoch)
  BY <1>2, ExtendsAppend
<1>5. ASSUME NEW c \in Copies, c.msg = Child(d).msg  PROVE c.path # Child(d).path
  BY <1>2, <1>3, <1>4, <1>5 DEF Descends
<1>6. Descends(Child(d), d.copy, d.epoch)
  BY <1>2, <1>4 DEF Descends
<1>7. ASSUME NEW c \in Copies, NEW n \in Nat
      PROVE  /\ ~Descends(c, Child(d), n)
             /\ Descends(Child(d), c, n) => Descends(d.copy, c, n) \/ (c = d.copy /\ n = d.epoch)
  <2>1. /\ Extends(c.path, Child(d).path, n) => Extends(c.path, d.copy.path, d.epoch)
        /\ Extends(Child(d).path, c.path, n) =>
             Extends(d.copy.path, c.path, n) \/ (c.path = d.copy.path /\ n = d.epoch)
    BY <1>2, <1>3, ExtendsAppend
  <2> QED  BY <1>2, <1>3, <2>1 DEF Descends, LineageInv
<1>8. ASSUME NEW n  PROVE ~Descends(Child(d), Child(d), n)
  <2>1. Child(d).path \in Seq(Nat)
    BY <1>2
  <2> QED  BY <2>1 DEF Descends, Extends
<1> QED  BY <1>5, <1>6, <1>7, <1>8

(* Every step keeps it.                                                    *)
LEMMA LineageInvNext == TypeInv /\ LineageInv /\ CustodyInv /\ Step => LineageInv'
<1> SUFFICES ASSUME TypeInv, LineageInv, CustodyInv, Step  PROVE LineageInv'
  OBVIOUS
<1>1. ASSUME NEW m \in Msgs, Push(m) \/ PushForeign(m)  PROVE LineageInv'
  <2>1. PICK c \in Served : c.msg = m /\ ready' = ready \cup {c}
    BY <1>1, PushedCopy
  <2>2. m \notin pushed /\ pushed' = pushed \cup {m} /\ UNCHANGED <<unacked, held, epoch>>
    BY <1>1 DEF Push, PushForeign, channels, process
  <2>3. Copies' = Copies \cup {c}
    BY <2>1, <2>2 DEF Copies
  <2>4. \A k \in Copies : k.msg # m
    BY <2>2 DEF LineageInv
  <2>5. \A n : ~Descends(c, c, n)
    <3>1. c.path \in Seq(Nat)
      BY DEF Served, Copy
    <3> QED  BY <3>1 DEF Descends, Extends
  <2>6. \A k \in Copies : \A n : ~Descends(k, c, n) /\ ~Descends(c, k, n)
    BY <2>1, <2>4 DEF Descends
  <2>7. \A d \in held : d.copy \in Copies
    BY DEF Copies
  <2> QED
    BY <2>1, <2>2, <2>3, <2>4, <2>5, <2>6, <2>7 DEF LineageInv, Copies
<1>2. ASSUME NEW c \in ready, Deliver(c)  PROVE LineageInv'
  <2> DEFINE d == [copy |-> c, epoch |-> epoch[c.loop], at |-> "buffered"]
  <2>1. c \in Copies /\ c.loop \in Loops /\ epoch[c.loop] \in Nat
    BY DEF TypeInv, Copy, Copies
  <2>2. d.copy = c /\ d.epoch = epoch[c.loop]
    OBVIOUS
  <2>3. /\ held' = held \cup {d} /\ ready' = ready \ {c} /\ unacked' = unacked \cup {c}
        /\ UNCHANGED <<epoch, pushed>>
    BY <1>2 DEF Deliver, channels, history
  <2> HIDE DEF d
  <2>4. Copies' \subseteq Copies
    BY <2>1, <2>2, <2>3 DEF Copies
  <2>5. \A e \in held : e.copy = c => e.epoch # d.epoch
    BY <2>2 DEF CustodyInv, Custody, Live
  <2>6. \A k \in Copies : ~Descends(k, d.copy, d.epoch)
    BY <2>1, <2>2 DEF LineageInv
  <2>7. d.epoch <= epoch[d.copy.loop]
    BY <2>1, <2>2
  <2> QED
    BY <2>1, <2>2, <2>3, <2>4, <2>5, <2>6, <2>7 DEF LineageInv
<1>3. ASSUME NEW d \in held, Publishes(d)  PROVE LineageInv'
  <2> DEFINE c == Child(d)
             e == MovedTo(d, "settled")
  <2>1. /\ Retries(d) /\ "settled" \in Places /\ "settled" \notin Unsettled
        /\ d.at \in Unsettled
    BY <1>3 DEF Publishes, Publish, Retries, Places, AtWork, Unsettled
  <2>2. /\ c.msg = d.copy.msg /\ c \notin Copies
        /\ \A k \in Copies : k.msg = c.msg => k.path # c.path
        /\ \A k \in Copies, n \in Nat :
             /\ ~Descends(k, c, n)
             /\ Descends(c, k, n) => Descends(d.copy, k, n) \/ (k = d.copy /\ n = d.epoch)
        /\ \A n : ~Descends(c, c, n)
    BY <2>1, ChildIsNew, ChildFields DEF Retries
  <2>3. e.copy = d.copy /\ e.epoch = d.epoch /\ e.at \notin Unsettled
    BY <2>1, MovedDelivery
  <2>4. /\ held' = (held \ {d}) \cup {e} /\ ready' = ready \cup {c}
        /\ UNCHANGED <<unacked, epoch, pushed>>
    BY <1>3, <2>1, MovedDelivery DEF Publishes, Publish, channels, history
  <2> HIDE DEF c, e
  <2>5. \A k \in Copies' : k \in Copies \/ k = c
    BY <2>3, <2>4 DEF Copies
  <2>6. \A f \in held : /\ f.copy \in Copies /\ f.epoch \in Nat /\ f.copy.loop \in Loops
                        /\ epoch[f.copy.loop] \in Nat
    BY HeldFields DEF TypeInv
  <2>7. \A k \in Copies' : k.msg \in pushed'
    BY <2>2, <2>4, <2>5, <2>6 DEF LineageInv
  <2>8. \A k, j \in Copies' : k.msg = j.msg /\ k.path = j.path => k = j
    BY <2>2, <2>5 DEF LineageInv
  <2>9. \A f \in held' : f.epoch <= epoch'[f.copy.loop]
    BY <2>3, <2>4 DEF LineageInv
  <2>10. \A f, g \in held' : f.copy = g.copy /\ f.epoch = g.epoch => f = g
    BY <2>3, <2>4 DEF LineageInv
  <2>11. ASSUME NEW f \in held', f.at \in Unsettled, NEW k \in Copies',
                Descends(k, f.copy, f.epoch)
         PROVE  FALSE
    <3>1. f \in held /\ f # d
      BY <2>3, <2>4, <2>11
    <3>2. k = c
      BY <2>5, <2>11, <3>1 DEF LineageInv
    <3>3. \/ Descends(d.copy, f.copy, f.epoch)
          \/ f.copy = d.copy /\ f.epoch = d.epoch
      BY <2>2, <2>6, <2>11, <3>1, <3>2
    <3> QED  BY <2>6, <2>11, <3>1, <3>3 DEF LineageInv
  <2>12. ASSUME NEW b \in ready' \cup unacked', NEW k \in Copies', NEW n \in Nat,
                Descends(k, b, n)
         PROVE  n <= epoch'[b.loop] /\ (b \in ready' => n < epoch'[b.loop])
    <3>1. b # c /\ b \in ready \cup unacked /\ b \in Copies /\ (b \in ready' => b \in ready)
      BY <2>2, <2>4, <2>5, <2>12 DEF Copies
    <3>2. CASE k \in Copies
      BY <2>4, <2>12, <3>1, <3>2 DEF LineageInv
    <3>3. CASE k = c
      <4>1. CASE Descends(d.copy, b, n)
        BY <2>4, <2>6, <3>1, <4>1 DEF LineageInv
      <4>2. CASE b = d.copy /\ n = d.epoch
        <5>1. d.epoch <= epoch[d.copy.loop] /\ (d.copy \in ready => d.epoch # epoch[d.copy.loop])
          BY DEF LineageInv, CustodyInv, Custody, Live
        <5> QED  BY <2>4, <2>6, <3>1, <4>2, <5>1
      <4> QED  BY <2>2, <2>12, <3>1, <3>3, <4>1, <4>2
    <3> QED  BY <2>5, <3>2, <3>3
  <2> QED  BY <2>7, <2>8, <2>9, <2>10, <2>11, <2>12 DEF LineageInv
<1> QED  BY <1>1, <1>2, <1>3, StepKinds, LineageMoves

(* A goroutine that goes on, without acknowledging, keeps its custody of   *)
(* the copy.                                                               *)
LEMMA CustodyMoved ==
  ASSUME TypeInv, CustodyInv, NEW d \in held, NEW p \in Places,
         d.at # "acked", p # "acked"
  PROVE  Custody(Moved(d, p))
<1> DEFINE e == MovedTo(d, p)
<1>1. /\ Moved(d, p) = (held \ {d}) \cup {e}
      /\ e.copy = d.copy /\ e.at = p /\ e.epoch = d.epoch
  BY MovedDelivery
<1>2. Live(e) <=> Live(d)
  BY <1>1 DEF Live
<1> HIDE DEF e
<1> QED  BY <1>1, <1>2 DEF CustodyInv, Custody

(* Nothing but a delivery's place changes.                                 *)
LEMMA CustodyKept ==
  ASSUME Custody(held'), UNCHANGED <<ready, unacked, epoch>>
  PROVE  CustodyInv'
BY DEF CustodyInv, Custody, Live

(* What the lost channels delivered is ready again.                        *)
LEMMA CustodyLost ==
  ASSUME TypeInv, NEW L \in SUBSET Loops, NEW S \in SUBSET Delivery,
         Buffered(L) \subseteq S, \A d \in S : d.epoch <= epoch[d.copy.loop],
         Custody(S), ChannelsLost(L, S), Requeued(L),
         \A d \in S : d.at = "buffered" => d \in held
  PROVE  CustodyInv'
<1>1. /\ S \ Buffered(L) \subseteq held' /\ held' \subseteq S
      /\ \A l \in L : epoch'[l] = epoch[l] + 1
      /\ \A l \in Loops \ L : epoch'[l] = epoch[l]
  BY LostChannels
<1>2. \A d \in S : d.copy.loop \in Loops /\ d.epoch \in Nat /\ epoch[d.copy.loop] \in Nat
  BY DEF Delivery, Copy, TypeInv
<1>3. ASSUME NEW d \in S  PROVE Live(d)' <=> Live(d) /\ d.copy.loop \notin L
  BY <1>1, <1>2 DEF Live
<1>4. /\ ready' = ready \cup {c \in unacked : c.loop \in L}
      /\ unacked' = {c \in unacked : c.loop \notin L}
  BY DEF Requeued
<1>5. ready' \cap unacked' = {}
  BY <1>4 DEF Custody
<1>6. ASSUME NEW d \in held', Live(d)'
      PROVE  d.copy \notin ready' /\ (d.copy \in unacked' <=> d.at # "acked")
  BY <1>1, <1>3, <1>4, <1>6 DEF Custody
<1>7. ASSUME NEW c \in unacked', Decodes(c)
      PROVE  \E d \in held' : Live(d)' /\ d.at # "acked" /\ d.copy = c
  <2>1. PICK d \in S : Live(d) /\ d.at # "acked" /\ d.copy = c
    BY <1>4, <1>7 DEF Custody
  <2>2. c.loop \notin L /\ d \notin Buffered(L)
    BY <1>4, <2>1 DEF Buffered
  <2> QED  BY <1>1, <1>3, <2>1, <2>2
<1> QED  BY <1>5, <1>6, <1>7 DEF CustodyInv, Custody, Decodes

(* All channels are lost with their deliveries.                            *)
LEMMA CustodyEnds ==
  ASSUME TypeInv, LineageInv, held' \subseteq held, unacked' = {},
         \A l \in Loops : epoch'[l] = epoch[l] + 1
  PROVE  CustodyInv'
<1>1. \A d \in held : d.epoch \in Nat /\ d.copy.loop \in Loops /\ epoch[d.copy.loop] \in Nat
  BY HeldFields DEF TypeInv
<1>2. \A d \in held' : ~Live(d)'
  BY <1>1 DEF LineageInv, Live
<1> QED  BY <1>2 DEF CustodyInv, Custody

(* d.Ack: the copy is forgotten if the channel is the one that delivered   *)
(* it, and no other delivery of the copy is of that channel.               *)
LEMMA CustodyAcknowledged ==
  ASSUME TypeInv, LineageInv, CustodyInv, NEW d \in held,
         unacked' = Acknowledged(d), UNCHANGED <<ready, epoch>>,
         \/ held' = held \ {d}
         \/ held' = Moved(d, "acked")
  PROVE  CustodyInv'
<1> DEFINE e == MovedTo(d, "acked")
<1>1. "acked" \in Places
  BY DEF Places, AtWork
<1>2. /\ Moved(d, "acked") = (held \ {d}) \cup {e}
      /\ e.copy = d.copy /\ e.at = "acked" /\ e.epoch = d.epoch
  BY <1>1, MovedDelivery
<1>3. Live(e) <=> Live(d)
  BY <1>2 DEF Live
<1> HIDE DEF e
<1>4. ASSUME NEW f \in held \ {d}, Live(f), Live(d)  PROVE f.copy # d.copy
  BY <1>4 DEF Live, LineageInv
<1>5. \A f \in held : Live(f)' <=> Live(f)
  BY DEF Live
<1>6. Live(e)' <=> Live(e)
  BY DEF Live
<1>7. unacked' = IF Live(d) THEN unacked \ {d.copy} ELSE unacked
  BY DEF Acknowledged
<1>8. held \ {d} \subseteq held' /\ held' \subseteq (held \ {d}) \cup {e}
  BY <1>2
<1>9. ready' \cap unacked' = {}
  BY <1>7 DEF CustodyInv, Custody
<1>10. ASSUME NEW f \in held', Live(f)'
       PROVE  f.copy \notin ready' /\ (f.copy \in unacked' <=> f.at # "acked")
  <2>1. CASE f \in held \ {d}
    BY <1>4, <1>5, <1>7, <1>10, <2>1 DEF CustodyInv, Custody
  <2>2. CASE f = e
    BY <1>2, <1>3, <1>6, <1>7, <1>10, <2>2 DEF CustodyInv, Custody
  <2> QED  BY <1>8, <2>1, <2>2
<1>11. ASSUME NEW c \in unacked', Decodes(c)
       PROVE  \E f \in held' : Live(f)' /\ f.at # "acked" /\ f.copy = c
  <2>1. PICK f \in held : Live(f) /\ f.at # "acked" /\ f.copy = c
    BY <1>7, <1>11 DEF CustodyInv, Custody
  <2>2. f # d
    BY <1>7, <2>1
  <2> QED  BY <1>5, <1>8, <2>1, <2>2
<1> QED  BY <1>9, <1>10, <1>11 DEF CustodyInv, Custody, Decodes

(* Every step keeps it.                                                    *)
LEMMA CustodyInvNext == TypeInv /\ LineageInv /\ CustodyInv /\ Step => CustodyInv'
<1> SUFFICES ASSUME TypeInv, LineageInv, CustodyInv, Step  PROVE CustodyInv'
  OBVIOUS
<1>1. ASSUME NEW m \in Msgs, Push(m) \/ PushForeign(m)  PROVE CustodyInv'
  <2>1. PICK c \in Served : c.msg = m /\ ready' = ready \cup {c}
    BY <1>1, PushedCopy
  <2>2. m \notin pushed /\ UNCHANGED <<unacked, held, epoch>>
    BY <1>1 DEF Push, PushForeign, channels, process
  <2>3. c \notin Copies
    BY <2>1, <2>2 DEF LineageInv
  <2> QED  BY <2>1, <2>2, <2>3 DEF CustodyInv, Custody, Live, Decodes, Copies
<1>2. CASE UNCHANGED <<ready, unacked, epoch, held>>
  BY <1>2, CustodyKept DEF CustodyInv
<1>3. CASE Tick \/ QueueHandle \/ DeclareExchange \/ BindAndConsume \/ StartMain
           \/ (\E l \in Loops : Reopen(l)) \/ UNCHANGED <<vars, setup>>
  BY <1>2, <1>3 DEF Tick, QueueHandle, DeclareExchange, BindAndConsume, StartMain, Reopen,
     vars, broker, channels, process
<1>4. ASSUME NEW c \in ready, Unrouted(c)  PROVE CustodyInv'
  BY <1>4 DEF Unrouted, channels, process, CustodyInv, Custody, Live, Decodes
<1>5. ASSUME NEW c \in ready, Deliver(c)  PROVE CustodyInv'
  <2>1. PICK d : /\ d.copy = c /\ d.epoch = epoch[c.loop] /\ d.at = "buffered"
                 /\ held' = held \cup {d}
    BY <1>5 DEF Deliver
  <2>2. /\ ready' = ready \ {c} /\ unacked' = unacked \cup {c} /\ UNCHANGED epoch
    BY <1>5 DEF Deliver, channels
  <2>3. Live(d) /\ Live(d)' /\ \A e \in held : Live(e)' <=> Live(e)
    BY <2>1, <2>2 DEF Live
  <2> QED  BY <2>1, <2>2, <2>3 DEF CustodyInv, Custody, Decodes
<1>6. \A d \in held : d.epoch <= epoch[d.copy.loop]
  BY DEF LineageInv
<1>7. ASSUME NEW L \in SUBSET Loops, Drop(L)  PROVE CustodyInv'
  <2>1. held \in SUBSET Delivery /\ Buffered(L) \subseteq held
    BY DEF TypeInv, Buffered
  <2>2. ChannelsLost(L, held) /\ Requeued(L)
    BY <1>7 DEF Drop
  <2> QED  BY <1>6, <2>1, <2>2, CustodyLost DEF CustodyInv
<1>8. CASE BrokerRestart
  <2>1. held \in SUBSET Delivery /\ Buffered(Loops) \subseteq held /\ Loops \in SUBSET Loops
    BY DEF TypeInv, Buffered
  <2>2. held' \subseteq held /\ \A l \in Loops : epoch'[l] = epoch[l] + 1
    BY <1>8, <2>1, LostChannels DEF BrokerRestart
  <2> QED  BY <1>8, <2>2, CustodyEnds DEF BrokerRestart
<1>9. CASE ProcessEnds
  BY <1>9, ProcessEnded, CustodyEnds
<1>10. ASSUME NEW d \in held, NEW p \in Places, d.at # "acked", p # "acked",
              held' = Moved(d, p), UNCHANGED <<ready, unacked, epoch>>
       PROVE  CustodyInv'
  BY <1>10, CustodyMoved, CustodyKept
<1>11. ASSUME NEW d \in held, Receive(d) \/ Spawn(d) \/ Reply(d)  PROVE CustodyInv'
  <2>1. \E p \in Places : p # "acked" /\ held' = Moved(d, p) /\ d.at # "acked"
    BY <1>11 DEF Receive, Spawn, Reply, Places, AtWork
  <2> QED  BY <1>10, <1>11, <2>1 DEF Receive, Spawn, Reply, broker, channels
<1>12. ASSUME NEW d \in held, SpawnUndecodable(d)  PROVE CustodyInv'
  BY <1>12 DEF SpawnUndecodable, broker, channels, CustodyInv, Custody, Live, Decodes
<1>13. ASSUME NEW d \in held, AckFirst(d)  PROVE CustodyInv'
  BY <1>13, CustodyAcknowledged DEF AckFirst, channels
<1>14. ASSUME NEW d \in held, CountAcked(d)  PROVE CustodyInv'
  <2>1. d.at = "acked" /\ held' = held \ {d} /\ UNCHANGED <<ready, unacked, epoch>>
    BY <1>14 DEF CountAcked, broker, channels
  <2> QED  BY <2>1, CustodyKept DEF CustodyInv, Custody
<1>15. ASSUME NEW d \in held, CountSuccess(d) \/ CountFailure(d)  PROVE CustodyInv'
  <2>1. held' = Moved(d, "settled") /\ "settled" \in Places /\ d.at # "acked"
    BY <1>15 DEF CountSuccess, CountFailure, Places, AtWork
  <2> QED  BY <1>10, <1>15, <2>1 DEF CountSuccess, CountFailure, broker, channels
<1>16. ASSUME NEW d \in held, Retries(d)
       PROVE  /\ "settled" \in Places /\ d.at = "failed"
              /\ Custody(Moved(d, "settled"))
  BY <1>16, CustodyMoved DEF Retries, Places, AtWork
<1>17. ASSUME NEW d \in held, Publishes(d)  PROVE CustodyInv'
  <2>1. /\ Retries(d) /\ held' = Moved(d, "settled") /\ ready' = ready \cup {Child(d)}
        /\ UNCHANGED <<unacked, epoch>>
    BY <1>17 DEF Publishes, Publish, channels
  <2>2. Child(d) \notin Copies
    BY <2>1, ChildIsNew
  <2>3. \A e \in held' : e.copy \in Copies
    BY <1>16, <2>1, MovedDelivery DEF Copies
  <2>4. \A e \in held' : Live(e)' <=> Live(e)
    BY <2>1 DEF Live
  <2> QED  BY <1>16, <2>1, <2>2, <2>3, <2>4 DEF CustodyInv, Custody, Copies, Decodes
<1>18. ASSUME NEW d \in held, Publish(d), ~open[d.copy.loop]  PROVE CustodyInv'
  BY <1>16, <1>18, CustodyKept DEF Publish, channels
<1>19. ASSUME NEW d \in held, PublishNowhere(d)  PROVE CustodyInv'
  <2> DEFINE L == {d.copy.loop}
             S == Moved(d, "settled")
  <2>1. /\ L \in SUBSET Loops /\ "settled" \in Places /\ d.at = "failed" /\ Custody(S)
    BY <1>16, <1>19, HeldFields DEF PublishNowhere
  <2>2. /\ S \in SUBSET Delivery /\ Buffered(L) \subseteq S
        /\ \A e \in S : e.epoch <= epoch[e.copy.loop] /\ (e.at = "buffered" => e \in held)
    BY <1>6, <2>1, MovedDelivery DEF TypeInv, Buffered
  <2>3. ChannelsLost(L, S) /\ Requeued(L)
    BY <1>19 DEF PublishNowhere
  <2> HIDE DEF L, S
  <2> QED  BY <2>1, <2>2, <2>3, CustodyLost
<1>20. ASSUME NEW d \in held, Ack(d)  PROVE CustodyInv'
  BY <1>20, CustodyAcknowledged DEF Ack, channels
<1> QED
  BY <1>1, <1>3, <1>4, <1>5, <1>7, <1>8, <1>9, <1>11, <1>12, <1>13, <1>14, <1>15, <1>17,
     <1>18, <1>19, <1>20
  DEF Step, Next, Dispatching, Stop, ReplyNull, Publishes

(* A copy is unacknowledged exactly as long as one delivery of the present *)
(* channel is on its way to d.Ack, whatever channels were lost and opened  *)
(* again in between: no path forgets its acknowledgement, and none         *)
(* acknowledges a delivery of another channel.                             *)
THEOREM UnackedAccountedHolds == Spec => []UnackedAccounted
<1>1. LineageInv /\ CustodyInv => UnackedAccounted
  <2> SUFFICES ASSUME LineageInv, CustodyInv  PROVE UnackedAccounted
    OBVIOUS
  <2>1. \A d, e \in held : Live(d) /\ Live(e) /\ d.copy = e.copy => d = e
    BY DEF LineageInv, Live
  <2> QED  BY <2>1 DEF CustodyInv, Custody, UnackedAccounted
<1> QED  BY <1>1, TypeInvInit, TypeInvNext, LineageInvInit, LineageInvNext, CustodyInvNext,
            PTL DEF Spec, Step
-----------------------------------------------------------------------------
(***************************************************************************)
(* Concurrency control.  Every token stands for one goroutine at work, and *)
(* neither a lost channel nor what it loses takes one in or out.           *)
(***************************************************************************)
AtWorkIn(S, l) == {d \in S : d.copy.loop = l /\ d.at \in AtWork}

SlotsInv ==
  \A l \in Loops : slots[l] = Cardinality(Working(l)) /\ slots[l] <= Concurency

(* A loop has finitely many deliveries at work.                            *)
LEMMA WorkingFinite ==
  ASSUME TypeInv, NEW l \in Loops
  PROVE  /\ Working(l) = AtWorkIn(held, l)
         /\ IsFiniteSet(AtWorkIn(held, l)) /\ Cardinality(AtWorkIn(held, l)) \in Nat
<1>1. AtWorkIn(held, l) \in SUBSET held /\ Working(l) = AtWorkIn(held, l)
  BY DEF AtWorkIn, Working
<1> QED  BY <1>1, FS_Subset, FS_CardinalityType DEF TypeInv

(* A delivery that moves joins those at work, stays with them, or has      *)
(* nothing to do with them: it is never taken for another one.             *)
LEMMA WorkingMoved ==
  ASSUME TypeInv, LineageInv, NEW d \in held, NEW p \in Places, NEW l \in Loops
  PROVE  /\ d.copy.loop # l => AtWorkIn(Moved(d, p), l) = AtWorkIn(held, l)
         /\ d.at \notin AtWork /\ p \notin AtWork
              => AtWorkIn(Moved(d, p), l) = AtWorkIn(held, l)
         /\ d.at \in AtWork /\ p \in AtWork
              => Cardinality(AtWorkIn(Moved(d, p), l)) = Cardinality(AtWorkIn(held, l))
         /\ d.copy.loop = l /\ d.at \notin AtWork /\ p \in AtWork
              => Cardinality(AtWorkIn(Moved(d, p), l)) = Cardinality(AtWorkIn(held, l)) + 1
<1> DEFINE e == MovedTo(d, p)
           before == AtWorkIn(held, l)
           after == AtWorkIn(Moved(d, p), l)
<1>1. /\ Moved(d, p) = (held \ {d}) \cup {e}
      /\ e.copy = d.copy /\ e.epoch = d.epoch /\ e.at = p
  BY MovedDelivery
<1>2. e \notin held \ {d}
  BY <1>1 DEF LineageInv
<1>3. IsFiniteSet(before) /\ Cardinality(before) \in Nat
  BY WorkingFinite
<1> HIDE DEF e
<1>4. d.copy.loop # l => after = before
  BY <1>1 DEF AtWorkIn
<1>5. d.at \notin AtWork /\ p \notin AtWork => after = before
  BY <1>1 DEF AtWorkIn
<1>6. CASE d.copy.loop = l /\ p \in AtWork
  <2>1. after = (before \ {d}) \cup {e} /\ e \notin before \ {d}
    BY <1>1, <1>2, <1>6 DEF AtWorkIn
  <2>2. d \in before <=> d.at \in AtWork
    BY <1>6 DEF AtWorkIn
  <2> HIDE DEF before, after
  <2>3. /\ IsFiniteSet(before \ {d})
        /\ Cardinality(before \ {d}) =
             IF d \in before THEN Cardinality(before) - 1 ELSE Cardinality(before)
    BY <1>3, FS_RemoveElement
  <2>4. Cardinality(after) = Cardinality(before \ {d}) + 1
    BY <2>1, <2>3, FS_AddElement
  <2>5. /\ d.at \in AtWork => Cardinality(after) = Cardinality(before)
        /\ d.at \notin AtWork => Cardinality(after) = Cardinality(before) + 1
    BY <1>3, <2>2, <2>3, <2>4
  <2> QED  BY <1>5, <1>6, <2>5 DEF before, after
<1>7. CASE d.copy.loop # l
  BY <1>4, <1>7
<1>8. CASE p \notin AtWork
  BY <1>4, <1>5, <1>8
<1> QED  BY <1>6, <1>7, <1>8

(* A delivery that is done is one less at work in its loop only.           *)
LEMMA WorkingRemoved ==
  ASSUME TypeInv, NEW d \in held, NEW l \in Loops
  PROVE  /\ d.copy.loop # l \/ d.at \notin AtWork
              => AtWorkIn(held \ {d}, l) = AtWorkIn(held, l)
         /\ d.copy.loop = l /\ d.at \in AtWork
              => Cardinality(AtWorkIn(held \ {d}, l)) = Cardinality(AtWorkIn(held, l)) - 1
<1>1. d.copy.loop # l \/ d.at \notin AtWork => AtWorkIn(held \ {d}, l) = AtWorkIn(held, l)
  BY DEF AtWorkIn
<1>2. CASE d.copy.loop = l /\ d.at \in AtWork
  <2>1. AtWorkIn(held \ {d}, l) = AtWorkIn(held, l) \ {d} /\ d \in AtWorkIn(held, l)
    BY <1>2 DEF AtWorkIn
  <2> QED  BY <1>2, <2>1, WorkingFinite, FS_RemoveElement
<1> QED  BY <1>1, <1>2

(* What a lost channel has buffered is not at work yet.                    *)
LEMMA WorkingLost ==
  ASSUME TypeInv, NEW L \in SUBSET Loops, NEW S \in SUBSET Delivery,
         Buffered(L) \subseteq S, ChannelsLost(L, S), NEW l \in Loops
  PROVE  Working(l)' = AtWorkIn(S, l)
<1>1. S \ Buffered(L) \subseteq held' /\ held' \subseteq S
  BY LostChannels
<1>2. \A d \in Buffered(L) : d.at \notin AtWork
  BY DEF Buffered, AtWork
<1> QED  BY <1>1, <1>2 DEF Working, AtWorkIn

(* As many at work as before, and as many tokens.                          *)
LEMMA SlotsKept ==
  ASSUME TypeInv, SlotsInv, UNCHANGED slots,
         \A l \in Loops : Cardinality(Working(l)') = Cardinality(AtWorkIn(held, l))
  PROVE  SlotsInv'
BY WorkingFinite DEF SlotsInv

(* A goroutine that goes on with its work.                                 *)
LEMMA SlotsMoved ==
  ASSUME TypeInv, LineageInv, SlotsInv, NEW d \in held, NEW p \in Places,
         d.at \in AtWork <=> p \in AtWork, held' = Moved(d, p), UNCHANGED slots
  PROVE  SlotsInv'
<1>1. \A l \in Loops : Working(l)' = AtWorkIn(Moved(d, p), l)
  BY DEF Working, AtWorkIn
<1> QED  BY <1>1, WorkingMoved, SlotsKept

(* The last statement of a goroutine: it is gone and its token with it.    *)
LEMMA SlotsReleased ==
  ASSUME TypeInv, SlotsInv, NEW d \in held, d.at \in AtWork, held' = held \ {d},
         slots' = Released(d.copy.loop)
  PROVE  SlotsInv'
<1> SUFFICES ASSUME NEW l \in Loops
             PROVE  slots'[l] = Cardinality(Working(l)') /\ slots'[l] <= Concurency
  BY DEF SlotsInv
<1>1. Working(l)' = AtWorkIn(held \ {d}, l) /\ d.copy.loop \in Loops /\ slots[l] \in Int
  BY HeldFields DEF Working, AtWorkIn, TypeInv
<1>2. slots[l] = Cardinality(AtWorkIn(held, l)) /\ slots[l] <= Concurency
  BY WorkingFinite DEF SlotsInv
<1>3. slots'[l] = IF l = d.copy.loop THEN slots[l] - 1 ELSE slots[l]
  BY <1>1 DEF Released, TypeInv
<1> QED  BY <1>1, <1>2, <1>3, WorkingRemoved, ConfigAssumption

(* The invariant holds at first.                                           *)
LEMMA SlotsInvInit == Init => SlotsInv
<1> SUFFICES ASSUME Init, NEW l \in Loops
             PROVE  slots[l] = Cardinality(Working(l)) /\ slots[l] <= Concurency
  BY DEF SlotsInv
<1>1. Working(l) = {}
  BY DEF Init, Working
<1> QED  BY <1>1, FS_EmptySet, ConfigAssumption DEF Init

(* Every step keeps it.                                                    *)
LEMMA SlotsInvNext == TypeInv /\ LineageInv /\ SlotsInv /\ Step => SlotsInv'
<1> SUFFICES ASSUME TypeInv, LineageInv, SlotsInv, Step  PROVE SlotsInv'
  OBVIOUS
<1>1. ASSUME UNCHANGED <<held, slots>>  PROVE SlotsInv'
  BY <1>1 DEF SlotsInv, Working
<1>2. ASSUME NEW m \in Msgs, Push(m) \/ PushForeign(m)  PROVE SlotsInv'
  BY <1>1, <1>2 DEF Push, PushForeign, process
<1>3. CASE Tick \/ QueueHandle \/ DeclareExchange \/ BindAndConsume \/ StartMain
           \/ (\E l \in Loops : Reopen(l)) \/ (\E c \in ready : Unrouted(c))
           \/ UNCHANGED <<vars, setup>>
  BY <1>1, <1>3 DEF Tick, QueueHandle, DeclareExchange, BindAndConsume, StartMain, Reopen,
     Unrouted, vars, process
<1>4. ASSUME NEW c \in ready, Deliver(c)  PROVE SlotsInv'
  <2>1. PICK d : d.at = "buffered" /\ held' = held \cup {d} /\ slots' = slots
    BY <1>4 DEF Deliver
  <2>2. \A l \in Loops : Working(l)' = Working(l)
    BY <2>1 DEF Working, AtWork
  <2> QED  BY <2>1, <2>2 DEF SlotsInv
<1>5. ASSUME NEW L \in SUBSET Loops, ChannelsLost(L, held), UNCHANGED slots
      PROVE  SlotsInv'
  <2>1. held \in SUBSET Delivery /\ Buffered(L) \subseteq held
    BY DEF TypeInv, Buffered
  <2> QED  BY <1>5, <2>1, WorkingLost, SlotsKept
<1>6. ASSUME NEW L \in SUBSET Loops, Drop(L)  PROVE SlotsInv'
  BY <1>5, <1>6 DEF Drop
<1>7. CASE BrokerRestart
  <2>1. ChannelsLost(Loops, held) /\ UNCHANGED slots /\ Loops \in SUBSET Loops
    BY <1>7 DEF BrokerRestart
  <2> QED  BY <1>5, <2>1
<1>8. CASE ProcessEnds
  <2>1. held' = {} /\ \A l \in Loops : slots'[l] = 0
    BY <1>8, ProcessEnded
  <2>2. \A l \in Loops : Working(l)' = {}
    BY <2>1 DEF Working
  <2>3. \A l \in Loops : Cardinality(Working(l)') = 0
    BY <2>2, FS_EmptySet
  <2> QED  BY <2>1, <2>3, ConfigAssumption DEF SlotsInv
<1>9. ASSUME NEW d \in held, Receive(d)  PROVE SlotsInv'
  BY <1>9, SlotsMoved DEF Receive, Places, AtWork
<1>10. ASSUME NEW d \in held, Spawn(d)  PROVE SlotsInv'
  <2> SUFFICES ASSUME NEW l \in Loops
               PROVE  slots'[l] = Cardinality(Working(l)') /\ slots'[l] <= Concurency
    BY DEF SlotsInv
  <2>1. /\ "post" \in Places /\ "post" \in AtWork /\ d.at \notin AtWork
        /\ held' = Moved(d, "post") /\ d.copy.loop \in Loops
        /\ slots[d.copy.loop] < Concurency /\ slots' = Taken(d.copy.loop)
    BY <1>10, HeldFields DEF Spawn, Free, Places, AtWork
  <2>2. Working(l)' = AtWorkIn(Moved(d, "post"), l) /\ slots[l] \in Int
    BY <2>1 DEF Working, AtWorkIn, TypeInv
  <2>3. slots[l] = Cardinality(AtWorkIn(held, l)) /\ slots[l] <= Concurency
    BY WorkingFinite DEF SlotsInv
  <2>4. slots'[l] = IF l = d.copy.loop THEN slots[l] + 1 ELSE slots[l]
    BY <2>1 DEF Taken, TypeInv
  <2> QED  BY <2>1, <2>2, <2>3, <2>4, WorkingMoved, ConfigAssumption
<1>11. ASSUME NEW d \in held, SpawnUndecodable(d)  PROVE SlotsInv'
  <2>1. held' = held \ {d} /\ d.at \notin AtWork /\ UNCHANGED slots
    BY <1>11 DEF SpawnUndecodable, AtWork
  <2>2. \A l \in Loops : Working(l)' = AtWorkIn(held \ {d}, l)
    BY <2>1 DEF Working, AtWorkIn
  <2> QED  BY <2>1, <2>2, WorkingRemoved, SlotsKept
<1>12. ASSUME NEW d \in held,
              Reply(d) \/ AckFirst(d) \/ CountSuccess(d) \/ CountFailure(d) \/ Publish(d)
       PROVE  SlotsInv'
  <2>1. \E p \in AtWork : held' = Moved(d, p) /\ d.at \in AtWork /\ UNCHANGED slots
    BY <1>12 DEF Reply, AckFirst, CountSuccess, CountFailure, Publish, Retries, AtWork
  <2> QED  BY <2>1, SlotsMoved DEF Places
<1>13. ASSUME NEW d \in held, CountAcked(d) \/ Ack(d)  PROVE SlotsInv'
  BY <1>13, SlotsReleased DEF CountAcked, Ack, AtWork
<1>14. ASSUME NEW d \in held, PublishNowhere(d)  PROVE SlotsInv'
  <2> DEFINE L == {d.copy.loop}
             S == Moved(d, "settled")
  <2>1. /\ L \in SUBSET Loops /\ "settled" \in Places /\ "settled" \in AtWork
        /\ d.at = "failed" /\ d.at \in AtWork
    BY <1>14, HeldFields DEF PublishNowhere, Retries, Places, AtWork
  <2>2. S \in SUBSET Delivery /\ Buffered(L) \subseteq S
    BY <2>1, MovedDelivery DEF TypeInv, Buffered
  <2>3. ChannelsLost(L, S) /\ UNCHANGED slots
    BY <1>14 DEF PublishNowhere
  <2>4. \A l \in Loops : Cardinality(AtWorkIn(S, l)) = Cardinality(AtWorkIn(held, l))
    BY <2>1, WorkingMoved
  <2> HIDE DEF L, S
  <2> QED  BY <2>1, <2>2, <2>3, <2>4, WorkingLost, SlotsKept
<1> QED
  BY <1>2, <1>3, <1>4, <1>6, <1>7, <1>8, <1>9, <1>10, <1>11, <1>12, <1>13, <1>14
  DEF Step, Next, Dispatching, Stop, ReplyNull

(* Every token belongs to a goroutine that will take it out, goroutines    *)
(* whose channel is lost included.                                         *)
THEOREM SlotsAccountedHolds == Spec => []SlotsAccounted
<1>1. SlotsInv => SlotsAccounted
  BY DEF SlotsInv, SlotsAccounted
<1> QED  BY <1>1, TypeInvInit, TypeInvNext, LineageInvInit, LineageInvNext, CustodyInvNext,
            SlotsInvInit, SlotsInvNext, PTL DEF Spec, Step

(* No loop ever has more than Concurency dispatches at work, however often *)
(* it reconnects and whatever is delivered again.                          *)
THEOREM ConcurrencyBoundHolds == Spec => []ConcurrencyBound
<1>1. SlotsInv => ConcurrencyBound
  BY DEF SlotsInv, ConcurrencyBound
<1> QED  BY <1>1, TypeInvInit, TypeInvNext, LineageInvInit, LineageInvNext, CustodyInvNext,
            SlotsInvInit, SlotsInvNext, PTL DEF Spec, Step

(* All types, slots included: <-concurency never waits for a token that    *)
(* nobody put in.                                                          *)
THEOREM TypeOKHolds == Spec => []TypeOK
<1>1. TypeInv /\ SlotsInv => TypeOK
  <2> SUFFICES ASSUME TypeInv, SlotsInv  PROVE TypeOK
    OBVIOUS
  <2>1. \A l \in Loops : slots[l] \in Nat
    BY WorkingFinite DEF SlotsInv
  <2> QED  BY <2>1 DEF TypeInv, TypeOK
<1> QED  BY <1>1, TypeInvInit, TypeInvNext, LineageInvInit, LineageInvNext, CustodyInvNext,
            SlotsInvInit, SlotsInvNext, PTL DEF Spec, Step
=============================================================================
