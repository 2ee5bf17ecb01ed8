----------------------------- MODULE RabbitQueue -----------------------------
(***************************************************************************)
(* One enabled RabbitMQ queue of queueman (rabbitmq.QueueInstance): its    *)
(* start-up, the two loops and their goroutines, the broker and the        *)
(* reconnecting client library between them.                               *)
(* Source: src/libs/queue/rabbitmq/{dispatcher,types}.go,                  *)
(* src/libs/queue/types/types.go, src/libs/request/request.go.             *)
(*                                                                         *)
(* A COPY is a message in the broker; publishing to <exchange>.delayed     *)
(* makes a new one.  A DELIVERY is a copy as a channel handed it to the    *)
(* process: after a lost connection one copy has several, and only the one *)
(* of the present channel can be acknowledged.  The code keeps no identity *)
(* for either; here a copy has the channel epochs of the deliveries it     *)
(* descends from.                                                          *)
(***************************************************************************)
EXTENDS Integers, Sequences, FiniteSets, Combinatorics, RetrySchedule

CONSTANTS
  Msgs,             \* the messages developers publish, each at most once
  Concurency, DelayConcurency, DelayOnFailure,
  Replies,          \* what receivers may answer, a subset of ReplyKinds
  Setups,           \* the situations to look at, see Setup
  MaxTime           \* bound: the clock stops there

ReplyKinds == {"ok", "fail", "null"}

(* "incr": an INCR is not executed; "encode": SerializeDelayQueueData      *)
(* returns an error; "slow": declaring the retry queue takes longer than   *)
(* the second QueueHandle waits for it; "foreign": someone else publishes  *)
(* to <exchange>.delayed; "broker": the broker restarts.                   *)
FaultKinds == {"none", "incr", "encode", "slow", "foreign", "broker"}

(* Three switches of the configuration, the one fault that may occur, and  *)
(* bounds: how often channels are lost and how often the process ends.     *)
Setup == [isDelay : BOOLEAN, autoAck : BOOLEAN, durable : BOOLEAN,
          fault : FaultKinds, drops : Nat, stops : Nat]

ASSUME ConfigAssumption ==
  /\ IsFiniteSet(Msgs)
  /\ Concurency \in Nat
  /\ DelayConcurency \in Nat
  /\ DelayOnFailure \in Seq(Int)   \* in the order of the file: not sorted
  /\ Replies \subseteq ReplyKinds
  /\ Setups \subseteq Setup
  /\ MaxTime \in Nat

Loops == {"main", "retry"}

(* due is when the delayed exchange routes the copy (0: at once); cur the  *)
(* DelayTime a message has been given so far, 0 before its first failure.  *)
Copy == [msg : Msgs, path : Seq(Nat), loop : Loops, due : Nat, cur : Int]

(* "buffered" in the client library; "received" by the loop, which waits   *)
(* for a slot; with a goroutine before ("post") and after Post ("ok",      *)
(* "failed"); "settled": only d.Ack is left to do; "acked": only the       *)
(* counter is left.                                                        *)
AtWork == {"post", "ok", "failed", "settled", "acked"}
Delivery == [copy : Copy, epoch : Nat, at : {"buffered", "received"} \cup AtWork]

VARIABLES
  setup,     \* the situation, which never changes
  ready,     \* copies in the broker that can be delivered, now or when due
  unacked,   \* copies delivered on a channel that is open, not acknowledged
  bindings,  \* of the retry queue: "none", "exchange" declared, or "bound"
  queue,     \* the main queue and its exchange exist
  open,      \* per loop: its channel is open and has a consumer
  epoch,     \* per loop: the channels it has lost
  held,      \* deliveries in the memory of the process
  pc,        \* per loop: where its goroutine is
  slots,     \* per loop: tokens in its channel concurency
  success,   \* per message: its share of the counter <queue>:success
  failure,   \* per message: its share of the counter <queue>:failure
  now,       \* the clock, in seconds
  drops,     \* how often channels were lost
  stops,     \* how often the process ended
  pushed,    \* history: messages published by their developers
  tried,     \* history, per message: the delays whose dispatch was answered
  failedAt   \* history, per message: when its first dispatch failed

broker == <<ready, unacked, bindings, queue>>
channels == <<open, epoch, drops>>
process == <<held, pc, slots>>
counters == <<success, failure>>
history == <<pushed, tried, failedAt>>
vars == <<broker, channels, process, counters, now, stops, history>>

Never == -1
-----------------------------------------------------------------------------
(* Helpers *)

IsDelayQueue == setup.isDelay
IsAutoAck == setup.autoAck
IsDurable == setup.durable
Faulty(kind) == setup.fault = kind

RunMode(l) == IF l = "retry" THEN "retry" ELSE IF IsDelayQueue THEN "first" ELSE "normal"

(* Mutant: room for one more than the capacity.                            *)
FreeOffByOne(l) == slots[l] <= Concurency

(* concurency <- true does not block.  Both functions make the channel     *)
(* with Concurency: nothing in rabbitmq/ reads DelayConcurency, which only *)
(* RetryConcurrencyBound mentions.                                         *)
Free(l) == slots[l] < Concurency

Taken(l) == [slots EXCEPT ![l] = @ + 1]

(* Mutant: a slot given back twice.                                        *)
ReleasedTwice(l) == [slots EXCEPT ![l] = @ - 2]

(* <-concurency                                                            *)
Released(l) == [slots EXCEPT ![l] = @ - 1]

(* UnserializeDelayQueueData in retry mode: what this queue did not        *)
(* publish itself is no DelayQueueData.                                    *)
Decodes(c) == c.loop = "retry" => c.cur > 0

DelayFor(c) == DelayAfter(RunMode(c.loop), c.cur, DelayOnFailure)

(* Mutant: the exchange routes a second too early.                         *)
DueEarly(c) == now + DelayFor(c) - c.cur - 1

(* The header x-delay (delay for Aliyun), counted from the publishing.     *)
DueAfter(c) == now + DelayFor(c) - c.cur

(* What a failed delivery publishes to <exchange>.delayed.                 *)
Child(d) == [msg |-> d.copy.msg, path |-> Append(d.copy.path, d.epoch),
             loop |-> "retry", due |-> DueAfter(d.copy), cur |-> DelayFor(d.copy)]

(* The channel that made the delivery is still open: d.Ack goes to that    *)
(* channel, not to the one the library opens in its place.                 *)
Live(d) == d.epoch = epoch[d.copy.loop]

(* Mutant: an acknowledgement on whatever channel is open now.             *)
AcknowledgedAnywhere(d) == unacked \ {d.copy}

(* d.Ack(false), whose error nobody looks at.                              *)
Acknowledged(d) == IF Live(d) THEN unacked \ {d.copy} ELSE unacked

Moved(d, place) == (held \ {d}) \cup {[d EXCEPT !.at = place]}

Counted(counter, m) == [counter EXCEPT ![m] = @ + 1]

Buffered(L) == {d \in held : d.at = "buffered" /\ d.copy.loop \in L}
-----------------------------------------------------------------------------
Init ==
  /\ setup \in Setups
  /\ ready = {} /\ unacked = {} /\ bindings = "none" /\ queue = TRUE
  /\ open = [l \in Loops |-> FALSE]
  /\ epoch = [l \in Loops |-> 0]
  /\ held = {}
  /\ pc = [l \in Loops |-> "off"]
  /\ slots = [l \in Loops |-> 0]
  /\ success = [m \in Msgs |-> 0]
  /\ failure = [m \in Msgs |-> 0]
  /\ now = 0 /\ drops = 0 /\ stops = 0
  /\ pushed = {}
  /\ tried = [m \in Msgs |-> {}]
  /\ failedAt = [m \in Msgs |-> Never]
-----------------------------------------------------------------------------
(* The environment *)

(* A developer publishes a message, with an x-delay for a delay queue, and *)
(* persistent if the queue is durable.                                     *)
Push(m) ==
  /\ m \notin pushed
  /\ queue
  /\ pushed' = pushed \cup {m}
  /\ \E t \in IF IsDelayQueue THEN 0..MaxTime ELSE {0} :
       ready' = ready \cup {[msg |-> m, path |-> <<>>, loop |-> "main", due |-> t, cur |-> 0]}
  /\ UNCHANGED <<unacked, bindings, queue, channels, process, counters, now, stops,
                 tried, failedAt>>

PushForeign(m) ==
  /\ Faulty("foreign")
  /\ m \notin pushed
  /\ bindings = "bound"
  /\ pushed' = pushed \cup {m}
  /\ ready' = ready \cup {[msg |-> m, path |-> <<>>, loop |-> "retry", due |-> 0, cur |-> 0]}
  /\ UNCHANGED <<unacked, bindings, queue, channels, process, counters, now, stops,
                 tried, failedAt>>

Tick ==
  /\ now < MaxTime
  /\ now' = now + 1
  /\ UNCHANGED <<broker, channels, process, counters, stops, history>>

(* The delayed exchange routes a copy and no queue is bound to it.         *)
Unrouted(c) ==
  /\ c.loop = "retry" /\ c.due <= now
  /\ bindings # "bound"
  /\ ready' = ready \ {c}
  /\ UNCHANGED <<unacked, bindings, queue, channels, process, counters, now, stops, history>>

(* The broker delivers without waiting for acknowledgements: no Qos is     *)
(* asked for.                                                              *)
Deliver(c) ==
  /\ c.due <= now
  /\ open[c.loop]
  /\ c.loop = "retry" => bindings = "bound"
  /\ ready' = ready \ {c}
  /\ unacked' = unacked \cup {c}
  /\ held' = held \cup {[copy |-> c, epoch |-> epoch[c.loop], at |-> "buffered"]}
  /\ UNCHANGED <<bindings, queue, channels, pc, slots, counters, now, stops, history>>

(* The channels of the loops L are closed: the broker makes their unacked  *)
(* copies ready again (Requeued); the library forgets what it has buffered, *)
(* except the delivery it is just handing to the loop; goroutines go on.   *)
ChannelsLost(L, inMemory) ==
  /\ drops < setup.drops
  /\ drops' = drops + 1
  /\ open' = [l \in Loops |-> open[l] /\ l \notin L]
  /\ epoch' = [l \in Loops |-> IF l \in L THEN epoch[l] + 1 ELSE epoch[l]]
  /\ \E handed \in SUBSET Buffered(L) :
       /\ \A d, e \in handed : d.copy.loop = e.copy.loop => d = e
       /\ held' = (inMemory \ Buffered(L)) \cup handed

Requeued(L) ==
  /\ ready' = ready \cup {c \in unacked : c.loop \in L}
  /\ unacked' = {c \in unacked : c.loop \notin L}

(* A channel is closed, or the connection both loops share.                *)
Drop(L) ==
  /\ \A l \in L : open[l]
  /\ ChannelsLost(L, held)
  /\ Requeued(L)
  /\ UNCHANGED <<bindings, queue, pc, slots, counters, now, stops, history>>

(* Mutant: retries published as transient although the queue is durable.   *)
KeptTransient == {c \in ready \cup unacked : IsDurable /\ c.loop = "main"}

(* What a restart of the broker leaves: durable queues with persistent     *)
(* messages, as IsDurable makes the declared queues and the retries.       *)
Kept == {c \in ready \cup unacked : IsDurable}

(* (While the process declares its queues, a restart of the broker makes   *)
(* failOnError end it: that is Stop.)                                      *)
BrokerRestart ==
  /\ Faulty("broker")
  /\ pc["main"] # "sleep" /\ pc["retry"] \notin {"declare", "bind"}
  /\ ChannelsLost(Loops, held)
  /\ ready' = Kept
  /\ unacked' = {}
  /\ bindings' = IF IsDurable THEN bindings ELSE "none"
  /\ queue' = IsDurable
  /\ UNCHANGED <<pc, slots, counters, now, stops, history>>

(* The library opens a new channel and consumes again.  It declares        *)
(* nothing: a queue that has gone stays away until the process restarts.   *)
Reopen(l) ==
  /\ ~open[l]
  /\ pc[l] \in {"idle", "spawn"}
  /\ IF l = "main" THEN queue ELSE bindings = "bound"
  /\ open' = [open EXCEPT ![l] = TRUE]
  /\ UNCHANGED <<broker, epoch, drops, process, counters, now, stops, history>>

ProcessEnds ==
  /\ stops < setup.stops
  /\ stops' = stops + 1
  /\ held' = {}
  /\ pc' = [l \in Loops |-> "off"]
  /\ slots' = [l \in Loops |-> 0]
  /\ open' = [l \in Loops |-> FALSE]
  /\ epoch' = [l \in Loops |-> epoch[l] + 1]
  /\ ready' = ready \cup unacked
  /\ unacked' = {}
  /\ UNCHANGED <<bindings, queue, drops, counters, now, history>>

(* Any signal, failOnError's log.Fatalf, or the nil conn of a GetConnection *)
(* that failed: `defer conn.Close()' panics.                               *)
Stop ==
  /\ pc["main"] # "off"
  /\ ProcessEnds
-----------------------------------------------------------------------------
(* Start-up *)

QueueHandle ==
  /\ pc["main"] = "off"
  /\ Concurency >= 1
  /\ pc' = [main |-> "sleep",
            retry |-> IF DelayOnFailure = <<>> THEN "off" ELSE "declare"]
  /\ UNCHANGED <<broker, channels, held, slots, counters, now, stops, history>>

(* ProcessDelay("retry") declares the delayed exchange.                    *)
DeclareExchange ==
  /\ pc["retry"] = "declare"
  /\ pc' = [pc EXCEPT !["retry"] = "bind"]
  /\ bindings' = IF bindings = "none" THEN "exchange" ELSE bindings
  /\ UNCHANGED <<ready, unacked, queue, channels, held, slots, counters, now, stops, history>>

(* QueueDeclare, QueueBind and Consume of the retry queue.                 *)
BindAndConsume ==
  /\ pc["retry"] = "bind"
  /\ pc' = [pc EXCEPT !["retry"] = "idle"]
  /\ bindings' = "bound"
  /\ open' = [open EXCEPT !["retry"] = TRUE]
  /\ UNCHANGED <<ready, unacked, queue, epoch, drops, held, slots, counters, now, stops, history>>

(* After a second of sleep, whether or not the retry loop is that far: the *)
(* same for the main queue.                                                *)
StartMain ==
  /\ pc["main"] = "sleep"
  /\ Faulty("slow") \/ pc["retry"] \notin {"declare", "bind"}
  /\ pc' = [pc EXCEPT !["main"] = "idle"]
  /\ open' = [open EXCEPT !["main"] = TRUE]
  /\ queue' = TRUE
  /\ UNCHANGED <<ready, unacked, bindings, epoch, drops, held, slots, counters, now, stops, history>>
-----------------------------------------------------------------------------
(* The loops and their goroutines *)

(* range msgs                                                              *)
Receive(d) ==
  /\ d.at = "buffered"
  /\ pc[d.copy.loop] = "idle"
  /\ pc' = [pc EXCEPT ![d.copy.loop] = "spawn"]
  /\ held' = Moved(d, "received")
  /\ UNCHANGED <<broker, channels, slots, counters, now, stops, history>>

(* concurency <- true; go func(...): the goroutine decodes and posts.      *)
Spawn(d) ==
  /\ d.at = "received"
  /\ Free(d.copy.loop)
  /\ Decodes(d.copy)
  /\ slots' = Taken(d.copy.loop)
  /\ held' = Moved(d, "post")
  /\ pc' = [pc EXCEPT ![d.copy.loop] = "idle"]
  /\ UNCHANGED <<broker, channels, counters, now, stops, history>>

(* The goroutine cannot decode the delivery: it gives its slot back and    *)
(* returns without an acknowledgement.                                     *)
SpawnUndecodable(d) ==
  /\ d.at = "received"
  /\ Free(d.copy.loop)
  /\ ~Decodes(d.copy)
  /\ held' = held \ {d}
  /\ pc' = [pc EXCEPT ![d.copy.loop] = "idle"]
  /\ UNCHANGED <<broker, channels, slots, counters, now, stops, history>>

(* queueRequest.Post() returns.  With IsAutoAck nobody looks at the result. *)
Reply(d) ==
  LET m == d.copy.msg
  IN  /\ d.at = "post"
      /\ \/ /\ "ok" \in Replies
            /\ held' = Moved(d, "ok")
            /\ UNCHANGED failedAt
         \/ /\ "fail" \in Replies \/ ("null" \in Replies /\ IsAutoAck)
            /\ held' = Moved(d, "failed")
            /\ failedAt' = [failedAt EXCEPT ![m] = IF @ = Never THEN now ELSE @]
      /\ tried' = [tried EXCEPT ![m] = @ \cup {d.copy.cur}]
      /\ UNCHANGED <<broker, channels, pc, slots, counters, now, stops, pushed>>

(* result.Code of a nil result panics.                                     *)
ReplyNull(d) ==
  /\ d.at = "post"
  /\ "null" \in Replies /\ ~IsAutoAck
  /\ ProcessEnds

(* Every result with IsAutoAck, and delay data that cannot be encoded, is  *)
(* acknowledged before it is counted.                                      *)
AckFirst(d) ==
  /\ \/ IsAutoAck /\ d.at \in {"ok", "failed"}
     \/ d.at = "failed" /\ DelayFor(d.copy) > 0 /\ Faulty("encode")
  /\ unacked' = Acknowledged(d)
  /\ held' = Moved(d, "acked")
  /\ UNCHANGED <<ready, bindings, queue, channels, pc, slots, counters, now, stops, history>>

(* As a success with IsAutoAck, as a failure otherwise.                    *)
CountAcked(d) ==
  LET m == d.copy.msg
  IN  /\ d.at = "acked"
      /\ held' = held \ {d}
      /\ slots' = Released(d.copy.loop)
      /\ \/ success' = Counted(success, m) /\ IsAutoAck /\ UNCHANGED failure
         \/ failure' = Counted(failure, m) /\ ~IsAutoAck /\ UNCHANGED success
         \/ Faulty("incr") /\ UNCHANGED counters
      /\ UNCHANGED <<broker, channels, pc, now, stops, history>>

CountSuccess(d) ==
  /\ ~IsAutoAck
  /\ d.at = "ok"
  /\ held' = Moved(d, "settled")
  /\ \/ success' = Counted(success, d.copy.msg)
     \/ Faulty("incr") /\ UNCHANGED success
  /\ UNCHANGED <<broker, channels, pc, slots, failure, now, stops, history>>

(* A failed dispatch with no delay left.                                   *)
CountFailure(d) ==
  /\ ~IsAutoAck
  /\ d.at = "failed"
  /\ DelayFor(d.copy) <= 0
  /\ held' = Moved(d, "settled")
  /\ \/ failure' = Counted(failure, d.copy.msg)
     \/ Faulty("incr") /\ UNCHANGED failure
  /\ UNCHANGED <<broker, channels, pc, slots, success, now, stops, history>>

Retries(d) ==
  /\ ~IsAutoAck
  /\ d.at = "failed"
  /\ DelayFor(d.copy) > 0

(* Mutant: without the else, a retry is counted as a failure as well.      *)
PublishCounts(d) ==
  /\ Retries(d)
  /\ bindings # "none" \/ ~open[d.copy.loop]
  /\ ready' = IF open[d.copy.loop] THEN ready \cup {Child(d)} ELSE ready
  /\ held' = Moved(d, "settled")
  /\ failure' = Counted(failure, d.copy.msg)
  /\ UNCHANGED <<unacked, bindings, queue, channels, pc, slots, success, now, stops, history>>

(* A failed dispatch with a delay left: ch.Publish goes to the channel the *)
(* loop has now.  On a closed one it returns an error, which is logged.    *)
Publish(d) ==
  /\ Retries(d)
  /\ bindings # "none" \/ ~open[d.copy.loop]
  /\ ready' = IF open[d.copy.loop] THEN ready \cup {Child(d)} ELSE ready
  /\ held' = Moved(d, "settled")
  /\ UNCHANGED <<unacked, bindings, queue, channels, pc, slots, counters, now, stops, history>>

(* The exchange does not exist: Publish returns no error, and the broker   *)
(* closes the channel.                                                     *)
PublishNowhere(d) ==
  /\ Retries(d)
  /\ bindings = "none" /\ open[d.copy.loop]
  /\ ChannelsLost({d.copy.loop}, Moved(d, "settled"))
  /\ Requeued({d.copy.loop})
  /\ UNCHANGED <<bindings, queue, pc, slots, counters, now, stops, history>>

(* Mutant: the last branch without d.Ack.                                  *)
AckForgets(d) ==
  /\ d.at = "settled"
  /\ UNCHANGED unacked
  /\ held' = held \ {d}
  /\ slots' = Released(d.copy.loop)
  /\ UNCHANGED <<ready, bindings, queue, channels, pc, counters, now, stops, history>>

(* Mutant: the goroutine returns without taking its token out.             *)
AckLeaks(d) ==
  /\ d.at = "settled"
  /\ unacked' = Acknowledged(d)
  /\ held' = held \ {d}
  /\ UNCHANGED slots
  /\ UNCHANGED <<ready, bindings, queue, channels, pc, counters, now, stops, history>>

Ack(d) ==
  /\ d.at = "settled"
  /\ unacked' = Acknowledged(d)
  /\ held' = held \ {d}
  /\ slots' = Released(d.copy.loop)
  /\ UNCHANGED <<ready, bindings, queue, channels, pc, counters, now, stops, history>>
-----------------------------------------------------------------------------
Dispatching ==
  \E d \in held :
    \/ Receive(d) \/ Spawn(d) \/ SpawnUndecodable(d)
    \/ Reply(d) \/ ReplyNull(d)
    \/ AckFirst(d) \/ CountAcked(d)
    \/ CountSuccess(d) \/ CountFailure(d)
    \/ Publish(d) \/ PublishNowhere(d)
    \/ Ack(d)

Next ==
  \/ \E m \in Msgs : Push(m) \/ PushForeign(m)
  \/ \E c \in ready : Unrouted(c) \/ Deliver(c)
  \/ \E L \in (SUBSET Loops) \ {{}} : Drop(L)
  \/ \E l \in Loops : Reopen(l)
  \/ Tick \/ Stop \/ BrokerRestart
  \/ QueueHandle \/ DeclareExchange \/ BindAndConsume \/ StartMain
  \/ Dispatching

Spec == Init /\ [][Next /\ UNCHANGED setup]_<<vars, setup>>

(***************************************************************************)
(* The Go scheduler runs goroutines that can run, the broker delivers what *)
(* is due, the library opens lost channels again, time passes and every    *)
(* receiver answers at last.  Nobody need publish, and neither channels    *)
(* nor the process need fail.                                              *)
(***************************************************************************)
Fairness ==
  /\ WF_vars(Tick)
  /\ WF_vars(QueueHandle)
  /\ WF_vars(DeclareExchange)
  /\ WF_vars(BindAndConsume)
  /\ WF_vars(StartMain)
  /\ \A l \in Loops : WF_vars(Reopen(l))
  /\ WF_vars(\E c \in ready : Deliver(c))
  /\ \A l \in Loops :
       WF_vars(\E d \in held : d.copy.loop = l /\ (Receive(d) \/ Spawn(d) \/ SpawnUndecodable(d)))
  /\ WF_vars(\E d \in held : Reply(d))
  /\ WF_vars(\E d \in held : AckFirst(d) \/ CountAcked(d) \/ CountSuccess(d) \/ CountFailure(d)
                               \/ Publish(d) \/ PublishNowhere(d) \/ Ack(d))

FairSpec == Spec /\ Fairness
-----------------------------------------------------------------------------
(* Properties *)

(* Every variable keeps its type; in particular no token is taken from an  *)
(* empty channel concurency, whatever was lost in between.                 *)
TypeOK ==
  /\ ready \in SUBSET Copy /\ unacked \in SUBSET Copy
  /\ bindings \in {"none", "exchange", "bound"} /\ queue \in BOOLEAN
  /\ open \in [Loops -> BOOLEAN]
  /\ epoch \in [Loops -> Nat]
  /\ held \in SUBSET Delivery
  /\ pc \in [Loops -> {"off", "sleep", "declare", "bind", "idle", "spawn"}]
  /\ slots \in [Loops -> Nat]
  /\ success \in [Msgs -> Nat] /\ failure \in [Msgs -> Nat]
  /\ now \in Nat /\ drops \in Nat /\ stops \in Nat
  /\ pushed \in SUBSET Msgs
  /\ tried \in [Msgs -> SUBSET Int]
  /\ failedAt \in [Msgs -> Int]

Working(l) == {d \in held : d.copy.loop = l /\ d.at \in AtWork}

(* What the code's semaphores are worth: goroutines that outlive their     *)
(* channel still count, so a reconnect and its redeliveries never raise    *)
(* the number of dispatches of a loop above Concurency.  For the main loop *)
(* that is README's "concurrency control"; for the retry loop README       *)
(* promises something else, which is the next property.                    *)
ConcurrencyBound == \A l \in Loops : Cardinality(Working(l)) <= Concurency

(* README 239 and 430 and types.go:27: DelayConcurency is the number of    *)
(* concurrent dispatches from the queue of failed messages.  The code does *)
(* not keep this if it is less than Concurency.                            *)
RetryConcurrencyBound == Cardinality(Working("retry")) <= DelayConcurency

(* Every token in a channel concurency belongs to a goroutine that will    *)
(* take it out, those with lost channels included.                         *)
SlotsAccounted == \A l \in Loops : slots[l] = Cardinality(Working(l))

(* What the broker waits for is what the process works on: a copy is       *)
(* unacknowledged exactly as long as one delivery of the present channel   *)
(* is on its way to d.Ack.  A path that returns without d.Ack would leave  *)
(* the copy with the broker until the connection is lost; only for a copy  *)
(* it cannot decode the code does so.                                      *)
UnackedAccounted ==
  /\ {c \in unacked : Decodes(c)} =
       {d.copy : d \in {e \in held : Live(e) /\ e.at # "acked" /\ Decodes(e.copy)}}
  /\ \A d, e \in held : Live(d) /\ Live(e) /\ d.copy = e.copy => d = e

Outcomes(m) == success[m] + failure[m]

(* What has to happen to a message before queueman may let go of it.  With *)
(* IsAutoAck one answer, whatever it is.                                   *)
Finished(m) == IF IsAutoAck THEN tried[m] # {} ELSE Outcomes(m) > 0

(* The code lets go of a message it did not count when an INCR fails or a  *)
(* retry cannot be encoded; the broker, when the retry queue is bound too  *)
(* late, or when it restarts and the queue is not durable.                 *)
Lossy == setup.fault \in {"incr", "encode", "slow"} \/ (Faulty("broker") /\ ~IsDurable)

(* At least once: otherwise the broker has a copy of every message until   *)
(* it was counted, although errors of ch.Publish and d.Ack are ignored and *)
(* channels, the process and a broker with durable queues may end between  *)
(* any two statements.                                                     *)
NothingForgotten ==
  ~Lossy => \A m \in pushed : Finished(m) \/ \E c \in ready \cup unacked : c.msg = m

(* Only what is lost makes duplicates.  While no channel and no process    *)
(* ended a message has one copy, is posted once per delay and counted once. *)
OnceUninterrupted ==
  drops + stops = 0 =>
    /\ \A c, d \in ready \cup unacked : c.msg = d.msg => c = d \/ \E e \in held :
         e.at = "settled" /\ e.copy \in {c, d}
    /\ \A d \in held : d.at = "post" => d.copy.cur \notin tried[d.copy.msg]
    /\ \A m \in Msgs : Outcomes(m) <= 1

AllTiers == IF FirstDelay(DelayOnFailure) > 0 THEN Tiers(DelayOnFailure) ELSE {}

(* How far duplicates can go: each interruption can repeat every delivery  *)
(* of a message and each repeated delivery can publish again, so the       *)
(* counts of a message are bounded by the ways to spread the interruptions *)
(* over its dispatches.                                                    *)
DuplicatesBounded ==
  LET dispatches == Cardinality(AllTiers) + 1
  IN  \A m \in Msgs : Outcomes(m) <= choose(drops + stops + dispatches, dispatches)

(* A message is not posted before the delay it was published with, and its *)
(* retry with delay d not before d seconds after its first failure,        *)
(* whichever of its deliveries failed, was repeated or came late.          *)
NeverEarly ==
  \A d \in held : d.at = "post" =>
    /\ d.copy.due <= now
    /\ d.copy.cur > 0 => failedAt[d.copy.msg] # Never
                         /\ failedAt[d.copy.msg] + d.copy.cur <= now

(* README, "after a failure": a message is counted as a failure only after *)
(* it was posted once for every delay of DelayOnFailure, unless a retry    *)
(* could not be encoded.                                                   *)
TiersExhausted ==
  \A m \in Msgs : failure[m] > 0 => tried[m] = {0} \cup AllTiers \/ Faulty("encode")

(* Every message is dispatched to its end: at last it is counted and the   *)
(* broker has no copy of it, duplicates included, but for copies that are  *)
(* due behind the bound of the clock.  A queue that is not durable does    *)
(* not come back from a restart of the broker.                             *)
Drained(m) ==
  /\ Finished(m) \/ \E c \in ready : c.msg = m
  /\ \A c \in ready : c.msg = m => c.due > MaxTime
  /\ \A d \in held : d.copy.msg # m
  /\ \A c \in unacked : c.msg # m

Drains == ~Lossy => \A m \in Msgs : (m \in pushed) ~> Drained(m)
=============================================================================
