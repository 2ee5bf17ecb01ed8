# queueman: models, checks and proofs

queueman moves messages from Redis lists, Redis sorted sets and RabbitMQ queues
to an HTTP receiver, retries the ones that fail after configured delays, and
counts successes and failures. This directory models that behaviour in TLA+,
checks small instances with TLC and proves the main safety properties with
TLAPS for all instances. Paths below are relative to the repository root.

## 1. Inventory

| Component | Source | State | Operations | What makes it correct | Here |
|---|---|---|---|---|---|
| Redis dispatcher | `libs/queue/redis/dispatcher.go`, `connection.go` | a list or sorted set and `<queue>:delayed` in Redis; the channel `deliveries`; a channel `concurency` per loop; the local variables of goroutines | `QueueHandle`, `ProcessNormal`, `ProcessDelay("first"/"retry")`, `Consume`, `Pop`, `Push`, `DelayPop`, `DelayPush` | a message is in one place, is never lost without cause, is not dispatched early, twice with one delay or past the concurrency bound, and is counted once | `RedisQueue` |
| Retry schedule | `libs/queue/types/types.go`, head of `QueueHandle` | none (`DelayOnFailure`, the `DelayTime` inside a message) | `SerializeDelayQueueData`, `UnserializeDelayQueueData` | every delay is used once, in ascending order | `RetrySchedule` |
| Dispatch request | `libs/request/request.go`, `libs/ohttp/ohttp.go` | a client and a transport per call | `Post`, `NewRequest`, `Do`, `ContentString` | every reply is either code 1 or a failure; a post ends within its timeout | `HttpPost`, `Duration`; its results in both queue modules |
| Counters | `libs/statistic/*.go` | `<queue>:success`, `<queue>:failure` | `IncrSuccessCounter`, `IncrFailureCounter`, `GetCounter` | a message is counted once | increments in both queue modules, reading in `StatsPage` |
| RabbitMQ dispatcher | `libs/queue/rabbitmq/dispatcher.go` | broker queue, delayed exchange, unacknowledged deliveries, `concurency` per loop | `QueueHandle`, `ProcessNormal`, `ProcessDelay` | at least once: acknowledged only after it was counted or published again; what is repeated, and how often, depends only on what was interrupted | `RabbitQueue` |
| RabbitMQ connections | `libs/queue/rabbitmq/connection.go`, `libs/aliyun/aliyun.go` | `packageInstance`, `packageOnce`, `packageMutex` | `URL`, `GetConnection` | one connection per configuration, never another's | `Processes` |
| Pid file | `libs/pidfile/*.go` | the file, the set of running pids | `New`, `Remove` | at most one process runs, and one can always start again | `Processes` |
| Process | `main.go`, `queueman.service` | goroutines per source, the pid file, the port | start, stop, crash, restart | a restart loses and repeats as little as possible; the service comes back | `Processes`; what a stop does to messages in both queue modules |
| Configuration | `libs/config/config.go` | the parsed file | `GetConfig` | arrays sorted, limits set | assumptions and guards of `RedisQueue`, the sources of `Processes` |
| Command line | `libs/command/command.go` | none | `GetArgs`, `GetStats`, `printTest` | the numbers of one page belong together; a wrong configuration starts nothing | `GetStats` in `StatsPage`, the rest in `Processes` |
| Utilities, constants, queue interface | `libs/utils`, `libs/constant`, `libs/queue/queue.go` | none | pure functions | | `QFactory` is part of a process's start in `Processes`; the rest is not modelled |

How they interact: `main` starts one goroutine per configured source, which
starts `QueueHandle` for each enabled queue. `QueueHandle` starts the retry loop
(if there is a `DelayOnFailure`), sleeps for a second and starts the main loop.
A loop fetches messages from Redis and starts one goroutine per message; this
one posts it, and then counts it or writes it into the retry queue, from which
the retry loop fetches it again. The two loops share no memory, only Redis; the
goroutines of a loop share its channel `concurency`, which is their semaphore.
A RabbitMQ queue has the same shape, but the broker keeps a message until it is
acknowledged: the two loops share one connection, the goroutines of a loop share
its channel `ch`, and a lost connection is replaced by the client library behind
their backs, while they go on.

Before all that `GetArgs` connects to every source, which fills the cache of
RabbitMQ connections, and `pidfile.New` looks at the pid file; after it `main`
listens on the port of the statistics page, whose handler reads lengths and
counters out of Redis without regard to the goroutines that change them. Systemd
starts the process again whenever it ends, and users may start others.

What is hard: hundreds of goroutines pop and push concurrently; messages are in
memory only, between Redis and their counting; every Redis call can fail before
or after it took effect and most results are ignored; every early return has to
give its slot back; the retry time is computed from a clock, a delay stored in
the message and another one in the configuration. With RabbitMQ a goroutine can post,
publish on one channel and acknowledge on another that no longer exists, beside
the goroutine that got the redelivery. Two processes can look at one pid file at
once, it outlives a crash and its pid is used again; a limit of time is computed in
64 bits. `PROJECT.json` lists these
hazards at their lines.

## 2. Modules

| Module | What it is |
|---|---|
| `RetrySchedule` | The pure functions: which delay follows which. |
| `RedisQueue` | One enabled Redis queue: its two loops and their goroutines, Redis, the clock, the receiver, faults, stops; its safety and liveness properties. |
| `Delivery` | The abstract specification: the life of a message, without goroutines, Redis or time. |
| `RedisDelivery` | The refinement mapping from `RedisQueue` to `Delivery`. |
| `RabbitQueue` | One enabled RabbitMQ queue: start-up, loops and goroutines, the broker, the reconnecting client, faults, stops; its safety and liveness properties. |
| `Redelivery` | The abstract specification for brokers that deliver again: what is owed, worked on and counted, without goroutines, channels or time. |
| `RabbitRedelivery` | The refinement mapping from `RabbitQueue` to `Redelivery`. |
| `StatsPage` | `RedisQueue` together with a reader of the statistics page (`GetStats`). |
| `HttpPost` | One call of `Post`: client, endpoints, both time limits, the decoding of the reply. |
| `Duration` | `time.Duration` as four digits of base 2^16: multiplication that wraps around. |
| `Processes` | The processes of one host: command line, pid file, port, systemd, the cache of RabbitMQ connections. |
| `MCRedisQueue`, `MCRabbitQueue`, `MCStatsPage`, `MCHttpPost`, `MCProcesses` | Values of constants for TLC. |
| `RetryScheduleProofs` | The retry schedule as the code computes it and as it should be; the ways to spread interruptions over its dispatches. |
| `RedisQueueProofs` | Redis queues: types, custody, semaphores, memory. |
| `RedisDeliveryProofs` | Redis queues: times, tiers, nothing forgotten, and the refinement of `Delivery`. |
| `StatsPageProofs` | The statistics page beside a Redis queue. |
| `RabbitQueueProofs` | RabbitMQ queues: types, lineage of copies, custody, semaphores. |
| `RabbitRetryProofs` | RabbitMQ queues: times, tiers, at least once, once if uninterrupted, how often otherwise, and the refinement of `Redelivery`. |
| `HttpPostProofs` | A success of `Post`, and its time limit. |
| `ProcessesProofs` | The pid file, and the cache of connections. |

What composes what: `StatsPage` extends `RedisQueue`, and every step of the queue is
a step of the composition. The two queue modules take from `HttpPost` what a `Post` can
return (`ok`, `fail`, `null`), and `Processes` takes from them that a
process which dispatches fetches and posts messages; these interfaces are small
enough to be constants, so that no run multiplies the states of both sides.

### How RedisQueue corresponds to the code

State. A message is represented by its *copies*, one for every place in which
the program keeps its payload; `stored` are those in Redis, `held` those in
memory. A copy's `at` says which variable, channel or key it is in:

| `at` | in the code |
|---|---|
| `list` | the Redis list `QueueName` |
| `zset` | the sorted set `QueueName` (loop `main`) or `<QueueName>:delayed` (loop `retry`) |
| `popped` | the variable `d` of a goroutine of `Consume` |
| `channel` | the channel `deliveries` |
| `batch` | `queueData` received by `ProcessNormal`, or `queueDatas` of `ProcessDelay` |
| `post`, `ok`, `failed` | a dispatch goroutine before and after `Post` returned |

`pc[l]` is the place of loop `l`'s own goroutine (`off`, `sleep` in
`QueueHandle`, `idle` at the head of its `for`, `pop` inside `DelayPop`, `spawn`
with a batch in hand) and `slots[l]` the length of its channel `concurency`.
`success` and `failure` are each message's share of the two counters. `pushed`,
`tried` and `failedAt` are history variables, used by properties and by no guard
of the code's actions.

| Action | Code |
|---|---|
| `QueueHandle`, `StartMain` | `dispatcher.go` 46-75 |
| `Pop`, `Deliver` | `connection.go` 21-71: a goroutine of `Consume`, the `RPOP` and the send to `deliveries` |
| `Receive` | `dispatcher.go` 89: `range deliveries` |
| `Acquire`, `DelayPop` | `dispatcher.go` 183-213 with `connection.go` 114-159 |
| `Spawn`, `SpawnUndecodable` | `dispatcher.go` 91-98 and 215-228 |
| `Reply`, `ReplyNull` | `request.go` 30-78 |
| `CountSuccess`, `Requeue`, `GiveUp` | `dispatcher.go` 110-157 and 247-295 |
| `Stop` | `queueman.service` line 10, and any other end of the process |
| `Push`, `PushForeign`, `Tick` | developers, others who write into Redis, the clock |

Three points where code and action differ in shape:

- The order of the list and of `deliveries` is not kept. Up to 200 goroutines
  pop concurrently, so the code does not keep it either.
- `Acquire` and `DelayPop` are two steps because the loop holds a slot while it
  waits for Redis, in competition with its dispatches. `DelayPop` itself is one
  step: `MULTI`/`EXEC` is atomic and no other goroutine sees the loop's locals.
- `Post` is one step from the call to the return. The message's place does not
  change in between, and its slot is held from `Spawn` on.

The text of a message is abstracted to two sets. `RawMsgs` are messages that are
not the JSON of a `DelayData` (`DelayPop` skips them unless `IsDelayRaw`).
`Foreign` are entries somebody other than `DelayPush` put into the retry queue;
these cannot be decoded. The code never produces one, so `Foreign` is empty
except where a run is about it.

`Faults` names what can go wrong: the answer of `RPOP` or of `EXEC` is lost
after Redis executed it (`rpop`, `exec`), `ZADD` or `INCR` is not executed
(`zadd`, `incr`), or `SerializeDelayQueueData` returns an error (`encode`; the
present encoder never does). A Redis command that fails before it is executed
and is tried again changes nothing and is a stuttering step.

### How RabbitQueue corresponds to the code

`ready` and `unacked` are the copies of messages in the broker, in the main
queue or in `<queue>.delayed` (`loop`), deliverable from their `due` time on.
`held` are the deliveries in the process: a copy, the `epoch` of the channel that
delivered it, and `at`:

| `at` | in the code |
|---|---|
| `buffered` | in the client library, on its way to `range msgs` |
| `received` | the loop's variable `delivery`, waiting for a slot |
| `post`, `ok`, `failed` | a goroutine before and after `Post` returned |
| `settled` | counted or published, before `d.Ack` |
| `acked` | acknowledged, not yet counted (`IsAutoAck`, or an encoding error) |

`open[l]` and `epoch[l]` describe loop `l`'s channel, `bindings` how far the
declarations of the retry queue are. `path`, the epochs of the deliveries a copy
descends from, is not in the code; it tells two copies of one message apart.

| Action | `dispatcher.go` |
|---|---|
| `QueueHandle`, `StartMain` | 52-80, and the declarations of `ProcessNormal` |
| `DeclareExchange`, `BindAndConsume` | 269-311, in the goroutine of the retry loop |
| `Receive`, `Spawn`, `SpawnUndecodable` | 130-135 and 318-334 |
| `Reply`, `ReplyNull` | the `Post` of 145 and 349 |
| `CountSuccess`, `CountFailure`, `Publish`, `PublishNowhere`, then `Ack` | 153-229 and 357-430 |
| `AckFirst`, then `CountAcked` | 148-151 and 172-175, 352-355 and 376-379 |
| `Stop` | a signal, `log.Fatalf` of 446, the panic of 87 on a nil connection |

Not in the repository, and modelled from how it is used: the broker (`Deliver`,
`Unrouted`) and `go-amqp-reconnect` (`ChannelsLost`, `Drop`, `Reopen`). What
matters about them is that a closed channel makes its unacknowledged copies
ready again, that the library then consumes on a new channel into the same Go
channel `msgs`, that `ch.Publish` uses the new one, and that `d.Ack` goes to the
one the delivery came from and fails if that is closed. Of what the library has
buffered a closed channel keeps at most the delivery just being handed over.
Every statement of a goroutine that changes something outside it is a step of
its own, so a loss can come between any two.

`setup` never changes. It holds the switches `IsDelayQueue`, `IsAutoAck` and
`IsDurable`, the one thing that may go wrong (`fault`) and how often channels
are lost and the process ends. A run takes its initial states from a set of such
setups, `Setups`, and so asks the same question of several situations.

A restart of the broker (`BrokerRestart`) closes all channels. With `IsDurable` it
keeps every copy (`Kept`): the code declares durable queues and publishes retries as
persistent, and developers are taken to publish theirs persistent too. Without,
queues and bindings are gone; the client library then tries to consume from a
queue that does not exist, until the process restarts and declares it again. A
restart of the broker while queues are being declared ends the process by
`failOnError` and is the action `Stop`.

`Redelivery` sees of this, per message, the delays of its copies in the broker (`owed`),
those of its deliveries that have not counted or published yet (`working`), `tried`, the two
counts, and whether anything was interrupted so far (`calm`). `Push` is `Accept`, `Deliver`
is `Begin`, `Reply` is `Answer`, `Publish` is `Retry`, the counting actions are `Succeed` and `GiveUp`,
and all the others, acknowledgements, lost channels, restarts and stops, are `Release`.

Not modelled: the exchange types, and the memory the client needs for deliveries
(no `Qos` is set, so there is no bound to state).

### How StatsPage corresponds to the code

The page is a list of numbers. The model follows one message of them all,
`watched`, chosen when the page is begun among the messages there are, and
`shown`, the fields that count it: a field is the number of messages that are in
`shown` of it. Each of the four reads is one Redis command and one action
(`ReadNormal` 149-153, `ReadDelayed` 155-158, `ReadSuccess` 160, `ReadFailure`
161-165 of `command.go`); between two of them the queue of `RedisQueue` takes any
steps (`QueueMoves`). `away` and `stirred` are history variables. `GetStats` shows 0 for a
number it could not read; that case is left out, since it makes any page possible.

### How HttpPost corresponds to the code

| `phase` | in the code |
|---|---|
| `new` | `Post` before `NewRequest` returned |
| `dial` | `dialTimeout`, called by the transport, for each redirect anew |
| `wait` | connected, the request is sent, no header yet |
| `body` | `ContentString` |
| `done` | `Post` returned, or its caller panicked |

Time is seconds, and passes in steps of one second while dialling and in longer
pauses while an endpoint is silent. `ClientTimeout` is the product of both
multiplications by `time.Second`, in the 64-bit arithmetic of `Duration`; TLC's own
integers have 32 bits. `json.Unmarshal` is modelled by what it does to `Code` for five
kinds of bodies, among them one whose error comes after `Code` was filled. The net/http
package (redirects, the meaning of `Timeout`) is external.

### How Processes corresponds to the code

`stage` of a pid is how far the process with this pid is; `free` means that there
is none, `other` that another program has the pid.

| `stage` | in the code |
|---|---|
| `args` | `GetArgs`, including `printTest` |
| `check`, `stat` | `checkPIDFileAlreadyExists` before `ReadFile`, and between it and `processExists`; `found` is what it read |
| `create`, `write` | before the open, and between the open and the write of `ioutil.WriteFile`, which truncates first |
| `blind` | like `write`, but the file it has open has been removed |
| `run` | `main` from line 129 on: the dispatchers have been started |
| `serve` | `ListenAndServe`, or the loop of line 157 |

`cache[p]` is `packageInstance` of process `p` and `conns[p]` whose connection the
queues of each source use. A source is what `Config` holds; the fields that end
up in the key are sequences, so that the key is their concatenation, as in the code.
Systemd is modelled from `queueman.service`: it restarts the process whenever it
ends, without limit, and removes the file named by `PIDFile=` once the process has
ended. `same` says whether that is the file of the configuration; both are considered.

Abstractions: pids are equally long, so that two processes that write at once
leave one of the two pids in the file (their digits do not mix). `Remove` does not occur: it is called only by the deferred
function of `main`, and nothing that runs in `main`'s own goroutine after `New` panics;
every other end of the process (`Fatal`, a panic in another goroutine, a signal)
leaves the file behind. `main.go` imports `pidfile` from docker; `libs/pidfile` is the
repository's copy of it, and the one modelled.

## 3. Properties

Of `RedisQueue`:

- `TypeOK`: types; in particular `slots` never goes below zero.
- `ConcurrencyBound`, `SlotsAccounted`: what the semaphore is worth. The second
  is the stronger one: every token belongs to a goroutine that will take it out.
- `AtMostOnce`: one copy, one count, and no copy after the count. It holds with
  every fault and stop: queueman loses messages but never duplicates one.
- `NothingForgotten`: a pushed message is somewhere or counted. True without
  faults; `redis_null_reply` shows one way in which it is not otherwise, section 6 others.
- `NeverEarly`: not before the trigger time, not before the first failure plus
  the delay. It relates the score `DelayPush` computes, the delay inside the
  message, and the time of a failure several dispatches ago.
- `NoTierTwice`, `TiersExhausted`: the tiers are used once each, and all of them
  before a message is counted as a failure.
- `MemoryBound`: what one stop of a normal queue can take. The main loop holds no more
  than the capacities allow, 401 messages and `Concurency` dispatches. The
  retry loop comes on top, and its batch has no bound, since `DelayPop` takes every due
  entry; but all that it holds has failed before and is due. A delay
  queue, both of whose loops are `ProcessDelay`, has no bound at all.
- `DeliveryPromise`: all of it together, as an implementation of `Delivery`.
- `Settles` (liveness): every pushed message is counted at last.

Of `RabbitQueue`:

- `TypeOK`, `ConcurrencyBound`, `SlotsAccounted`, `NeverEarly`, `TiersExhausted`:
  as above, now with goroutines that outlive their channel, and duplicates.
  `ConcurrencyBound` is the code's bound, `Concurency` for both loops;
  `RetryConcurrencyBound` is the README's for the retry loop, `DelayConcurency`, and is
  violated (section 6).
- `UnackedAccounted`: what the broker waits for is exactly what goroutines of the
  present channel are working on, copies that cannot be decoded apart. It finds a
  path that forgets `d.Ack`, and an acknowledgement of somebody else's delivery.
- `NothingForgotten`: at least once, without exception for stops, lost
  connections and restarts of a broker with durable queues. `Lossy` names the faults
  under which it is not promised. It is not obvious, since the errors of
  `ch.Publish` and `d.Ack` are both ignored: a publish fails on a closed channel, and the message survives
  because the acknowledgement that follows fails too. The mutant that lets it
  succeed on the new channel loses messages.
- `OnceUninterrupted`: duplicates come from interruptions only.
- `DuplicatesBounded`: how many there can be. `n` interruptions and `k` retry
  delays allow `choose(n + k + 1, k + 1)` counts of one message, because a
  repeated delivery publishes again and its copies are repeated in turn.
  `rabbit_reconnect` attains the bound (4 counts after one lost connection).
- `RedeliveryPromise`: all of it together, as an implementation of `Redelivery`; in
  addition the order of the delays, for every dispatch and after any interruption: a
  retry has the next delay after that of the dispatch it comes from, never skipping one.
- `Drains` (liveness): every message is counted and all its copies acknowledged.

Of `StatsPage`:

- `PageMisses`: a message pushed before the page was begun is missing on it only if it
  was in memory when the last length was read, or has been lost. This rests on the
  order of the reads, which is the direction in which messages move.
- `PageRepeats`: a message is counted by several fields only if it moved while the
  page was read, and never both as a success and as a failure.

Of `HttpPost`:

- `NeverCutShort`: whatever the multiplication makes of `DispatchTimeout`, no call
  ends before it. It depends on no wrapped value being positive and small, which is
  so for timeouts below 408208 seconds: that one is given 392881.
- `SuccessSound`: code 1 only for a well-formed body with code 1, after some endpoint
  received the form.
- `EndsUnlessHeld` (liveness): only an endpoint that accepted the connection can hold
  a call for ever; dialling and redirects end by themselves.

Of `Processes`:

- `Exclusive`: two processes dispatch side by side only if one passed the check while
  another was between check and write, or systemd removed the file of a live one. It
  covers crashes, pids used again and files left behind.
- `PortDecides` (liveness): with a statistics page, two processes do not stay side by
  side, however they came to be.
- `Recovers` (liveness): the service comes back for good once its sources stay
  reachable and no stale file names a pid that is in use.
- `OnePerKey`: a process dials once per key of its cache, and the queues of a source use
  the connection dialled for the first source with their key, in whatever order and
  however often their goroutines ask. It says nothing of whose key that is.
- `OwnConnection`: a queue uses a connection made for its own source, user and
  `AliyunParams` included. The code does not keep this (section 6).

## 4. Runs

| Run | Instance | Result |
|---|---|---|
| `redis_normal` | normal queue, 2 messages, `Concurency` 2, delays 1 and 3, fair | all safety properties, `DeliveryPromise` and `Settles` |
| `redis_delay` | delay queue, 2 messages and 1 unreadable, delays 1, 1, 2, fair | `NeverEarly`, `DeliveryPromise`, `Settles` |
| `redis_faults` | all faults and replies, one stop, one foreign entry, `DelayConcurency` 2 | all but those that cannot hold and those proved |
| `redis_stats` | 5 messages, 1 delay, one place in each buffer, a reader | `PageMisses`, `PageRepeats`, `MemoryBound` |
| `redis_null_reply` | a receiver may answer `null` | `NothingForgotten` violated |
| `redis_leaked_slot` | one foreign entry, `DelayConcurency` 1 | `Settles` violated |
| `rabbit_normal` | 2 messages, 1 delay, 8 setups: 1 lost channel; `IsAutoAck` with a lost channel and a stop; a delay queue with 2 stops; each fault alone | custody, slots, at least once, no duplicate without interruption, `RedeliveryPromise` |
| `rabbit_reconnect` | 1 message, 2 delays, `Concurency` 2, fair, 5 setups: 1 lost channel; the same with late declarations; a delay queue with a stop; a restart of the broker, durable or not | times, tiers, bounded duplicates, `RedeliveryPromise`, `Drains` |
| `rabbit_unsorted` | delays 2, 1 in this order | `TiersExhausted` violated |
| `processes` | 3 pids, 3 sources with two keys, the service, 1 user's process, 2 kills or failures, fair | all other properties of `Processes` |
| `http_post` | 15 timeouts, dial limit 2, 2 redirects, 3 pauses, fair | `NeverCutShort`, `SuccessSound`, `EndsUnlessHeld` |
| `http_timeout` | a timeout of 30 seconds | `TimeoutHonoured` violated |

Bounds, and why they are enough. Two messages suffice for every interference
between two messages of one loop or of two, and let a batch be longer than the
free slots; `redis_faults` and `redis_delay` have a third. `PopperCap` and
`DeliveryCap` are 1 (200 in the code): the buffers fill, and `redis_stats` has
one message more than all of them hold. Two tiers have a first, a next and a last
one; the repeated delay tests the comparison. `MaxTime` lets the last tier come
due. One stop of a Redis queue is enough: after it the process is as it was at
its start, except for Redis, and a second one meets nothing new. With RabbitMQ
interruptions multiply copies, so one setup has two stops; one lost channel
(`drops`) makes two goroutines with one message and up to four copies.
The clock stops at `MaxTime`; what is due behind that is excepted in `Settles`
and `Drains`. Deadlock is checked for Redis queues with a retry loop, which
polls. It is not where nothing is left to do: RabbitMQ, whose loops block in `range msgs`, a
call of `Post` that has returned, and runs that look at a part of the behaviour.

`redis_stats` has neither stops nor faults, which would make it too large for a run
of a few minutes with as many messages as `MemoryBound` needs; `Forgotten` in
`PageMisses` is therefore idle in it. With 3 messages, a stop and the faults `incr` and `zadd`
the two properties of the page hold as well (1.8 million states). One watched message is
enough, since the page's fields count messages one by one.

`processes`: three pids are the least for a service, a user's process and another
program, or a pid nobody has; two kills let a process crash, its pid be taken, and the
next one crash too. With one user every pair of processes has at most one that
systemd did not start; the theorem `ExclusiveHolds` has no such bound. The
sources are two virtual hosts of one Aliyun account and one of another Type whose
host, user and virtual host, run together, give the key of the first.

`http_post`: the timeouts are negative, none, up to 9 seconds (which do not wrap), and others
that wrap once or often, to a limit above or below zero. The pauses reach two
positive limits exactly: that of 79321 (483048 seconds, the smallest limit any
timeout up to a day is given) and that of 1 (10^9 seconds).

`redis_faults` leaves out `SlotsAccounted` and `NothingForgotten`, which cannot
hold with foreign entries and faults, and `ConcurrencyBound`, which is proved with them. Messages of one kind are symmetric; the
runs with a liveness property use no symmetry.

Fairness (`FairSpec`). Weak fairness of the clock, of the process's start, and of
each kind of goroutine step: the Go scheduler runs what can run, Redis answers,
and a receiver answers at last. The last assumption stands for the timeout of
`Post`; it is on the environment, and the only one the code does not discharge
by itself: `HttpPost` assumes nothing of endpoints, and shows that they can hold a call. A send on a full `concurency` is
only required to succeed if it stays possible: nothing assumes that Go treats
waiting senders fairly, weak fairness of "some entry of the batch is spawned"
is enough. `Push` and `Stop` are not fair. `RabbitQueue` has the same fairness; in
addition the library reopens a lost channel. `Drop` is not fair.

`HttpPost` assumes that the program and its clock go on (`Prepare`, `Dialling`,
`DialTimesOut`, `ClientTimesOut`) and nothing of endpoints. `Processes` assumes that a process
which can take its next step does, and that systemd restarts the unit each
time: `Restart=always`, `StartLimitInterval=0`. Users, other programs, kills and the
reachability of the sources are not fair.

## 5. Proofs

Every safety property a run checks is also a theorem, for every value of the
constants under the assumptions below. So are the refinements
`DeliveryPromise` and `RedeliveryPromise`. The runs and the theorems complement each other: a run also
shows that the interesting states occur, and the theorem has no bounds.

| Property | Theorem | Assumed beyond the specification |
|---|---|---|
| `RedisQueue`: `TypeOK`, `ConcurrencyBound`, `AtMostOnce`, `MemoryBound`, `NeverEarly`, `NoTierTwice` | `...Holds` in `RedisQueueProofs`, `RedisDeliveryProofs` | nothing: all faults, any number of stops |
| `SlotsAccounted` | `RedisQueueProofs` | no foreign entries (section 6) |
| `TiersExhausted`, `DeliveryPromise` | `RedisDeliveryProofs` | encoding does not fail, as it never does at present |
| `NothingForgotten` | `RedisDeliveryProofs` | no stop, no fault of Redis, no reply `null`: each makes it false (section 6) |
| `PageMisses` | `StatsPageProofs` | no foreign entries if there is no `DelayOnFailure`: the page then does not look into `<queue>:delayed` |
| `PageRepeats` | `StatsPageProofs` | nothing |
| `RabbitQueue`: `TypeOK`, `ConcurrencyBound`, `SlotsAccounted`, `UnackedAccounted` | `RabbitQueueProofs` | nothing: any setup, faults, lost channels, broker restarts, stops |
| `NeverEarly`, `NothingForgotten`, `OnceUninterrupted`, `DuplicatesBounded` | `RabbitRetryProofs` | nothing (`NothingForgotten` itself excepts `Lossy`) |
| `TiersExhausted`, `RedeliveryPromise` | `RabbitRetryProofs` | `DelayOnFailure` is sorted; `rabbit_unsorted` shows why |
| `SuccessSound` | `HttpPostProofs` | nothing |
| `NeverCutShort` | `HttpPostProofs` | timeouts below 408208 seconds, the first for which it is false |
| `Processes`: `TypeOK`, `Exclusive`, `OnePerKey` | `ProcessesProofs` | nothing: any pids, users, kills, sources, equal keys included |

"Nothing" includes the named assumptions of the modules, which the runs evaluate:
`ConfigAssumption` (a finite set of messages; for Redis queues a sorted schedule,
since `GetConfig` sorts it) and `ProcessAssumption`.

### The schedule

`RetryScheduleProofs` relates the loop of `UnserializeDelayQueueData` to what it is
for. In a sorted array it returns the least greater delay, or 0 if there is none
(`NextDelayLeast`, by well-foundedness of the natural numbers), repeated and
negative delays included. A message's *stages* are 0 and the positive delays;
`DelayAfterNextStage` says that the delay after a failure is the next stage, and
that there is none only if all have been used. Both queue modules rest on it.

`AscendingChoose` is what `DuplicatesBounded` counts with: there are `choose(n + k, k)`
lists of `k` numbers up to `n` that never fall. It goes by the least `k`, and for it the
least `n`, for which this is false, since the library's induction theorems cannot be used;
a list either stays below `n` or ends in it, which is Pascal's rule.

### RedisQueue

`TypeOK` is not inductive: that `slots` is natural depends on what the slots
stand for. So the argument has layers, each an inductive invariant relative to
the ones before:

1. `TypeInv`: types with `slots` integer, and finiteness of `stored` and `held`.
2. `OnceInv`: `AtMostOnce` plus "only pushed messages have copies or counts".
3. `LoopInv`: a copy in a batch belongs to a loop that is at `spawn`; a process
   that is off holds nothing; lists feed the main loop only. Without it a
   loop inside `DelayPop` could find a batch of its own and lose a token.
4. `SlotsInv`: tokens = dispatches at work + one inside `DelayPop` (at least, and
   exactly without foreign entries), and at most the capacity. It needs
   `OnceInv`: two equal copies would share a slot in the count of a set. From it
   `ConcurrencyBound`, `SlotsAccounted` and `TypeOK` follow.
5. `PopInv` and `MemoryInv`: `DelayPop` serves the main loop of delay queues only;
   the poppers and the channel of a normal queue hold no more than their
   capacities, and `ProcessNormal` has one message in hand. Together with
   `SlotsInv` they add up to `MainBounded`, the first half of `MemoryBound`; the other
   half, what the retry loop can hold, follows from the next two.
6. `TimeInv`: a stored copy's delay has passed at its score, a held copy's has
   passed now. The step that matters is `Requeue`: the score adds the difference
   of two delays to the present time, which is at least the first failure plus
   the delay already served. From it `NeverEarly` follows.
7. `TierInv`: what a message has been posted with is exactly the stages below its
   copy's delay. From it `NoTierTwice` and, with `ExhaustedNext`, `TiersExhausted`
   follow.

`NothingForgotten` is inductive with `TypeInv` and `PopInv`. What matters is that no
step drops a copy of a readable message: `DelayPop` skips what it cannot unwrap and
the goroutine of `SpawnUndecodable` returns without a trace, and both meet only
messages the configuration does not promise to read.

The refinement. `Delivery` knows a message by its status and the delay it was last
served with. With one copy at most (`OnceInv`) these are functions of that copy
(`Seen`), so a step that moves a copy between places of one status is a stutter
(`Kept`). `Spawn` is `Try`, `CountSuccess` is `Succeed`, `GiveUp` is `GiveUp`, and `Requeue` is
`Retry`: by `TierInv` the delay is the next one, not just any later one. The hard
cases are the steps that lose messages: a stop, a lost answer of Redis or an
undecodable entry takes several messages out of memory at once, and each must be
one `Delivery` lets the environment lose (`LostNow`, and `StutterOrLoss` makes one
step of `Lose` of them).

### StatsPage

A reader changes nothing, so the queue's invariants hold beside it (`PageReads`).
The page is a matter of what cannot be undone, `Ages`: a message that has left the
key it was pushed to does not return to it, a message without copies stays without, a
count stays. `MissInv` collects, read by read, what a message that was not counted
so far has already gone through; this is where the order of the four reads matters.
`RepeatInv` is the same for the fields that did count it.

### RabbitQueue

The broker duplicates: a copy may be delivered again while goroutines of a lost
channel still work on the first delivery, and each may publish a retry. The
argument therefore starts with the identity of copies:

1. `TypeInv`, as above.
2. `LineageInv`: a copy is known by its message and its `path`, the epochs of the
   deliveries it descends from; a delivery has no descendants before it published,
   and a copy waiting in the broker has none by the present channel. Hence what
   `ch.Publish` adds is a new copy (`ChildIsNew`). Sets would otherwise merge two copies, and
   counting them would mean nothing.
3. `CustodyInv`: of the deliveries of a copy only that of the present channel can
   acknowledge it, and while the copy is unacknowledged that delivery is there.
   This is `UnackedAccounted`, and is inductive with `LineageInv` only: otherwise
   a delivery on an old channel could be taken for one on the new.
4. `SlotsInv`: tokens = goroutines at work, exactly. A lost channel takes no goroutine's
   token, and no delivery from the buffer has one.
5. `TimeInv` and `AnswerInv`, `TierInv`: as for Redis, with the due time of a copy in place of
   a score. A copy's own history is no longer the message's: its brothers may be
   ahead. So `TierInv` says that at least the stages below its delay were
   tried, where for Redis it says exactly.
6. `StartInv` and `BoundInv`: a channel is open only while its loop runs, and a delivery that
   can still be acknowledged has its channel open; the retry
   queue is bound before the main loop can fail, unless the fault `slow` occurs.
7. `KeptInv`: a delivery that is settled but not acknowledged has counted its message or
   left a descendant with the broker (`HasHeir`). This is the step between
   `ch.Publish` and `d.Ack` that makes `NothingForgotten` true although the errors of both are
   ignored: if the publish was lost so was the channel, and then the
   acknowledgement is void as well.
8. `OnceInv`: while nothing is interrupted one copy bears the message, the one
   whose delivery has not yet counted or published; it is the last of its line.
   Between `ch.Publish` and `d.Ack` there are two copies, and only one bears it. From it
   `OnceUninterrupted` follows.
9. `PathInv` and `DuplicateInv`: the *trace* of a delivery is the list of epochs of the deliveries
   it descends from, its own included; it is no longer than the schedule has
   dispatches. Each count of a message has a trace, and none of these goes on another,
   nor does any copy in the broker go on one (`Separate`): a delivery that counts
   publishes nothing, and one that published does not count. `Timeline` notes how many
   interruptions there had been when each channel began; no two channels of one loop
   began with the same number. So what a trace tells of the
   interruptions (`Noted`) is a list of numbers that never falls, two counted traces tell
   different things, and `AscendingChoose` bounds how many there are. The number 1 in the bound's
   `k + 1` is the first dispatch, in the main queue. The retries of a message all pass
   through one loop with one channel at a time, which is why the number of epochs
   and not the number of goroutines matters.

The refinement of `Redelivery` needs most of these at once (`RedeliveryInv`). A step that
neither publishes, delivers, answers nor counts must be a `Release` (`StepReleases`): nobody
begins to work (`WorkShrinks`), the broker lets go only of what was tried (`OwedUntilTried`, from
`AnswerInv` and `BoundInv`), and of the last copy of a message only when it is finished (`KeptInv`).
A dispatch that ends is a `Settle` (`DispatchSettles`), which by `OnceInv` counts or retries only what
was not counted before, as long as nothing was interrupted; `NextIsLeastGreater` makes
the delay of a retry the next one. The sets `owed` and `working` forget how many copies and
deliveries there are with one delay, so a `Settle` may leave `working` as it was.

### HttpPost

`SuccessSound` speaks of the end of a call; it needs `Accepted`, that whoever waits for a header
or a body, or was redirected to a GET, has had the form accepted by some
endpoint. `NeverCutShort` needs arithmetic. The limit of `t` seconds is what 64 bits keep
of `t * 10^18`, and for most `t` that is the product less `q * 2^64`, in no
order. A limit that is positive and shorter than the timeout would put `q / t` so close below
`10^18 / 2^64` that it lies between 20148/371665 and 1981/36543. These are neighbours in the
sense of Farey (`1981 * 371665 - 20148 * 36543 = 1`), and every fraction between neighbours has at least
the sum of their denominators in its own: `t >= 408208` (`NoFraction`). This is the exact
boundary, so that the default of 30 seconds and all other timeouts up to four days and a
half are covered. `ThousandMultiplies` and `SecondMultiplies` show digit by digit that `Duration` computes
that product: the carries between digits cancel, the last one is the wrap. `Upper`, the number
without its lowest digit, loses nothing, since 2^16 divides `10^18` (`LimitUpper`).
tlapm folds products of numerals in machine integers, which is wrong above
2^62; the proof keeps all its numerals below, and so does not depend on it.

### Processes

`Exclusive` is not inductive: it says nothing of a process between its check
and its write. `Listed` adds that, unless the history went wrong, at most one process is
past the check, the file names it as soon as it dispatches, and none writes into a
removed file. Most actions only move one process back to a stage before the check
(`Retreat`) or on within the stages that dispatch (`Advance`); the steps that matter are
`Passed`, `Write` and `UnitEnds`. Between `ReadFile` and `Passed` the file can change, which is one
of the races.

The cache: `PrimedTo(n, ...)` says what the loop of `printTest` has left in it after `n`
sources: one entry for each key among them, that of the first source with it. The loop is a
recursive function, whose values are shown for every length by taking the least
length that fails. Once it is done every source finds its key, so that a later
`GetConnection` changes nothing (`IsPrimed`), and a queue's connection is the first with
its key (`ConnsFirst`). From both (`CacheInv`) `OnePerKey` follows without a word on
whether keys are different.

### What the proofs changed in the models

A proof attempt found that `StatusOf` of the refinement mapping was a `CASE` whose
guards overlap, which TLA+ leaves unspecified and TLC evaluates in order; it is an
`IF` chain now. `ProcessAssumption` had not said that `Sources` is a sequence, and
`QueueMoves` compared `watched` with a value outside `Msgs` where the phase of the reader
says the same. `RabbitQueue` extends `Combinatorics` openly, since a proof cannot cite the
definition of a locally instantiated `choose`.

### What stays with TLC

`Settles`, `Drains`, `EndsUnlessHeld`, `PortDecides` and `Recovers` are liveness under
fairness, which is out of the prover's reach.

## 6. What the models show to go wrong

Four runs have a violation as their result; `PROJECT.json` quotes the lines. A
receiver that answers `null` ends the process and a Redis queue loses what it
has in memory; an entry of a Redis retry queue that cannot be decoded costs a
slot for ever; an unsorted `DelayOnFailure` of a RabbitMQ queue loses tiers; and a
`DispatchTimeout` is multiplied to 31.7 years a second, and from 10 seconds on wraps
around, 30 seconds to no limit at all.

The models show more, with other constants than the configurations use:

- `RedisQueue`, `NothingForgotten`: violated with `"zadd"` in `Faults` (the result of
  `DelayPush` is ignored, `redis/dispatcher.go` 133 and 271), with `"rpop"` or `"exec"`,
  and with `MaxStops = 1` (messages leave Redis before they are dispatched).
- `RedisQueue`, `Settles`: violated with `DelayConcurency = 0`; the value is never
  checked and the retry loop blocks at line 185 for ever.
- `RedisQueue`: the main loop of a delay queue is limited by `DelayConcurency`,
  not `Concurency` (`Capacity`).
- `RabbitQueue`, `RetryConcurrencyBound`: violated with `Concurency = 2`, `DelayConcurency = 1`
  and two messages. Lines 239 and 430 of the repository's `README.md` and `rabbitmq/types.go` 27 give `DelayConcurency` as
  the number of dispatches from the retry queue; `rabbitmq/dispatcher.go` 316 makes the channel with
  `Concurency`, and nothing in `rabbitmq/` reads the other.
- `RedisQueue`: a stop of a normal queue takes the retry loop's batch too, which no
  capacity bounds: after an outage of the receiver that may be all messages there are
  (`MemoryBound` only says that they are due).
- `RabbitQueue`, `NothingForgotten`: violated with `"slow"` in `Faults`: `QueueHandle`
  sleeps for a second where its comment (line 73) says it waits for the binding.
- `RabbitQueue`: the goroutine of a foreign entry returns without `d.Ack` (lines
  325-334); the copy stays unacknowledged, which `UnackedAccounted` excepts.
- `RabbitQueue`: after a restart of a broker without durable queues the loops
  consume nothing until the process restarts, and nobody is told.
- With `IsAutoAck` a failed dispatch is counted as a success and never retried.
- `Processes`: without the history variable `raced`, `Exclusive` is violated. Two processes
  that start together both pass the check. With `queueman.service` and the same pid file, a
  process a user started is enough: the service is refused and ends, systemd
  removes the file of the user's process, and the service's next start dispatches
  beside it. If the port is taken it ends after having fetched messages, and the same
  happens again each second. Without a statistics page both stay.
- `Processes`: the dispatchers are started before `ListenAndServe`, so that a process
  which finds the port taken has already taken messages from Redis.
- `Processes`, `OwnConnection`: violated. The key of the cache is taken before `URL()` computes user
  and password from `AliyunParams`, and line 406 of the repository's `README.md` says to keep `User`
  empty for Aliyun; so of two accounts on one host and virtual host (`TwoAccounts`) the queues of the second
  use the connection of the first, logged in as its user. The key is also a concatenation
  without separators, so that sources of different hosts, users or virtual hosts can share a connection;
  the instance of `processes` has such a pair and violates it too.
- `Processes`, `Recovers`: a file that names a pid in use by another program keeps the
  service from starting for as long as that program runs, which the property excepts;
  `processExists` asks for any process, not for queueman.
- `HttpPost`: after a 301, 302 or 303 the endpoint is asked with GET and without the message;
  its code 1 counts all the same.

Seen while reading, without a model: `BuildQuery` replaces `info\\\":[]` by `info\\\":{}` in
the encoded form (`ohttp.go` 249), a leftover of another program; counters are keyed by
`QueueName` alone, so two sources with queues of one name share them (`command.go` 160); `GetStats`
shows a number it could not read as 0; a password of Aliyun, which contains the time, is
computed once and used for every reconnect; `InitStatistic` writes `packageConfig` for every
request while goroutines read it, each time with the same value.

## 7. Plan, and what is not modelled

The safety properties of all modules are proved, as far as section 5 says. Left to
do, in this order:

1. Several queues of one process that share counters or a retry queue.
2. Where two modules state one lemma each about their own goroutines (`WorkingMoved`,
   `SlotsKept`), one lemma about sets that both use.

Not modelled: the functions of `ohttp` no other package calls (cookies, `Get`, header
texts), the encoding of the form, the computation of Aliyun signatures, usage
texts and the layout of the statistics page, logging other than the log file that
cannot be opened, and the reading of the configuration file: they keep no state that a
property is about. `supervisor.conf` is a second way to keep the process alive; it
restarts as systemd does and removes no pid file, so it adds nothing to the
case `~same` of `Processes`. The pid files of macOS and Windows differ in
`processExists` only.
