--------------------------- MODULE StatsPageProofs ---------------------------
(***************************************************************************)
(* What the statistics page can miss and what it can count twice, for      *)
(* every value of the constants of RedisQueue.  The page reads and writes  *)
(* nothing, so the invariants of RedisQueue hold beside it.                *)
(***************************************************************************)
EXTENDS StatsPage, RedisQueueProofs

(* A reader of the page does not disturb the queue.                        *)
LEMMA PageReads == [StatsNext]_<<vars, pageVars>> => [Next]_vars
BY DEF StatsNext, QueueMoves, ReadNormal, ReadDelayed, ReadSuccess, ReadFailure, Serve, vars

(* So what was proved of the queue holds beside it.                        *)
LEMMA QueueCorrect == StatsSpec => [](TypeInv /\ OnceInv)
<1>1. StatsInit => TypeInv /\ OnceInv
  BY TypeInvInit, OnceInvInit DEF StatsInit
<1>2. TypeInv /\ OnceInv /\ [StatsNext]_<<vars, pageVars>> => (TypeInv /\ OnceInv)'
  BY PageReads, TypeInvNext, OnceInvNext
<1> QED  BY <1>1, <1>2, PTL DEF StatsSpec
-----------------------------------------------------------------------------
(***************************************************************************)
(* Where a message can go.  It has copies only if it was pushed; it never  *)
(* returns to the key it was pushed to; a message without copies, once it  *)
(* was pushed, has none for ever; and counters do not go down.             *)
(***************************************************************************)
Without(m) == \A c \in stored \cup held : c.msg # m

LeftMain(m) == \A c \in stored : c.msg = m => c.loop # "main"

(* What the queue does to a pushed message in a step.                      *)
Ages(m) ==
  /\ Without(m) => Without(m)'
  /\ LeftMain(m) => LeftMain(m)'
  /\ success[m] > 0 => success'[m] > 0
  /\ failure[m] > 0 => failure'[m] > 0
  /\ Without(m) => success'[m] = success[m] /\ failure'[m] = failure[m]

(* A message that is counted gets older.                                   *)
LEMMA AgesCounted ==
  ASSUME TypeInv, NEW m \in Msgs, NEW c \in held, held' = held \ {c}, UNCHANGED stored,
         \/ success' = Counted(success, c.msg) /\ UNCHANGED failure
         \/ failure' = Counted(failure, c.msg) /\ UNCHANGED success
  PROVE  Ages(m)
<1>1. c.msg \in Msgs /\ success[m] \in Nat /\ failure[m] \in Nat
  BY DEF TypeInv, Copy
<1>2. /\ success'[m] = success[m] \/ (success'[m] = success[m] + 1 /\ c.msg = m)
      /\ failure'[m] = failure[m] \/ (failure'[m] = failure[m] + 1 /\ c.msg = m)
  BY <1>1 DEF TypeInv, Counted
<1> QED  BY <1>1, <1>2 DEF Ages, Without, LeftMain

(* No step makes a message younger: it goes from the list by memory and    *)
(* the retry queue to a counter.                                           *)
LEMMA MessageAges ==
  ASSUME TypeInv, OnceInv, [Next]_vars, NEW m \in pushed
  PROVE  Ages(m)
<1>1. m \in Msgs
  BY DEF TypeInv
<1>2. ASSUME UNCHANGED <<stored, success, failure>>, held' \subseteq held  PROVE Ages(m)
  BY <1>2 DEF Ages, Without, LeftMain
<1>3. ASSUME \/ Tick \/ Stop \/ QueueHandle \/ StartMain \/ UNCHANGED vars
             \/ \E l \in Loops : Acquire(l)
             \/ \E c \in held : SpawnUndecodable(c) \/ ReplyNull(c)
      PROVE  Ages(m)
  BY <1>2, <1>3 DEF Tick, Stop, MemoryLost, QueueHandle, StartMain, Acquire, SpawnUndecodable,
                    ReplyNull, vars
<1>4. ASSUME NEW k \in Msgs, Push(k) \/ PushForeign(k)  PROVE Ages(m)
  <2>1. PICK d : d.msg = k /\ stored' = stored \cup {d}
    BY <1>4 DEF Push, PushForeign
  <2>2. k # m /\ UNCHANGED <<held, success, failure>>
    BY <1>4 DEF Push, PushForeign
  <2> QED  BY <2>1, <2>2 DEF Ages, Without, LeftMain
<1>5. ASSUME NEW c \in held, NEW p \in HeldAt, held' = Moved(c, p),
             UNCHANGED <<stored, success, failure>>
      PROVE  Ages(m)
  <2> DEFINE d == [c EXCEPT !.at = p]
  <2>1. c \in Copy
    BY DEF TypeInv
  <2>2. d.msg = c.msg
    BY <2>1, MovedCopy
  <2>3. held' = (held \ {c}) \cup {d}
    BY <1>5 DEF Moved
  <2> HIDE DEF d
  <2> QED  BY <1>5, <2>2, <2>3 DEF Ages, Without, LeftMain
<1>6. ASSUME NEW c \in held, Deliver(c) \/ Receive(c) \/ Spawn(c) \/ Reply(c)  PROVE Ages(m)
  BY <1>5, <1>6 DEF Deliver, Receive, Spawn, Reply, HeldAt
<1>7. ASSUME NEW c \in stored, Pop(c)  PROVE Ages(m)
  <2> DEFINE d == [c EXCEPT !.at = "popped"]
  <2>1. c \in Copy /\ "popped" \in HeldAt
    BY DEF TypeInv, HeldAt
  <2>2. d.msg = c.msg
    BY <2>1, MovedCopy
  <2>3. /\ stored' \subseteq stored /\ held' \subseteq held \cup {d}
        /\ UNCHANGED <<success, failure>>
    BY <1>7 DEF Pop
  <2> HIDE DEF d
  <2> QED  BY <2>2, <2>3 DEF Ages, Without, LeftMain
<1>8. ASSUME NEW l \in Loops, DelayPop(l)  PROVE Ages(m)
  <2> DEFINE due == {c \in stored : c.at = "zset" /\ c.loop = l /\ Due(c)}
             read == {c \in due : Unwraps(c)}
             batch == {[c EXCEPT !.at = "batch"] : c \in read}
  <2>1. /\ stored' \subseteq stored /\ held' \subseteq held \cup batch
        /\ UNCHANGED <<success, failure>>
    BY <1>8 DEF DelayPop
  <2>2. ASSUME NEW d \in batch  PROVE \E c \in stored : d.msg = c.msg
    <3>1. PICK c \in read : d = [c EXCEPT !.at = "batch"]
      OBVIOUS
    <3>2. c \in Copy /\ c \in stored /\ "batch" \in HeldAt
      BY DEF TypeInv, HeldAt
    <3> QED  BY <3>1, <3>2, MovedCopy
  <2> HIDE DEF batch
  <2> QED  BY <2>1, <2>2 DEF Ages, Without, LeftMain
<1>9. ASSUME NEW c \in held, CountSuccess(c)  PROVE Ages(m)
  BY <1>1, <1>2, <1>9, AgesCounted DEF CountSuccess
<1>10. ASSUME NEW c \in held, GiveUp(c)  PROVE Ages(m)
  BY <1>1, <1>2, <1>10, AgesCounted DEF GiveUp
<1>11. ASSUME NEW c \in held, Requeue(c)  PROVE Ages(m)
  <2>1. /\ stored' \subseteq stored \cup {Delayed(c)} /\ held' \subseteq held
        /\ UNCHANGED <<success, failure>>
    BY <1>11 DEF Requeue
  <2>2. Delayed(c).msg = c.msg /\ Delayed(c).loop = "retry"
    BY DEF Delayed
  <2> QED  BY <2>1, <2>2 DEF Ages, Without, LeftMain
<1> QED
  BY <1>3, <1>4, <1>6, <1>7, <1>8, <1>9, <1>10, <1>11 DEF Next, Fetching, Dispatching
-----------------------------------------------------------------------------
(***************************************************************************)
(* The page.                                                               *)
(***************************************************************************)

(* Without a DelayOnFailure nothing is in the retry loop's hands, unless   *)
(* somebody else put it there.                                             *)
NoRetries ==
  DelayOnFailure = <<>> => \A c \in stored \cup held : c.loop = "retry" => c.msg \in Foreign

(* The invariant holds at first.                                           *)
LEMMA NoRetriesInit == Init => NoRetries
BY DEF Init, NoRetries

(* Every step keeps it.                                                    *)
LEMMA NoRetriesNext == TypeInv /\ NoRetries /\ [Next]_vars => NoRetries'
<1> SUFFICES ASSUME TypeInv, NoRetries, [Next]_vars, DelayOnFailure = <<>>
             PROVE  \A c \in stored' \cup held' : c.loop = "retry" => c.msg \in Foreign
  BY DEF NoRetries
<1>1. ASSUME NEW c \in held  PROVE ~Requeue(c)
  <2>1. DelayFor(c) = 0
    BY NoDelays DEF DelayFor, DelayAfter, TypeInv, Copy
  <2> QED  BY <2>1 DEF Requeue
<1>2. ASSUME stored' \cup held' \subseteq stored \cup held
      PROVE  \A c \in stored' \cup held' : c.loop = "retry" => c.msg \in Foreign
  BY <1>2 DEF NoRetries
<1>3. ASSUME \/ Tick \/ Stop \/ QueueHandle \/ StartMain \/ UNCHANGED vars
             \/ \E l \in Loops : Acquire(l)
             \/ \E c \in held : SpawnUndecodable(c) \/ ReplyNull(c) \/ CountSuccess(c) \/ GiveUp(c)
      PROVE  stored' \cup held' \subseteq stored \cup held
  BY <1>3 DEF Tick, Stop, MemoryLost, QueueHandle, StartMain, Acquire, SpawnUndecodable,
              ReplyNull, CountSuccess, GiveUp, vars
<1>4. ASSUME NEW m \in Msgs, Push(m) \/ PushForeign(m)
      PROVE  \A c \in stored' \cup held' : c.loop = "retry" => c.msg \in Foreign
  BY <1>4 DEF Push, PushForeign, NoRetries
<1>5. ASSUME NEW c \in stored \cup held, NEW p \in HeldAt
      PROVE  [c EXCEPT !.at = p].loop = c.loop /\ [c EXCEPT !.at = p].msg = c.msg
  <2>1. c \in Copy
    BY DEF TypeInv
  <2> QED  BY <2>1, MovedCopy
<1>6. ASSUME NEW c \in stored, Pop(c)
      PROVE  \A d \in stored' \cup held' : d.loop = "retry" => d.msg \in Foreign
  <2> DEFINE d == [c EXCEPT !.at = "popped"]
  <2>1. d.loop = c.loop /\ d.msg = c.msg
    BY <1>5 DEF HeldAt
  <2>2. stored' \subseteq stored /\ held' \subseteq held \cup {d}
    BY <1>6 DEF Pop
  <2> HIDE DEF d
  <2> QED  BY <2>1, <2>2 DEF NoRetries
<1>7. ASSUME NEW c \in held, NEW p \in HeldAt, held' = Moved(c, p), UNCHANGED stored
      PROVE  \A d \in stored' \cup held' : d.loop = "retry" => d.msg \in Foreign
  <2> DEFINE d == [c EXCEPT !.at = p]
  <2>1. d.loop = c.loop /\ d.msg = c.msg
    BY <1>5
  <2>2. held' \subseteq held \cup {d}
    BY <1>7 DEF Moved
  <2> HIDE DEF d
  <2> QED  BY <1>7, <2>1, <2>2 DEF NoRetries
<1>8. ASSUME NEW c \in held, Deliver(c) \/ Receive(c) \/ Spawn(c) \/ Reply(c)
      PROVE  \A d \in stored' \cup held' : d.loop = "retry" => d.msg \in Foreign
  BY <1>7, <1>8 DEF Deliver, Receive, Spawn, Reply, HeldAt
<1>9. ASSUME NEW l \in Loops, DelayPop(l)
      PROVE  \A d \in stored' \cup held' : d.loop = "retry" => d.msg \in Foreign
  <2> DEFINE due == {c \in stored : c.at = "zset" /\ c.loop = l /\ Due(c)}
             read == {c \in due : Unwraps(c)}
             batch == {[c EXCEPT !.at = "batch"] : c \in read}
  <2>1. stored' \subseteq stored /\ held' \subseteq held \cup batch
    BY <1>9 DEF DelayPop
  <2>2. ASSUME NEW d \in batch  PROVE \E c \in stored : d.loop = c.loop /\ d.msg = c.msg
    <3>1. PICK c \in read : d = [c EXCEPT !.at = "batch"]
      OBVIOUS
    <3>2. c \in stored /\ "batch" \in HeldAt
      BY DEF HeldAt
    <3> QED  BY <1>5, <3>1, <3>2
  <2> HIDE DEF batch
  <2> QED  BY <2>1, <2>2 DEF NoRetries
<1> QED
  BY <1>1, <1>2, <1>3, <1>4, <1>6, <1>8, <1>9 DEF Next, Fetching, Dispatching

(* What is known of the watched message between the reads.                 *)
PageInv ==
  /\ reader \in Fields \cup {"done"}
  /\ reader = "Normal" => shown = {}
  /\ reader # "Normal" => watched \in pushed

(* What none of the fields read so far counted.                            *)
MissInv ==
  /\ reader # "Normal" /\ shown = {} => LeftMain(watched)
  /\ reader \notin {"Normal", "Delayed"} /\ shown = {} => away \/ Without(watched)
  /\ reader \in {"Failure", "done"} /\ shown = {} => away \/ success[watched] = 0
  /\ reader = "done" /\ shown = {} => away \/ failure[watched] = 0

(* What they counted: a counter stays, a length as long as the message     *)
(* does not move.                                                          *)
RepeatInv ==
  /\ shown \subseteq Fields
  /\ "Success" \in shown => success[watched] > 0
  /\ "Failure" \in shown => failure[watched] > 0
  /\ ~stirred /\ "Normal" \in shown => \E c \in stored : c.msg = watched /\ c.loop = "main"
  /\ ~stirred /\ "Delayed" \in shown => \E c \in stored : c.msg = watched /\ c.loop = "retry"

(* The invariant holds at first.                                           *)
LEMMA PageInit == StatsInit => PageInv /\ MissInv /\ RepeatInv
BY DEF StatsInit, PageInv, MissInv, RepeatInv, Fields

(* A message that was pushed was pushed.                                   *)
LEMMA PushedStays == [Next]_vars => pushed \subseteq pushed'
BY DEF Next, Fetching, Dispatching, Push, PushForeign, Tick, Stop, MemoryLost, QueueHandle,
       StartMain, Pop, Deliver, Receive, Acquire, DelayPop, Spawn, SpawnUndecodable, Reply,
       ReplyNull, CountSuccess, Requeue, GiveUp, vars

(* Every step keeps it.                                                    *)
LEMMA PageNext == PageInv /\ [StatsNext]_<<vars, pageVars>> => PageInv'
<1> SUFFICES ASSUME PageInv, [StatsNext]_<<vars, pageVars>>  PROVE PageInv'
  OBVIOUS
<1>1. pushed \subseteq pushed'
  BY PageReads, PushedStays
<1> QED
  BY <1>1 DEF PageInv, StatsNext, QueueMoves, ReadNormal, ReadDelayed, ReadSuccess, ReadFailure,
              Serve, Shows, AfterNormal, Fields, pageVars

(* The queue moves, or nothing does.                                       *)
LEMMA QueueAges ==
  ASSUME TypeInv, OnceInv, PageInv, [Next]_vars, reader # "Normal"
  PROVE  Ages(watched)
BY MessageAges DEF PageInv

(* The invariant of PageMisses, field by field.                            *)
LEMMA MissNext ==
  ASSUME Foreign = {} \/ DelayOnFailure # <<>>
  PROVE  TypeInv /\ OnceInv /\ NoRetries /\ PageInv /\ MissInv /\ [StatsNext]_<<vars, pageVars>>
           => MissInv'
<1> SUFFICES ASSUME TypeInv, OnceInv, NoRetries, PageInv, MissInv,
                    [StatsNext]_<<vars, pageVars>>
             PROVE  MissInv'
  OBVIOUS
<1>1. CASE QueueMoves \/ UNCHANGED <<vars, pageVars>>
  <2>1. [Next]_vars /\ UNCHANGED <<reader, watched, shown, away>>
    BY <1>1 DEF QueueMoves, pageVars
  <2>2. reader # "Normal" => Ages(watched)
    BY <2>1, QueueAges
  <2> QED  BY <2>1, <2>2 DEF Ages, MissInv, Without, LeftMain
<1>2. ASSUME NEW m \in Msgs, ReadNormal(m)  PROVE MissInv'
  <2>1. /\ watched' = m /\ reader' \in {"Delayed", "Success"} /\ UNCHANGED <<stored, held>>
        /\ away' = InMemory(m)
        /\ shown' = {} => m \notin Length
        /\ reader' = "Success" => DelayOnFailure = <<>>
    <3>1. Len(DelayOnFailure) > 0 \/ DelayOnFailure = <<>>
      BY ConfigAssumption
    <3> QED  BY <1>2, <3>1 DEF ReadNormal, AfterNormal, vars
  <2>2. m \notin Length => LeftMain(m)
    BY DEF Length, LeftMain
  <2>3. DelayOnFailure = <<>> /\ LeftMain(m) /\ ~InMemory(m) => Without(m)
    BY DEF NoRetries, LeftMain, InMemory, Without, TypeInv, Copy, Loops
  <2> QED  BY <2>1, <2>2, <2>3 DEF MissInv, LeftMain, Without
<1>3. CASE ReadDelayed
  <2>1. /\ reader = "Delayed" /\ reader' = "Success"
        /\ UNCHANGED <<watched, stored, held, success, failure>>
        /\ away' = InMemory(watched)
        /\ shown' = {} => shown = {} /\ watched \notin DelayLength
    BY <1>3 DEF ReadDelayed, Shows, vars
  <2>2. LeftMain(watched) /\ watched \notin DelayLength /\ ~InMemory(watched) => Without(watched)
    BY DEF DelayLength, LeftMain, InMemory, Without, TypeInv, Copy, Loops
  <2> QED  BY <2>1, <2>2 DEF MissInv, LeftMain, Without
<1>4. CASE ReadSuccess
  <2>1. /\ reader = "Success" /\ reader' = "Failure"
        /\ UNCHANGED <<watched, away, stored, held, success, failure>>
        /\ shown' = {} => shown = {} /\ watched \notin GetCounter(success)
    BY <1>4 DEF ReadSuccess, Shows, vars
  <2>2. watched \notin GetCounter(success) => success[watched] = 0
    BY <2>1 DEF GetCounter, PageInv, TypeInv
  <2> QED  BY <2>1, <2>2 DEF MissInv, LeftMain, Without
<1>5. CASE ReadFailure
  <2>1. /\ reader = "Failure" /\ reader' = "done"
        /\ UNCHANGED <<watched, away, stored, held, success, failure>>
        /\ shown' = {} => shown = {} /\ watched \notin GetCounter(failure)
    BY <1>5 DEF ReadFailure, Shows, vars
  <2>2. watched \notin GetCounter(failure) => failure[watched] = 0
    BY <2>1 DEF GetCounter, PageInv, TypeInv
  <2> QED  BY <2>1, <2>2 DEF MissInv, LeftMain, Without
<1>6. CASE Serve
  BY <1>6 DEF Serve, MissInv
<1> QED  BY <1>1, <1>2, <1>3, <1>4, <1>5, <1>6 DEF StatsNext

(* The invariant of PageRepeats.                                           *)
LEMMA RepeatNext ==
  TypeInv /\ TypeInv' /\ OnceInv /\ PageInv /\ RepeatInv /\ [StatsNext]_<<vars, pageVars>>
    => RepeatInv'
<1> SUFFICES ASSUME TypeInv, TypeInv', OnceInv, PageInv, RepeatInv,
                    [StatsNext]_<<vars, pageVars>>
             PROVE  RepeatInv'
  OBVIOUS
<1>1. CASE QueueMoves \/ UNCHANGED <<vars, pageVars>>
  <2>1. [Next]_vars /\ UNCHANGED <<reader, watched, shown, away>>
    BY <1>1 DEF QueueMoves, pageVars
  <2>2. shown # {} => reader # "Normal" /\ Ages(watched)
    BY <2>1, QueueAges DEF PageInv
  <2>3. ASSUME ~stirred', shown # {}, NEW c \in stored, c.msg = watched
        PROVE  ~stirred /\ c \in stored'
    <3>1. CASE UNCHANGED <<vars, pageVars>>
      BY <2>3, <3>1 DEF vars, pageVars
    <3>2. CASE QueueMoves
      <4>1. ~stirred /\ Traces(watched)' = Traces(watched)
        BY <2>2, <2>3, <3>2 DEF QueueMoves
      <4>2. {e \in stored' \cup held' : e.msg = watched} = {e \in stored \cup held : e.msg = watched}
        BY <2>1, <4>1 DEF Traces
      <4>3. c \in stored' \cup held'
        BY <2>3, <4>2
      <4>4. c \notin held'
        BY DEF TypeInv, StoredAt, HeldAt
      <4> QED  BY <4>1, <4>3, <4>4
    <3> QED  BY <1>1, <3>1, <3>2
  <2>4. stirred => stirred'
    BY <1>1 DEF QueueMoves, pageVars
  <2> QED  BY <2>1, <2>2, <2>3, <2>4 DEF Ages, RepeatInv
<1>2. ASSUME NEW m \in Msgs, ReadNormal(m)  PROVE RepeatInv'
  BY <1>2 DEF ReadNormal, RepeatInv, Length, Fields, vars
<1>3. CASE ReadDelayed
  BY <1>3 DEF ReadDelayed, Shows, DelayLength, RepeatInv, Fields, vars
<1>4. CASE ReadSuccess
  BY <1>4 DEF ReadSuccess, Shows, GetCounter, RepeatInv, Fields, vars
<1>5. CASE ReadFailure
  BY <1>5 DEF ReadFailure, Shows, GetCounter, RepeatInv, Fields, vars
<1>6. CASE Serve
  BY <1>6 DEF Serve, RepeatInv
<1> QED  BY <1>1, <1>2, <1>3, <1>4, <1>5, <1>6 DEF StatsNext

(* A message pushed before the page was begun is missing on it only if it  *)
(* was in memory when the last length was read, or is lost: no order of    *)
(* the reads and the queue's steps hides another one.  (Without a          *)
(* DelayOnFailure the page does not look into <queue>:delayed, so there    *)
(* must be no entries of others in it.)                                    *)
THEOREM PageMissesHolds ==
  ASSUME Foreign = {} \/ DelayOnFailure # <<>>
  PROVE  StatsSpec => []PageMisses
<1>1. TypeInv /\ PageInv /\ MissInv => PageMisses
  <2> SUFFICES ASSUME TypeInv, PageInv, MissInv, reader = "done", shown = {}, ~away
               PROVE  Forgotten(watched)
    BY DEF PageMisses
  <2>1. Without(watched) /\ success[watched] = 0 /\ failure[watched] = 0
    BY DEF MissInv
  <2> QED  BY <2>1 DEF Without, Forgotten
<1>2. StatsInit => Init
  BY DEF StatsInit
<1>3. [StatsNext]_<<vars, pageVars>> => [Next]_vars
  BY PageReads
<1> QED  BY <1>1, <1>2, <1>3, QueueCorrect, NoRetriesInit, NoRetriesNext, PageInit, PageNext,
            MissNext, PTL DEF StatsSpec

(* No message is counted twice on a page during which it did not move, and *)
(* none both as a success and as a failure.                                *)
THEOREM PageRepeatsHolds == StatsSpec => []PageRepeats
<1>1. TypeInv /\ OnceInv /\ PageInv /\ RepeatInv => PageRepeats
  <2> SUFFICES ASSUME TypeInv, OnceInv, PageInv, RepeatInv, reader = "done"
               PROVE  /\ Cardinality(shown) > 1 => stirred
                      /\ ~({"Success", "Failure"} \subseteq shown)
    BY DEF PageRepeats
  <2>1. /\ watched \in Msgs /\ success[watched] \in Nat /\ failure[watched] \in Nat
        /\ success[watched] + failure[watched] <= 1
    BY DEF PageInv, TypeInv, OnceInv
  <2>2. ~({"Success", "Failure"} \subseteq shown)
    BY <2>1 DEF RepeatInv
  <2>3. ASSUME ~stirred, NEW f \in shown, NEW g \in shown  PROVE f = g
    <3>1. \A c \in stored : c.msg = watched => success[watched] = 0 /\ failure[watched] = 0
      BY <2>1 DEF OnceInv, Owned
    <3>2. \A c, d \in stored : c.msg = watched /\ d.msg = watched => c.loop = d.loop
      BY DEF OnceInv, Unique
    <3>3. f \in Fields /\ g \in Fields
      BY DEF RepeatInv
    <3> QED  BY <2>1, <2>2, <2>3, <3>1, <3>2, <3>3 DEF RepeatInv, Fields
  <2>4. ASSUME ~stirred  PROVE ~(Cardinality(shown) > 1)
    <3>1. CASE shown = {}
      BY <3>1, FS_EmptySet
    <3>2. ASSUME NEW f \in shown  PROVE Cardinality(shown) = 1
      <4>1. shown = {f}
        BY <2>3, <2>4
      <4> QED  BY <4>1, FS_Singleton
    <3> QED  BY <3>1, <3>2
  <2> QED  BY <2>2, <2>4
<1> QED  BY <1>1, QueueCorrect, PageInit, PageNext, RepeatNext, PTL DEF StatsSpec
=============================================================================
