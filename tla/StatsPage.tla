------------------------------ MODULE StatsPage ------------------------------
(***************************************************************************)
(* The statistics of a Redis queue, as /statistic and -s show them         *)
(* (command.GetStats): two lengths and two counters, read one after the    *)
(* other with a command each, while the queue of RedisQueue goes on moving *)
(* messages.  The reader is a request's goroutine or a process of its own, *)
(* so a stop of the queue's process need not stop it.                      *)
(* Source: src/libs/command/command.go, src/libs/queue/redis/connection.go,*)
(* src/libs/statistic/.                                                    *)
(*                                                                         *)
(* A field is the number of the messages it counts.  What the page says of *)
(* one message, any one, is kept: the fields that count it.                *)
(***************************************************************************)
EXTENDS RedisQueue

Fields == {"Normal", "Delayed", "Success", "Failure"}

VARIABLES
  reader,    \* the field GetStats reads next; "done": the page is complete
  watched,   \* history: a message, any one of those pushed before the page
  shown,     \* history: the fields that count it
  away,      \* history: it was in memory when the last length was read
  stirred    \* history: it moved since the page was begun

pageVars == <<reader, watched, shown, away, stirred>>

NoMsg == "none"
-----------------------------------------------------------------------------
(* Helpers *)

InMemory(m) == \E c \in held : c.msg = m

(* LLEN of the list, or for a delay queue ZCOUNT of the sorted set.        *)
Length == {c.msg : c \in {d \in stored : d.loop = "main"}}

(* DelayLength of <queue>:delayed                                          *)
DelayLength == {c.msg : c \in {d \in stored : d.loop = "retry"}}

(* GET of a counter *)
GetCounter(counter) == {m \in Msgs : counter[m] > 0}

(* Mutant: the first delay alone does not count as a DelayOnFailure.       *)
AfterNormalOffByOne == IF Len(DelayOnFailure) > 1 THEN "Delayed" ELSE "Success"

(* The next field: Delayed is left out without a DelayOnFailure.           *)
AfterNormal == IF Len(DelayOnFailure) > 0 THEN "Delayed" ELSE "Success"

(* The field takes its number from these messages.                         *)
Shows(f, msgs) == shown' = IF watched \in msgs THEN shown \cup {f} ELSE shown
-----------------------------------------------------------------------------
(* GetStats *)

ReadNormal(m) ==
  /\ reader = "Normal"
  /\ m \in pushed
  /\ watched' = m
  /\ shown' = IF m \in Length THEN {"Normal"} ELSE {}
  /\ away' = InMemory(m)
  /\ reader' = AfterNormal
  /\ UNCHANGED <<vars, stirred>>

ReadDelayed ==
  /\ reader = "Delayed"
  /\ Shows("Delayed", DelayLength)
  /\ away' = InMemory(watched)
  /\ reader' = "Success"
  /\ UNCHANGED <<vars, watched, stirred>>

ReadSuccess ==
  /\ reader = "Success"
  /\ Shows("Success", GetCounter(success))
  /\ reader' = "Failure"
  /\ UNCHANGED <<vars, watched, away, stirred>>

(* Mutant: the name of the other counter, copied and not changed.          *)
ReadFailureCopied ==
  /\ reader = "Failure"
  /\ Shows("Failure", GetCounter(success))
  /\ reader' = "done"
  /\ UNCHANGED <<vars, watched, away, stirred>>

ReadFailure ==
  /\ reader = "Failure"
  /\ Shows("Failure", GetCounter(failure))
  /\ reader' = "done"
  /\ UNCHANGED <<vars, watched, away, stirred>>

(* The page has been sent; there may be another request.                   *)
Serve ==
  /\ reader = "done"
  /\ reader' = "Normal"
  /\ watched' = NoMsg
  /\ shown' = {}
  /\ away' = FALSE
  /\ stirred' = FALSE
  /\ UNCHANGED vars
-----------------------------------------------------------------------------
(* The queue moves on while the page is read.                              *)

Traces(m) == <<{c \in stored \cup held : c.msg = m}, success[m], failure[m]>>

QueueMoves ==
  /\ reader # "done"
  /\ Next
  /\ UNCHANGED <<reader, watched, shown, away>>
  /\ stirred' = (stirred \/ (reader # "Normal" /\ Traces(watched)' # Traces(watched)))

StatsInit ==
  /\ Init
  /\ reader = "Normal"
  /\ watched = NoMsg
  /\ shown = {}
  /\ away = FALSE
  /\ stirred = FALSE

StatsNext ==
  \/ QueueMoves
  \/ \E m \in Msgs : ReadNormal(m)
  \/ ReadDelayed
  \/ ReadSuccess
  \/ ReadFailure
  \/ Serve

StatsSpec == StatsInit /\ [][StatsNext]_<<vars, pageVars>>
-----------------------------------------------------------------------------
(* Properties *)

(* What a stop of the process or a lost command has cost.                  *)
Forgotten(m) ==
  /\ \A c \in stored \cup held : c.msg # m
  /\ success[m] + failure[m] = 0

(* Messages move from the queue to the delayed ones and to the counters,   *)
(* and the page reads in this order: a message pushed before the page was  *)
(* begun is missing on it only if it was in a goroutine's hands at one     *)
(* moment, when the last of the lengths was read, or is lost.  So Total    *)
(* falls short by no more than what was being fetched and dispatched then. *)
PageMisses ==
  reader = "done" /\ shown = {} => away \/ Forgotten(watched)

(* A message can be counted up to three times on its way from field to     *)
(* field, but only if it moved while the page was read, and never both as  *)
(* a success and as a failure.                                             *)
PageRepeats ==
  reader = "done" =>
    /\ Cardinality(shown) > 1 => stirred
    /\ ~({"Success", "Failure"} \subseteq shown)
=============================================================================
