---------------------------- MODULE RetrySchedule ----------------------------
(***************************************************************************)
(* The pure part of the retry policy: which of the delays configured as    *)
(* DelayOnFailure a message is given after its next failed dispatch.       *)
(* Source: src/libs/queue/types/types.go and the head of QueueHandle.      *)
(*                                                                         *)
(* A schedule is the DelayOnFailure array of a queue, a sequence of        *)
(* integers (seconds).  0 as a result means "no further retry", exactly as *)
(* in the code, where both callers test the delay with "> 0".              *)
(***************************************************************************)
EXTENDS Integers, Sequences

(* sort.Ints on the array when the configuration is read.                  *)
IsSorted(sched) ==
  \A i, j \in DOMAIN sched : i < j => sched[i] <= sched[j]

Tiers(sched) == {sched[i] : i \in DOMAIN sched}

(* Mutant: the last element of the array instead of the first.             *)
FirstDelayLast(sched) == IF sched = <<>> THEN 0 ELSE sched[Len(sched)]

(* The delay of a message that fails in the main queue: element 0 of the   *)
(* array, whatever its sign, or 0 when the array is empty.                 *)
FirstDelay(sched) == IF sched = <<>> THEN 0 ELSE sched[1]

(* Mutant: the comparison with <= hands a tier out again.                  *)
BreaksAtOrEqual(sched, cur, i) ==
  /\ cur <= sched[i]
  /\ \A j \in 1..(i - 1) : sched[j] < cur

(* Index i is where the range loop of UnserializeDelayQueueData breaks:    *)
(* the first delay greater than the one the message has already served.    *)
BreaksAt(sched, cur, i) ==
  /\ cur < sched[i]
  /\ \A j \in 1..(i - 1) : sched[j] <= cur

NextDelay(sched, cur) ==
  IF \E i \in DOMAIN sched : BreaksAt(sched, cur, i)
  THEN sched[CHOOSE i \in DOMAIN sched : BreaksAt(sched, cur, i)]
  ELSE 0

(* UnserializeDelayQueueData without the payload: the delay to ask for if  *)
(* the dispatch that follows fails, by run mode of the loop.  In "retry"   *)
(* mode cur is the DelayTime stored with the message; in the other mode    *)
(* (and in ProcessNormal) the message has served no delay yet.             *)
DelayAfter(runMode, cur, sched) ==
  IF runMode = "retry" THEN NextDelay(sched, cur) ELSE FirstDelay(sched)
=============================================================================
