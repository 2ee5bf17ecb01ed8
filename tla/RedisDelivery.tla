---------------------------- MODULE RedisDelivery ----------------------------
(***************************************************************************)
(* RedisQueue implements Delivery.  A message waits while its copy is in   *)
(* Redis, with Consume or in a batch, and is being tried while a dispatch  *)
(* goroutine has it; it is lost when it has no copy and was not counted.   *)
(***************************************************************************)
EXTENDS RedisQueue

CopiesOf(m) == {c \in stored \cup held : c.msg = m}

StatusOf(m) ==
  IF m \notin pushed THEN "absent"
  ELSE IF success[m] > 0 THEN "succeeded"
  ELSE IF failure[m] > 0 THEN "failed"
  ELSE IF CopiesOf(m) = {} THEN "lost"
  ELSE IF \E c \in CopiesOf(m) : c.at \in AtWork THEN "trying"
  ELSE "waiting"

ServedOf(m) ==
  IF CopiesOf(m) = {} THEN 0 ELSE (CHOOSE c \in CopiesOf(m) : TRUE).cur

(* Without faults, stops and null replies only unreadable messages are     *)
(* lost.                                                                   *)
Losable ==
  IF Faults = {} /\ MaxStops = 0 /\ "null" \notin Replies THEN Msgs \ Readable ELSE Msgs

Abstract == INSTANCE Delivery WITH
  Delays <- AllTiers,
  MayLose <- Losable,
  status <- [m \in Msgs |-> StatusOf(m)],
  served <- [m \in Msgs |-> ServedOf(m)]

(* README, "complete flow" and "after a failure": the queue is an          *)
(* implementation of Delivery.  Every step of its goroutines, of Redis and *)
(* of the process is a step of that specification or leaves the message    *)
(* where it was.                                                           *)
DeliveryPromise == Abstract!Spec
=============================================================================
