-------------------------- MODULE RabbitRedelivery --------------------------
(***************************************************************************)
(* RabbitQueue implements Redelivery.  The broker owes what it has copies  *)
(* of, ready or delivered; a delivery is worked on until its goroutine has *)
(* counted the message or published the retry.                             *)
(***************************************************************************)
EXTENDS RabbitQueue

Owed(m) == {c.cur : c \in {k \in ready \cup unacked : k.msg = m}}

WorkedOn(m) == {d.copy.cur : d \in {e \in held : e.copy.msg = m /\ e.at # "settled"}}

Abstract == INSTANCE Redelivery WITH
  Delays <- AllTiers,
  accepted <- pushed,
  owed <- [m \in Msgs |-> Owed(m)],
  working <- [m \in Msgs |-> WorkedOn(m)],
  succeeded <- success,
  failed <- failure,
  calm <- (drops + stops = 0),
  lossy <- Lossy,
  auto <- IsAutoAck

(* README, "complete flow", "after a failure": whatever is interrupted,    *)
(* the queue is an implementation of Redelivery: the broker owes a message *)
(* until it is finished, a retry has the next delay, and nothing is done   *)
(* twice before the first interruption.                                    *)
RedeliveryPromise == Abstract!Spec
=============================================================================
