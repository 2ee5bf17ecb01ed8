---------------------------- MODULE MCRabbitQueue ----------------------------
(***************************************************************************)
(* Values for the constants of RabbitQueue that a configuration file       *)
(* cannot write down, and the symmetry of its messages.                    *)
(***************************************************************************)
EXTENDS RabbitRedelivery, TLC

OneTier == <<1>>
TwoTiers == <<1, 2>>
UnsortedTiers == <<2, 1>>

Quiet == [isDelay |-> FALSE, autoAck |-> FALSE, durable |-> TRUE,
          fault |-> "none", drops |-> 0, stops |-> 0]

Interrupted == [Quiet EXCEPT !.drops = 1]

(* Two messages: lost channels, with both kinds of acknowledging; a delay  *)
(* queue whose process is killed; what can go wrong while none is lost.    *)
SideBySide ==
  {Interrupted, [Interrupted EXCEPT !.autoAck = TRUE, !.stops = 1],
   [Quiet EXCEPT !.isDelay = TRUE, !.stops = 2],
   [Quiet EXCEPT !.autoAck = TRUE, !.fault = "incr"]} \cup
  {[Quiet EXCEPT !.fault = f] : f \in {"incr", "encode", "slow", "foreign"}}

(* One message on all its way: lost channels, the process killed, and the  *)
(* broker restarted.                                                       *)
OneByOne ==
  {Interrupted, [Interrupted EXCEPT !.fault = "slow"],
   [Quiet EXCEPT !.isDelay = TRUE, !.stops = 1]} \cup
  {[Interrupted EXCEPT !.fault = "broker", !.durable = d] : d \in BOOLEAN}

JustQuiet == {Quiet}

MsgSymmetry == Permutations(Msgs)
=============================================================================
