---------------------------- MODULE MCRedisQueue ----------------------------
(***************************************************************************)
(* Values for the constants of RedisQueue that a configuration file cannot *)
(* write down, and the symmetry of messages that play the same part.       *)
(***************************************************************************)
EXTENDS RedisDelivery, TLC

NoTiers == <<>>
TwoTiers == <<1, 3>>
RepeatedTiers == <<1, 1, 2>>

(* Only messages of one kind are interchangeable.                          *)
MsgSymmetry == Permutations(Msgs \ (RawMsgs \cup Foreign))
=============================================================================
