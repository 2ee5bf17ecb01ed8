----------------------------- MODULE MCStatsPage -----------------------------
(***************************************************************************)
(* Values for the constants of StatsPage, and the symmetry of messages.    *)
(***************************************************************************)
EXTENDS StatsPage, TLC

OneTier == <<1>>

MsgSymmetry == Permutations(Msgs)
=============================================================================
