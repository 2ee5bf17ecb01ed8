----------------------------- MODULE Redelivery -----------------------------
(***************************************************************************)
(* What queueman promises about a message of a broker that delivers again  *)
(* what was not acknowledged: the broker owes it until it was counted, and *)
(* it is tried with the delays in ascending order.  As long as nothing was *)
(* interrupted (calm) it is tried once with each, and counted once.        *)
(***************************************************************************)
EXTENDS Integers

CONSTANTS
  Msgs,
  Delays      \* the set of delays, positive numbers

VARIABLES
  accepted,   \* the messages published
  owed,       \* per message: the delays with which the broker has it
  working,    \* per message: the delays with which it is being worked on
  tried,      \* per message: the delays it was tried with, 0 at first
  succeeded,  \* per message: how often it was counted as a success
  failed,     \* per message: how often it was counted as a failure
  calm,       \* nothing was interrupted so far
  lossy,      \* messages may get lost; this never changes
  auto        \* one answer is enough, whatever it is; this never changes

vars == <<accepted, owed, working, tried, succeeded, failed, calm, lossy, auto>>

Stages == {0} \cup Delays

Greater(d) == {e \in Delays : d < e}

Counts(m) == succeeded[m] + failed[m]

Finished(m) == IF auto THEN tried[m] # {} ELSE Counts(m) > 0

Init ==
  /\ accepted = {}
  /\ owed = [m \in Msgs |-> {}] /\ working = [m \in Msgs |-> {}]
  /\ tried = [m \in Msgs |-> {}]
  /\ succeeded = [m \in Msgs |-> 0] /\ failed = [m \in Msgs |-> 0]
  /\ calm = TRUE /\ lossy \in BOOLEAN /\ auto \in BOOLEAN

Accept(m) ==
  /\ m \notin accepted
  /\ accepted' = accepted \cup {m}
  /\ owed' = [owed EXCEPT ![m] = {0}]
  /\ UNCHANGED <<working, tried, succeeded, failed, calm>>

(* The broker delivers a message, for the first time or again.             *)
Begin(m, s) ==
  /\ s \in owed[m]
  /\ working' = [working EXCEPT ![m] = @ \cup {s}]
  /\ UNCHANGED <<accepted, owed, tried, succeeded, failed, calm>>

Answer(m, s) ==
  /\ s \in working[m]
  /\ calm => \A t \in tried[m] : t < s
  /\ tried' = [tried EXCEPT ![m] = @ \cup {s}]
  /\ UNCHANGED <<accepted, owed, working, succeeded, failed, calm>>

(* Somebody is done with a message.  After an interruption others may      *)
(* still work on it, or may have counted it before.                        *)
Settle(m, s) ==
  /\ s \in working[m] \cap tried[m]
  /\ calm => Counts(m) = 0
  /\ working' \in {working, [working EXCEPT ![m] = @ \ {s}]}
  /\ UNCHANGED <<accepted, tried, calm>>

Succeed(m, s) ==
  /\ Settle(m, s)
  /\ succeeded' = [succeeded EXCEPT ![m] = @ + 1]
  /\ UNCHANGED <<owed, failed>>

GiveUp(m, s) ==
  /\ Settle(m, s)
  /\ Greater(s) = {} \/ lossy
  /\ failed' = [failed EXCEPT ![m] = @ + 1]
  /\ UNCHANGED <<owed, succeeded>>

(* The broker gets it again, with the next greater delay.                  *)
Retry(m, s) ==
  /\ Settle(m, s)
  /\ \E d \in Greater(s) :
       /\ \A e \in Greater(s) : d <= e
       /\ owed' = [owed EXCEPT ![m] = @ \cup {d}]
  /\ UNCHANGED <<succeeded, failed>>

(* Work ends, acknowledged or not, and an interruption can end all of it.  *)
(* What the broker lets go of was tried, and the last it has of a message  *)
(* only when that is finished.                                             *)
Release ==
  /\ calm' \in {calm, FALSE}
  /\ working' \in [Msgs -> SUBSET Stages]
  /\ \A m \in Msgs : working'[m] \subseteq working[m]
  /\ owed' \in [Msgs -> SUBSET Stages]
  /\ \A m \in Msgs : owed'[m] \subseteq owed[m]
  /\ ~lossy => \A m \in Msgs :
       /\ owed[m] \ owed'[m] \subseteq tried[m]
       /\ owed'[m] = {} => owed[m] = {} \/ Finished(m)
  /\ UNCHANGED <<accepted, tried, succeeded, failed>>

Next ==
  /\ \/ \E m \in Msgs : Accept(m)
     \/ \E m \in Msgs, s \in Stages :
          Begin(m, s) \/ Answer(m, s) \/ Succeed(m, s) \/ GiveUp(m, s) \/ Retry(m, s)
     \/ Release
  /\ UNCHANGED <<lossy, auto>>

Spec == Init /\ [][Next]_vars
=============================================================================
