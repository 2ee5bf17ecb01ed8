------------------------------ MODULE Delivery ------------------------------
(***************************************************************************)
(* What queueman promises about a message, whatever broker it comes from   *)
(* and however the work is split over goroutines: it is tried at once,     *)
(* tried again after each of the configured delays in ascending order as   *)
(* long as it fails, and counted once, as a success or as a failure after  *)
(* the last delay.  A message of MayLose may be lost at any time before    *)
(* that; a lost or a counted message is never tried again.                 *)
(***************************************************************************)
EXTENDS Integers

CONSTANTS
  Msgs,
  Delays,    \* the set of delays, positive numbers
  MayLose    \* the messages that may be lost

VARIABLES
  status,    \* per message: one of Statuses
  served     \* per message in service: the delay it was last given, or 0

Statuses == {"absent", "waiting", "trying", "succeeded", "failed", "lost"}

Greater(d) == {e \in Delays : d < e}

Init ==
  /\ status = [m \in Msgs |-> "absent"]
  /\ served = [m \in Msgs |-> 0]

Become(m, from, to) ==
  /\ status[m] = from
  /\ status' = [status EXCEPT ![m] = to]

Accept(m) == Become(m, "absent", "waiting") /\ UNCHANGED served

Try(m) == Become(m, "waiting", "trying") /\ UNCHANGED served

Succeed(m) ==
  /\ Become(m, "trying", "succeeded")
  /\ served' = [served EXCEPT ![m] = 0]

(* Back to waiting with the next greater delay.                            *)
Retry(m) ==
  /\ Become(m, "trying", "waiting")
  /\ \E d \in Greater(served[m]) :
       /\ \A e \in Greater(served[m]) : d <= e
       /\ served' = [served EXCEPT ![m] = d]

GiveUp(m) ==
  /\ Become(m, "trying", "failed")
  /\ Greater(served[m]) = {}
  /\ served' = [served EXCEPT ![m] = 0]

(* Several messages may be lost together, as when the process is stopped.  *)
Lose(S) ==
  /\ \A m \in S : status[m] \in {"waiting", "trying"}
  /\ status' = [m \in Msgs |-> IF m \in S THEN "lost" ELSE status[m]]
  /\ served' = [m \in Msgs |-> IF m \in S THEN 0 ELSE served[m]]

Next ==
  \/ \E m \in Msgs : Accept(m) \/ Try(m) \/ Succeed(m) \/ Retry(m) \/ GiveUp(m)
  \/ \E S \in SUBSET MayLose : Lose(S)

Spec == Init /\ [][Next]_<<status, served>>
=============================================================================
