----------------------------- MODULE MCHttpPost -----------------------------
(***************************************************************************)
(* Values of DispatchTimeout: negative, none, the ones whose nanoseconds   *)
(* squared still fit an int64 (up to 9), and ones that wrap around once or *)
(* often, to a positive or to a negative limit; 79321 is the one that gets *)
(* the smallest of all timeouts up to a day, 483048 seconds.               *)
(***************************************************************************)
EXTENDS HttpPost

ManyTimeouts == {-10, 0, 1, 2, 9, 10, 18, 19, 20, 30, 37, 60, 3600, 79321, 86400}
=============================================================================
