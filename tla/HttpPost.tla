------------------------------ MODULE HttpPost ------------------------------
(***************************************************************************)
(* One call of QueueRequest.Post: the HTTP client of package ohttp, the    *)
(* endpoints it talks to, its two time limits and what its caller is told. *)
(* Every call has a client and a transport of its own, without keep-alive, *)
(* so calls do not meet.                                                   *)
(* Source: src/libs/request/request.go, src/libs/ohttp/ohttp.go.           *)
(*                                                                         *)
(* Time passes only where the client waits: while it dials, and while an   *)
(* endpoint it reached is silent.                                          *)
(***************************************************************************)
EXTENDS Integers, Duration

CONSTANTS
  Timeouts,       \* values of DispatchTimeout, in seconds; 0 is unlimited
  DialTimeout,    \* of net.DialTimeout, 10 seconds in the code
  MaxRedirects,   \* external: how many net/http follows, 10
  Pauses,         \* for how long an endpoint may be silent at a stretch
  MaxPauses,      \* bound: how often it is
  MaxTime         \* bound: no pause ends later

ASSUME HttpAssumption ==
  /\ Timeouts \subseteq Int
  /\ DialTimeout \in Nat \ {0}
  /\ MaxRedirects \in Nat
  /\ Pauses \subseteq Nat \ {0}
  /\ MaxPauses \in Nat
  /\ MaxTime \in Nat

(* What json.Unmarshal makes of a body: an object with code 1, one without, *)
(* one with code 1 and another field of a wrong type, null, no JSON.       *)
Bodies == {"one", "other", "mistyped", "null", "invalid"}

VARIABLES
  timeout,    \* DispatchTimeout of the queue
  phase,      \* "new", "dial", "wait" for the header, "body", "done"
  method,     \* "POST", or "GET" after a redirect: the form is gone
  redirects,  \* how many were followed
  elapsed,    \* seconds since Post was called
  dialled,    \* seconds since this dial began
  pauses,     \* how often an endpoint was silent
  outcome,    \* what the caller sees: "ok" (Code 1), "failed", "panic"
  body,       \* history: the last body read
  posted,     \* history: how many endpoints got the form
  cutShort    \* history: a time limit ended the call

vars == <<timeout, phase, method, redirects, elapsed, dialled, pauses, outcome,
          body, posted, cutShort>>
-----------------------------------------------------------------------------
(* Helpers *)

(* Mutant: neither function multiplies by time.Second.                     *)
ClientTimeoutUnitless(n) == Nanoseconds(n)

(* Post: settings.Timeout = N * time.Second; Do: Timeout: settings.Timeout *)
(* * time.Second.                                                          *)
ClientTimeout(n) == TimesSecond(Seconds(n))

(* http.Client stops after Timeout if that is positive.                    *)
Expired(t) == Positive(ClientTimeout(timeout)) /\ AtMost(ClientTimeout(timeout), Seconds(t))

(* Mutant: the error branch without result.Code = 0.                       *)
DecodedKeepsCode(b) ==
  CASE b \in {"one", "mistyped"} -> "ok"
    [] b = "null" -> "panic"
    [] OTHER -> "failed"

(* json.Unmarshal fills what it can before it returns an error; then Code  *)
(* is set to 0.  null leaves the caller a nil result, which it reads.      *)
Decoded(b) ==
  CASE b = "one" -> "ok"
    [] b = "null" -> "panic"
    [] OTHER -> "failed"

Finish(how) == phase' = "done" /\ outcome' = how
-----------------------------------------------------------------------------
Init ==
  /\ timeout \in Timeouts
  /\ phase = "new"
  /\ method = "POST"
  /\ redirects = 0 /\ elapsed = 0 /\ dialled = 0 /\ pauses = 0
  /\ outcome = "none" /\ body = "none"
  /\ posted = 0
  /\ cutShort = FALSE
-----------------------------------------------------------------------------
(* InitSetttings and NewRequest.                                           *)
Prepare ==
  /\ phase = "new"
  /\ \/ phase' = "dial" /\ UNCHANGED outcome
     \/ Finish("failed")                   \* the URL cannot be parsed
  /\ UNCHANGED <<timeout, method, redirects, elapsed, dialled, pauses, body,
                 posted, cutShort>>

(* The endpoint accepts the connection and is sent the request.            *)
Connect ==
  /\ phase = "dial"
  /\ phase' = "wait"
  /\ dialled' = 0
  /\ posted' = IF method = "POST" THEN posted + 1 ELSE posted
  /\ UNCHANGED <<timeout, method, redirects, elapsed, pauses, outcome, body, cutShort>>

(* Refused, reset, closed while the header or the body is read.            *)
Fail ==
  /\ phase \in {"dial", "wait", "body"}
  /\ Finish("failed")
  /\ UNCHANGED <<timeout, method, redirects, elapsed, dialled, pauses, body,
                 posted, cutShort>>

(* A second of an endpoint that does not answer the dial.                  *)
Dialling ==
  /\ phase = "dial"
  /\ dialled < DialTimeout
  /\ ~Expired(elapsed)
  /\ dialled' = dialled + 1
  /\ elapsed' = elapsed + 1
  /\ UNCHANGED <<timeout, phase, method, redirects, pauses, outcome, body,
                 posted, cutShort>>

(* Mutant: net.Dial, which has no limit.                                   *)
DialNeverTimesOut == FALSE /\ UNCHANGED vars

(* net.DialTimeout returns an error.                                       *)
DialTimesOut ==
  /\ phase = "dial"
  /\ dialled = DialTimeout
  /\ Finish("failed")
  /\ UNCHANGED <<timeout, method, redirects, elapsed, dialled, pauses, body,
                 posted, cutShort>>

(* The endpoint is silent, no longer than until the client gives up.       *)
Silent(s) ==
  /\ phase \in {"wait", "body"}
  /\ pauses < MaxPauses
  /\ elapsed + s <= MaxTime
  /\ ~Expired(elapsed + s - 1)
  /\ pauses' = pauses + 1
  /\ elapsed' = elapsed + s
  /\ UNCHANGED <<timeout, phase, method, redirects, dialled, outcome, body,
                 posted, cutShort>>

(* Client.Timeout covers dialling, redirects and the reading of the body.  *)
ClientTimesOut ==
  /\ phase \in {"dial", "wait", "body"}
  /\ Expired(elapsed)
  /\ Finish("failed")
  /\ cutShort' = TRUE
  /\ UNCHANGED <<timeout, method, redirects, elapsed, dialled, pauses, body, posted>>

(* net/http follows a redirect: 307 and 308 repeat the request with its    *)
(* form, 301, 302 and 303 make it a GET without.                           *)
Redirect ==
  /\ phase = "wait"
  /\ redirects < MaxRedirects
  /\ redirects' = redirects + 1
  /\ phase' = "dial"
  /\ method' \in {method, "GET"}
  /\ UNCHANGED <<timeout, elapsed, dialled, pauses, outcome, body, posted, cutShort>>

RedirectTooOften ==
  /\ phase = "wait"
  /\ redirects = MaxRedirects
  /\ Finish("failed")
  /\ UNCHANGED <<timeout, method, redirects, elapsed, dialled, pauses, body,
                 posted, cutShort>>

(* A final header, with any status: no status is an error.                 *)
Header ==
  /\ phase = "wait"
  /\ phase' = "body"
  /\ UNCHANGED <<timeout, method, redirects, elapsed, dialled, pauses, outcome,
                 body, posted, cutShort>>

(* ContentString has the whole body; Post decodes it.                      *)
Body(b) ==
  /\ phase = "body"
  /\ body' = b
  /\ Finish(Decoded(b))
  /\ UNCHANGED <<timeout, method, redirects, elapsed, dialled, pauses, posted, cutShort>>
-----------------------------------------------------------------------------
Waiting == Dialling \/ \E s \in Pauses : Silent(s)

Next ==
  \/ Prepare
  \/ Connect \/ Fail
  \/ Waiting \/ DialTimesOut \/ ClientTimesOut
  \/ Redirect \/ RedirectTooOften \/ Header
  \/ \E b \in Bodies : Body(b)

Spec == Init /\ [][Next]_vars

(* The program and the clock go on.  Endpoints owe nothing: they may be    *)
(* silent for ever, before the connection or after it.                     *)
Fairness == WF_vars(Prepare) /\ WF_vars(Dialling) /\ WF_vars(DialTimesOut) /\ WF_vars(ClientTimesOut)

FairSpec == Spec /\ Fairness
-----------------------------------------------------------------------------
(* Properties *)

(* A call that is ended by Client.Timeout had at least the seconds the     *)
(* configuration gives it, whatever became of them in an int64.  (This     *)
(* needs timeouts below 408208 seconds: that one becomes 392881.)          *)
NeverCutShort == cutShort /\ timeout > 0 => elapsed >= timeout

(* Code 1 reaches the caller only when the last endpoint said so in a body *)
(* that is correct in all its fields, and some endpoint had the message.   *)
SuccessSound == outcome = "ok" => body = "one" /\ posted > 0

(* The only thing that can hold a call, and so a slot of its queue, is an  *)
(* endpoint that accepts the connection: dialling ends, and so do chains   *)
(* of redirects.                                                           *)
EndsUnlessHeld == <>(phase = "done") \/ <>[](phase \in {"wait", "body"})

(* request.go 24, "timeout for dispatch. 0 is unlimited", and README 343:  *)
(* a call does not last longer than DispatchTimeout.                       *)
TimeoutHonoured == timeout > 0 /\ phase # "done" => elapsed <= timeout
=============================================================================
