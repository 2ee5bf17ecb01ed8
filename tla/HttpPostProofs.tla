---------------------------- MODULE HttpPostProofs ----------------------------
(***************************************************************************)
(* One call of Post, for every choice of pauses and redirects: what a      *)
(* success means, and that no call is given up too early.                  *)
(*                                                                         *)
(* SuccessSound speaks of the end of the call only.  What makes it true is *)
(* earlier: an endpoint is reached with the form, or by a redirect of one  *)
(* that was.                                                               *)
(***************************************************************************)
EXTENDS HttpPost, TLAPS

(* Who waits for a header or a body, or was redirected to a GET, has had   *)
(* the form accepted by some endpoint.                                     *)
Accepted ==
  /\ posted \in Nat
  /\ method \in {"POST", "GET"}
  /\ method = "GET" \/ phase \in {"wait", "body"} => posted > 0

(* The caller is told of an outcome only at the end, and told "ok" only of *)
(* a body that is the JSON the README asks for.                            *)
Told ==
  /\ phase # "done" => outcome = "none"
  /\ outcome = "ok" => body = "one" /\ posted > 0

IInv == Accepted /\ Told

(* The invariant holds at first.                                           *)
LEMMA PostInit == Init => IInv
BY DEF Init, IInv, Accepted, Told

(* The call fails: nothing it sent or read changes.                        *)
LEMMA Failed ==
  ASSUME IInv, Finish("failed"), UNCHANGED <<method, posted, body>>
  PROVE  IInv'
BY DEF IInv, Accepted, Told, Finish

(* It waits.                                                               *)
LEMMA Waited ==
  ASSUME IInv, UNCHANGED <<phase, method, posted, body, outcome>>
  PROVE  IInv'
BY DEF IInv, Accepted, Told

(* Every step keeps it.                                                    *)
LEMMA PostNext == IInv /\ [Next]_vars => IInv'
<1> SUFFICES ASSUME IInv, [Next]_vars  PROVE IInv'
  OBVIOUS
<1>1. CASE Prepare
  <2>1. CASE phase' = "dial" /\ UNCHANGED outcome
    BY <1>1, <2>1 DEF Prepare, IInv, Accepted, Told
  <2>2. CASE Finish("failed")
    BY <1>1, <2>2, Failed DEF Prepare
  <2> QED  BY <1>1, <2>1, <2>2 DEF Prepare
<1>2. CASE Connect
  BY <1>2 DEF Connect, IInv, Accepted, Told
<1>3. CASE Fail \/ DialTimesOut \/ ClientTimesOut \/ RedirectTooOften
  BY <1>3, Failed DEF Fail, DialTimesOut, ClientTimesOut, RedirectTooOften
<1>4. CASE Waiting \/ UNCHANGED vars
  BY <1>4, Waited DEF Waiting, Dialling, Silent, vars
<1>5. CASE Redirect
  BY <1>5 DEF Redirect, IInv, Accepted, Told
<1>6. CASE Header
  BY <1>6 DEF Header, IInv, Accepted, Told
<1>7. ASSUME NEW b \in Bodies, Body(b)  PROVE IInv'
  <2>1. Decoded(b) = "ok" => b = "one"
    BY DEF Decoded, Bodies
  <2> QED  BY <1>7, <2>1 DEF Body, Finish, IInv, Accepted, Told
<1> QED
  BY <1>1, <1>2, <1>3, <1>4, <1>5, <1>6, <1>7 DEF Next

(* Whatever redirects, silences and failures there are, the caller reads   *)
(* code 1 only from the whole and correct body of the last endpoint, and   *)
(* only if some endpoint had the form.                                     *)
THEOREM SuccessSoundHolds == Spec => []SuccessSound
<1>1. IInv => SuccessSound
  BY DEF IInv, Told, SuccessSound
<1> QED  BY <1>1, PostInit, PostNext, PTL DEF Spec
-----------------------------------------------------------------------------
(***************************************************************************)
(* The time limit.  DispatchTimeout is multiplied by 10^9 twice, and what  *)
(* is left of the product are 64 bits, in no order: some timeouts get a    *)
(* limit far too long, some a negative one, which is none.  Could one get  *)
(* a limit that is too short?  A product of t * 10^18 that leaves v with   *)
(* 0 < v < t * 10^9 after q wraps makes q / t a fraction just below        *)
(* 10^18 / 2^64, so near that it lies between 20148 / 371665 and           *)
(* 1981 / 36543.  These two are neighbours (1981 * 371665 is one more than *)
(* 20148 * 36543), and a fraction between neighbours has a denominator of  *)
(* at least the sum of theirs: t >= 371665 + 36543 = 408208.               *)
(*                                                                         *)
(* Upper, a Duration in units of 2^16 nanoseconds, keeps all numbers below *)
(* 2^62: tlapm multiplies numerals in machine integers, so that a proof    *)
(* about 2^64 itself would not be one.                                     *)
(***************************************************************************)
(* 2^48, where Upper wraps around, and 2^32                                *)
Wrap == 281474976710656
Square == 4294967296

Thousand == 1000
Billion == 1000000000

(* 10^18, and in units of 2^16                                             *)
Quintillion == 1000000000000000000
QuintillionUpper == 15258789062500

Upper(d) == d[2] + Base * d[3] + Square * d[4]

(* The least timeout that gets too short a limit.                          *)
FirstCutShort == 408208

(* The base of the digits is a natural number.                             *)
LEMMA BaseNat == Base \in Nat
BY SMT DEF Base

(* What it takes to be a digit, without unfolding Base.                    *)
LEMMA Digits ==
  /\ \A r \in 0..(Base - 1) : r \in Nat /\ r < Base
  /\ \A r \in Nat : r < Base => r \in 0..(Base - 1)
BY BaseNat, SMT

(* What is carried to the next digit is a natural number.                  *)
LEMMA DivType == \A n \in Nat : n \div Base \in Nat
BY SMT DEF Base

(* What stays is a digit.                                                  *)
LEMMA ModType == \A n \in Nat : n % Base \in Nat /\ n % Base < Base
BY SMT DEF Base

(* Division with remainder; DivType and ModType say what both are.         *)
LEMMA DivMod ==
  \A n \in Nat, q \in Nat, r \in Nat :
    q = n \div Base /\ r = n % Base => n = Base * q + r
BY SMT DEF Base

(* A number is its quotient and remainder by Base.                         *)
LEMMA Divided ==
  ASSUME NEW n \in Nat
  PROVE  \E q \in Nat, r \in Nat :
           q = n \div Base /\ r = n % Base /\ r < Base /\ n = Base * q + r
<1>1. n \div Base \in Nat /\ n % Base \in Nat /\ n % Base < Base
  BY DivType, ModType, Zenon
<1>2. PICK q \in Nat, r \in Nat : q = n \div Base /\ r = n % Base /\ r < Base
  BY <1>1, Zenon
<1>3. n = Base * q + r
  BY <1>2, DivMod, Zenon
<1> QED  BY <1>2, <1>3, Zenon

(* What d multiplied by n is, but for what wraps around: c is carried from *)
(* the lowest digit.                                                       *)
Multiplied(d, n, e) ==
  \E c \in Nat, k \in Nat :
    /\ n * d[1] = Base * c + e[1]
    /\ n * Upper(d) + c = Upper(e) + Wrap * k

(* The parts of a Duration are natural numbers.                            *)
LEMMA Parts ==
  ASSUME NEW d \in Durations
  PROVE  /\ d[1] \in Nat /\ d[1] < Base /\ d[2] \in Nat /\ d[3] \in Nat /\ d[4] \in Nat
         /\ Upper(d) \in Nat
<1>1. /\ d[1] \in Nat /\ d[1] < Base
      /\ d[2] \in Nat /\ d[3] \in Nat /\ d[4] \in Nat
  BY Digits, SMT DEF Durations
<1> QED  BY <1>1, SMT DEF Upper, Base, Square

(* TimesThousand multiplies, digit by digit.                               *)
LEMMA ThousandMultiplies ==
  ASSUME NEW d \in Durations
  PROVE  TimesThousand[d] \in Durations /\ Multiplied(d, Thousand, TimesThousand[d])
<1> DEFINE p1 == d[1] * Thousand
           p2 == d[2] * Thousand + p1 \div Base
           p3 == d[3] * Thousand + p2 \div Base
           p4 == d[4] * Thousand + p3 \div Base
<1>1. TimesThousand[d] = <<p1 % Base, p2 % Base, p3 % Base, p4 % Base>>
  BY Zenon DEF TimesThousand, Thousand
<1>2. d[1] \in Nat /\ d[2] \in Nat /\ d[3] \in Nat /\ d[4] \in Nat
  BY Parts, Zenon
<1>3. PICK q1 \in Nat, r1 \in Nat :
        q1 = p1 \div Base /\ r1 = p1 % Base /\ r1 < Base /\ p1 = Base * q1 + r1
  <2>1. p1 \in Nat
    BY <1>2, SMT DEF Thousand
  <2> HIDE DEF p1
  <2> QED  BY <2>1, Divided, Zenon
<1>4. p2 = d[2] * Thousand + q1
  BY <1>3, SMT
<1>5. PICK q2 \in Nat, r2 \in Nat :
        q2 = p2 \div Base /\ r2 = p2 % Base /\ r2 < Base /\ p2 = Base * q2 + r2
  <2> HIDE DEF p2
  <2>1. p2 \in Nat
    BY <1>2, <1>4, SMT DEF Thousand
  <2> QED  BY <2>1, Divided, Zenon
<1>6. p3 = d[3] * Thousand + q2
  BY <1>5, SMT
<1>7. PICK q3 \in Nat, r3 \in Nat :
        q3 = p3 \div Base /\ r3 = p3 % Base /\ r3 < Base /\ p3 = Base * q3 + r3
  <2> HIDE DEF p3
  <2>1. p3 \in Nat
    BY <1>2, <1>6, SMT DEF Thousand
  <2> QED  BY <2>1, Divided, Zenon
<1>8. p4 = d[4] * Thousand + q3
  BY <1>7, SMT
<1>9. PICK q4 \in Nat, r4 \in Nat :
        q4 = p4 \div Base /\ r4 = p4 % Base /\ r4 < Base /\ p4 = Base * q4 + r4
  <2> HIDE DEF p4
  <2>1. p4 \in Nat
    BY <1>2, <1>8, SMT DEF Thousand
  <2> QED  BY <2>1, Divided, Zenon
<1> DEFINE e == <<r1, r2, r3, r4>>
<1>10. TimesThousand[d] = e
  BY <1>1, <1>3, <1>5, <1>7, <1>9, SMT
<1>11. /\ d[1] * Thousand = Base * q1 + r1 /\ d[2] * Thousand + q1 = Base * q2 + r2
       /\ d[3] * Thousand + q2 = Base * q3 + r3 /\ d[4] * Thousand + q3 = Base * q4 + r4
  BY <1>3, <1>4, <1>5, <1>6, <1>7, <1>8, <1>9, SMT
<1> HIDE DEF p1, p2, p3, p4
<1>12. Thousand * Upper(d) + q1 = Upper(e) + Wrap * q4
  <2>1. Thousand * (d[2] + Base * d[3] + Square * d[4]) + q1
        = (r2 + Base * r3 + Square * r4) + Wrap * q4
    <3> DEFINE a2 == d[2]
               a3 == d[3]
               a4 == d[4]
    <3>1. a2 \in Nat /\ a3 \in Nat /\ a4 \in Nat
      BY <1>2, Zenon
    <3>2. /\ a2 * Thousand + q1 = Base * q2 + r2 /\ a3 * Thousand + q2 = Base * q3 + r3
          /\ a4 * Thousand + q3 = Base * q4 + r4
      BY <1>11, Zenon
    <3> HIDE DEF a2, a3, a4
    <3>3. Thousand * (a2 + Base * a3 + Square * a4) + q1
          = (r2 + Base * r3 + Square * r4) + Wrap * q4
      BY <3>1, <3>2, SMT DEF Base, Square, Thousand, Wrap
    <3> QED  BY <3>3, Zenon DEF a2, a3, a4
  <2>2. Upper(e) = r2 + Base * r3 + Square * r4
    BY SMT DEF Upper
  <2> QED  BY <2>1, <2>2, Zenon DEF Upper
<1>13. Thousand * d[1] = Base * q1 + e[1]
  BY <1>2, <1>11, SMT DEF Base, Thousand
<1>14. e \in Durations
  <2>1. \A r \in {r1, r2, r3, r4} : r \in 0..(Base - 1)
    BY <1>3, <1>5, <1>7, <1>9, Digits, Zenon
  <2> QED  BY <2>1, SMT DEF Durations
<1> HIDE DEF e
<1> QED  BY <1>3, <1>9, <1>10, <1>12, <1>13, <1>14, Zenon DEF Multiplied

(* d * time.Second is d multiplied by 10^9.                                *)
LEMMA SecondMultiplies ==
  ASSUME NEW d \in Durations
  PROVE  TimesSecond(d) \in Durations /\ Multiplied(d, Billion, TimesSecond(d))
<1> DEFINE d1 == TimesThousand[d]
           d2 == TimesThousand[d1]
           d3 == TimesThousand[d2]
<1>1. TimesSecond(d) = d3
  BY Zenon DEF TimesSecond
<1>2. d1 \in Durations /\ Multiplied(d, Thousand, d1)
  BY ThousandMultiplies, Zenon
<1> HIDE DEF d1
<1>3. d2 \in Durations /\ Multiplied(d1, Thousand, d2)
  BY <1>2, ThousandMultiplies, Zenon
<1> HIDE DEF d2
<1>4. d3 \in Durations /\ Multiplied(d2, Thousand, d3)
  BY <1>3, ThousandMultiplies, Zenon
<1> HIDE DEF d3
<1>5. PICK c1 \in Nat, k1 \in Nat :
        Thousand * d[1] = Base * c1 + d1[1] /\ Thousand * Upper(d) + c1 = Upper(d1) + Wrap * k1
  BY <1>2, Zenon DEF Multiplied
<1>6. PICK c2 \in Nat, k2 \in Nat :
        Thousand * d1[1] = Base * c2 + d2[1] /\ Thousand * Upper(d1) + c2 = Upper(d2) + Wrap * k2
  BY <1>3, Zenon DEF Multiplied
<1>7. PICK c3 \in Nat, k3 \in Nat :
        Thousand * d2[1] = Base * c3 + d3[1] /\ Thousand * Upper(d2) + c3 = Upper(d3) + Wrap * k3
  BY <1>4, Zenon DEF Multiplied
<1> DEFINE c == 1000000 * c1 + 1000 * c2 + c3
           k == 1000000 * k1 + 1000 * k2 + k3
<1>8. /\ d[1] \in Nat /\ d1[1] \in Nat /\ d2[1] \in Nat /\ d3[1] \in Nat
      /\ Upper(d) \in Nat /\ Upper(d1) \in Nat /\ Upper(d2) \in Nat /\ Upper(d3) \in Nat
  BY <1>2, <1>3, <1>4, Parts, Zenon
<1>9. c \in Nat /\ k \in Nat
  BY SMT
<1> HIDE DEF Upper
<1>10. Billion * d[1] = Base * c + d3[1]
  BY <1>5, <1>6, <1>7, <1>8, SMT DEF Base, Thousand, Billion
<1>11. Billion * Upper(d) + c = Upper(d3) + Wrap * k
  BY <1>5, <1>6, <1>7, <1>8, SMT DEF Thousand, Billion, Wrap
<1> HIDE DEF c, k
<1> QED  BY <1>1, <1>4, <1>9, <1>10, <1>11, Zenon DEF Multiplied

(* A time below 408208 seconds fits 64 bits.                               *)
LEMMA SecondsExact ==
  ASSUME NEW n \in Nat, n < FirstCutShort
  PROVE  /\ Seconds(n) \in Durations
         /\ Seconds(n)[1] + Base * Upper(Seconds(n)) = Billion * n
<1>1. PICK q \in Nat, r \in Nat :
        q = n \div Base /\ r = n % Base /\ r < Base /\ n = Base * q + r
  BY Divided, Zenon
<1>2. q < 7
  BY <1>1, SMT DEF Base, FirstCutShort
<1>3. q % Base = q
  BY <1>2, SMT DEF Base
<1> DEFINE d == <<r, q, 0, 0>>
           s == Seconds(n)
<1>4. Nanoseconds(n) = d
  <2>1. ~(n < 0)
    BY SMT
  <2> QED  BY <1>1, <1>3, <2>1, Zenon DEF Nanoseconds
<1>5. d \in Durations
  <2>1. r \in 0..(Base - 1) /\ q \in 0..(Base - 1) /\ 0 \in 0..(Base - 1)
    <3>1. q < Base /\ 0 < Base
      BY <1>2, SMT DEF Base
    <3> QED  BY <1>1, <3>1, Digits, SMT
  <2> QED  BY <2>1, SMT DEF Durations
<1>6. d[1] = r /\ Upper(d) = q
  BY SMT DEF Upper, Base, Square
<1>7. s \in Durations /\ Multiplied(d, Billion, s)
  BY <1>4, <1>5, SecondMultiplies, Zenon DEF Seconds
<1>8. PICK c \in Nat, k \in Nat :
        Billion * d[1] = Base * c + s[1] /\ Billion * Upper(d) + c = Upper(s) + Wrap * k
  BY <1>7, Zenon DEF Multiplied
<1>9. s[1] \in Nat /\ Upper(s) \in Nat
  BY <1>7, Parts, Zenon
<1> HIDE DEF Upper, d, s
<1>10. Billion * r = Base * c + s[1] /\ Billion * q + c = Upper(s) + Wrap * k
  BY <1>6, <1>8, Zenon
<1>11. k = 0
  BY <1>1, <1>2, <1>9, <1>10, SMT DEF Base, Billion, Wrap
<1>12. s[1] + Base * Upper(s) = Billion * n
  <2> DEFINE v == Upper(s)
             w == s[1]
  <2>1. v \in Nat /\ w \in Nat /\ Billion * r = Base * c + w /\ Billion * q + c = v + Wrap * k
    BY <1>9, <1>10, Zenon
  <2>2. n = Base * q + r
    BY <1>1, Zenon
  <2> HIDE DEF v, w
  <2>3. w + Base * v = Billion * n
    BY <1>11, <2>1, <2>2, SMT DEF Base, Billion, Wrap
  <2> QED  BY <2>3, Zenon DEF v, w
<1> QED  BY <1>7, <1>12, Zenon DEF s

(* The limit of a timeout is a multiple of 2^16 nanoseconds: 10^18 is      *)
(* 65536 * 15258789062500.                                                 *)
LEMMA LimitUpper ==
  ASSUME NEW n \in Nat, n < FirstCutShort
  PROVE  /\ ClientTimeout(n) \in Durations
         /\ ClientTimeout(n)[1] = 0
         /\ \E q \in Nat : QuintillionUpper * n = Upper(ClientTimeout(n)) + Wrap * q
<1> DEFINE d == ClientTimeout(n)
           s == Seconds(n)
<1>1. s \in Durations /\ s[1] + Base * Upper(s) = Billion * n
  BY SecondsExact, Zenon
<1>2. d \in Durations /\ Multiplied(s, Billion, d)
  BY <1>1, SecondMultiplies, Zenon DEF ClientTimeout
<1>3. PICK c \in Nat, k \in Nat :
        Billion * s[1] = Base * c + d[1] /\ Billion * Upper(s) + c = Upper(d) + Wrap * k
  BY <1>2, Zenon DEF Multiplied
<1>4. s[1] \in Nat /\ Upper(s) \in Nat /\ d[1] \in Nat /\ d[1] < Base /\ Upper(d) \in Nat
  BY <1>1, <1>2, Parts, Zenon
<1> HIDE DEF Upper, d, s
<1>5. Base * (Billion * Upper(s) + c) + d[1] = Quintillion * n
  <2> DEFINE u == s[1]
             v == Upper(s)
             w == d[1]
  <2>1. /\ u \in Nat /\ v \in Nat /\ w \in Nat
        /\ u + Base * v = Billion * n /\ Billion * u = Base * c + w
    BY <1>1, <1>3, <1>4, Zenon
  <2> HIDE DEF u, v, w
  <2>2. Base * (Billion * v + c) + w = Quintillion * n
    BY <2>1, SMT DEF Base, Billion, Quintillion
  <2> QED  BY <2>2, Zenon DEF v, w
<1>6. d[1] = 0 /\ Billion * Upper(s) + c = QuintillionUpper * n
  <2> DEFINE w == Billion * Upper(s) + c
  <2>1. w \in Nat
    BY <1>4, SMT DEF Billion
  <2>2. Base * w + d[1] = Quintillion * n
    BY <1>5, Zenon
  <2> HIDE DEF w
  <2>3. d[1] = 0 /\ w = QuintillionUpper * n
    BY <1>4, <2>1, <2>2, SMT DEF Base, Quintillion, QuintillionUpper
  <2> QED  BY <2>3, Zenon DEF w
<1> QED  BY <1>2, <1>3, <1>6, Zenon DEF d

(* No fraction q / t with a denominator below 408208 is that near.         *)
LEMMA NoFraction ==
  ASSUME NEW t \in Nat, NEW q \in Nat, NEW u \in Nat,
         0 < u,
         QuintillionUpper * t = u + Wrap * q,
         Base * u < Billion * t
  PROVE  t >= FirstCutShort
<1>1. 36543 * q < 1981 * t
  BY SMT DEF Base, Billion, QuintillionUpper, Wrap
<1>2. 20148 * t < 371665 * q
  BY SMT DEF Base, Billion, QuintillionUpper, Wrap
<1> QED  BY <1>1, <1>2, SMT DEF FirstCutShort

(* A Duration that is at most another is so in its upper digits.           *)
LEMMA AtMostUpper ==
  ASSUME NEW d \in Durations, NEW e \in Durations, AtMost(d, e)
  PROVE  Upper(d) <= Upper(e)
<1> DEFINE d2 == d[2]
           d3 == d[3]
           d4 == d[4]
           e2 == e[2]
           e3 == e[3]
           e4 == e[4]
<1>1. \A r \in {d2, d3, d4, e2, e3, e4} : r \in Nat /\ r < Base
  BY Digits, SMT DEF Durations
<1>2. CASE d = e
  BY <1>1, <1>2, SMT DEF Upper, Base, Square
<1>3. ASSUME NEW i \in 1..4, d[i] < e[i], \A j \in (i + 1)..4 : d[j] = e[j]
      PROVE  Upper(d) <= Upper(e)
  <2>1. \/ d2 = e2 /\ d3 = e3 /\ d4 = e4
        \/ d2 < e2 /\ d3 = e3 /\ d4 = e4
        \/ d3 < e3 /\ d4 = e4
        \/ d4 < e4
    BY <1>3, SMT
  <2>2. /\ Upper(d) = d2 + Base * d3 + Square * d4
        /\ Upper(e) = e2 + Base * e3 + Square * e4
    BY Zenon DEF Upper
  <2> HIDE DEF d2, d3, d4, e2, e3, e4
  <2> QED  BY <1>1, <2>1, <2>2, SMT DEF Base, Square
<1> QED  BY <1>2, <1>3, Zenon DEF AtMost

(* A positive limit is not over while fewer seconds are than the timeout.  *)
LEMMA LimitNotEarly ==
  ASSUME NEW n \in Nat, n < FirstCutShort, NEW t \in Nat, t < n,
         Positive(ClientTimeout(n)), AtMost(ClientTimeout(n), Seconds(t))
  PROVE  FALSE
<1> DEFINE d == ClientTimeout(n)
           e == Seconds(t)
<1>1. PICK q \in Nat : QuintillionUpper * n = Upper(d) + Wrap * q
  BY LimitUpper, Zenon
<1>2. d \in Durations /\ d[1] = 0
  BY LimitUpper, Zenon
<1>3. e \in Durations /\ e[1] + Base * Upper(e) = Billion * t
  <2>1. t < FirstCutShort
    BY SMT DEF FirstCutShort
  <2> QED  BY <2>1, SecondsExact, Zenon
<1>4. Positive(d) /\ Upper(d) <= Upper(e)
  BY <1>2, <1>3, AtMostUpper, Zenon
<1> HIDE DEF d, e
<1>5. Upper(d) \in Nat /\ Upper(e) \in Nat /\ e[1] \in Nat
  BY <1>2, <1>3, Parts, Zenon
<1>6. Upper(d) > 0
  <2>1. PICK i \in 1..4 : d[i] # 0
    BY <1>4, Zenon DEF Positive
  <2>2. d[2] \in Nat /\ d[3] \in Nat /\ d[4] \in Nat
    BY <1>2, Parts, Zenon
  <2>3. d[2] # 0 \/ d[3] # 0 \/ d[4] # 0
    BY <1>2, <2>1, SMT
  <2> QED  BY <2>2, <2>3, SMT DEF Upper, Base, Square
<1> HIDE DEF Upper
<1>7. Base * Upper(d) < Billion * n
  BY <1>3, <1>4, <1>5, SMT DEF Base, Billion
<1>8. n >= FirstCutShort
  BY <1>1, <1>5, <1>6, <1>7, NoFraction, SMT
<1> QED  BY <1>8, SMT DEF FirstCutShort

TimeInv ==
  /\ timeout \in Timeouts
  /\ elapsed \in Nat
  /\ NeverCutShort

(* However often an endpoint redirects, is silent or refuses: a call is    *)
(* not given up before DispatchTimeout is over, for every value of it      *)
(* below the first for which the multiplication in 64 bits makes a limit   *)
(* that is too short, 408208 seconds: the default of 30, whose product     *)
(* wraps around, and four days are among them.                             *)
THEOREM NeverCutShortHolds ==
  ASSUME \A t \in Timeouts : t < FirstCutShort
  PROVE  Spec => []NeverCutShort
<1>1. Init => TimeInv
  BY DEF Init, TimeInv, NeverCutShort
<1>2. TimeInv /\ [Next]_vars => TimeInv'
  <2> SUFFICES ASSUME TimeInv, [Next]_vars  PROVE TimeInv'
    OBVIOUS
  <2>1. CASE ClientTimesOut
    <3>1. Expired(elapsed) /\ UNCHANGED <<timeout, elapsed>>
      BY <2>1 DEF ClientTimesOut
    <3>2. ASSUME timeout > 0, elapsed < timeout
          PROVE  FALSE
      <4>1. /\ timeout \in Nat /\ elapsed \in Nat /\ timeout < FirstCutShort
            /\ Positive(ClientTimeout(timeout)) /\ AtMost(ClientTimeout(timeout), Seconds(elapsed))
        BY <3>1, <3>2, HttpAssumption DEF TimeInv, Expired
      <4> QED  BY <3>2, <4>1, LimitNotEarly, Zenon
    <3>3. timeout \in Int /\ elapsed \in Nat
      BY HttpAssumption DEF TimeInv
    <3> QED  BY <3>1, <3>2, <3>3 DEF TimeInv, NeverCutShort
  <2>2. CASE Dialling
    BY <2>2, HttpAssumption DEF Dialling, TimeInv, NeverCutShort
  <2>3. ASSUME NEW s \in Pauses, Silent(s)  PROVE TimeInv'
    <3>1. s \in Nat /\ elapsed' = elapsed + s /\ UNCHANGED <<timeout, cutShort>>
      BY <2>3, HttpAssumption DEF Silent
    <3> QED  BY <3>1, HttpAssumption DEF TimeInv, NeverCutShort
  <2>4. CASE \/ Prepare \/ Connect \/ Fail \/ DialTimesOut \/ Redirect
             \/ RedirectTooOften \/ Header \/ (\E b \in Bodies : Body(b))
             \/ UNCHANGED vars
    <3>1. UNCHANGED <<timeout, elapsed, cutShort>>
      BY <2>4 DEF Prepare, Connect, Fail, DialTimesOut, Redirect,
                  RedirectTooOften, Header, Body, vars
    <3> QED  BY <3>1 DEF TimeInv, NeverCutShort
  <2> QED  BY <2>1, <2>2, <2>3, <2>4 DEF Next, Waiting
<1>3. TimeInv => NeverCutShort
  BY DEF TimeInv
<1> QED  BY <1>1, <1>2, <1>3, PTL DEF Spec
=============================================================================
