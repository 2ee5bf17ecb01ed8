------------------------------ MODULE Duration ------------------------------
(***************************************************************************)
(* time.Duration: an int64 of nanoseconds whose multiplication wraps       *)
(* around.  It does not fit TLC's integers, so it is four digits of base   *)
(* 2^16, the least significant first, in two's complement.                 *)
(***************************************************************************)
EXTENDS Integers

Base == 65536
Durations == [1..4 -> 0..(Base - 1)]

(* time.Duration(n), for an n of at most 31 bits and a sign.               *)
Nanoseconds(n) ==
  LET sign == IF n < 0 THEN Base - 1 ELSE 0
  IN  <<n % Base, (n \div Base) % Base, sign, sign>>

(* Digit by digit; the carry out of the last one is dropped.               *)
TimesThousand[d \in Durations] ==
  LET p1 == d[1] * 1000
      p2 == d[2] * 1000 + p1 \div Base
      p3 == d[3] * 1000 + p2 \div Base
      p4 == d[4] * 1000 + p3 \div Base
  IN  <<p1 % Base, p2 % Base, p3 % Base, p4 % Base>>

(* d * time.Second                                                         *)
TimesSecond(d) == TimesThousand[TimesThousand[TimesThousand[d]]]

Seconds(n) == TimesSecond(Nanoseconds(n))

Positive(d) == d[4] < Base \div 2 /\ \E i \in 1..4 : d[i] # 0

(* d <= e, neither negative                                                *)
AtMost(d, e) ==
  \/ d = e
  \/ \E i \in 1..4 : d[i] < e[i] /\ \A j \in (i + 1)..4 : d[j] = e[j]
=============================================================================
