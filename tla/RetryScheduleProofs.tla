------------------------- MODULE RetryScheduleProofs -------------------------
(***************************************************************************)
(* The retry schedule, for every array DelayOnFailure: what the loop of    *)
(* UnserializeDelayQueueData returns, and in how many ways interruptions   *)
(* can be spread over the dispatches of a schedule.  Both dispatchers use  *)
(* the schedule, and so do the proofs about them.                          *)
(***************************************************************************)
EXTENDS RetrySchedule, Combinatorics, FiniteSetTheorems, WellFoundedInduction, TLAPS

(* A set of numbers that is not empty has a least one.                     *)
LEMMA Least ==
  ASSUME NEW T \in SUBSET Nat, T # {}
  PROVE  \E k \in T : \A j \in T : ~(j < k)
<1>1. PICK k \in T : \A j \in T : ~(<<j, k>> \in OpToRel(<, Nat))
  BY NatLessThanWellFounded, WFMin
<1> QED  BY <1>1 DEF OpToRel

(* Whatever the order of the array, the delays are integers, and the delay *)
(* of a retry is greater than the one already served.                      *)
LEMMA FirstDelayType ==
  ASSUME NEW sched \in Seq(Int)
  PROVE  FirstDelay(sched) \in Int
BY DEF FirstDelay

(* The next delay is a greater one, or 0.                                  *)
LEMMA NextDelayGreater ==
  ASSUME NEW sched \in Seq(Int), NEW cur \in Int
  PROVE  /\ NextDelay(sched, cur) \in Int
         /\ NextDelay(sched, cur) = 0 \/ NextDelay(sched, cur) > cur
<1>1. CASE \E i \in DOMAIN sched : BreaksAt(sched, cur, i)
  <2> DEFINE k == CHOOSE i \in DOMAIN sched : BreaksAt(sched, cur, i)
  <2>1. k \in DOMAIN sched /\ BreaksAt(sched, cur, k)
    BY <1>1
  <2>2. NextDelay(sched, cur) = sched[k]
    BY <1>1 DEF NextDelay
  <2> HIDE DEF k
  <2>3. sched[k] \in Int /\ cur < sched[k]
    BY <2>1 DEF BreaksAt
  <2> QED  BY <2>2, <2>3
<1>2. CASE ~\E i \in DOMAIN sched : BreaksAt(sched, cur, i)
  BY <1>2 DEF NextDelay
<1> QED  BY <1>1, <1>2

(* Without a schedule nothing is retried.                                  *)
LEMMA NoDelays ==
  ASSUME NEW cur \in Int
  PROVE  FirstDelay(<<>>) = 0 /\ NextDelay(<<>>, cur) = 0
BY DEF NextDelay, FirstDelay
-----------------------------------------------------------------------------
(* The range loop breaks if any delay is greater than the one served.      *)
LEMMA BreakFound ==
  ASSUME NEW sched \in Seq(Int), NEW cur \in Int,
         NEW i \in DOMAIN sched, cur < sched[i]
  PROVE  \E k \in DOMAIN sched : BreaksAt(sched, cur, k)
<1> DEFINE T == {k \in DOMAIN sched : cur < sched[k]}
<1>1. T \subseteq Nat /\ T # {} /\ DOMAIN sched = 1..Len(sched) /\ Len(sched) \in Nat
  OBVIOUS
<1> HIDE DEF T
<1>3. PICK k \in T : \A j \in T : ~(j < k)
  BY <1>1, Least
<1>4. k \in DOMAIN sched /\ cur < sched[k]
  BY DEF T
<1>5. ASSUME NEW j \in 1..(k - 1)  PROVE sched[j] <= cur
  <2>1. j \in DOMAIN sched /\ j < k
    BY <1>1, <1>4
  <2>2. sched[j] \in Int /\ j \notin T
    BY <1>3, <2>1
  <2> QED  BY <2>1, <2>2 DEF T
<1> QED  BY <1>4, <1>5 DEF BreaksAt

(* In a sorted array the loop finds the least of the greater delays if     *)
(* there is one: no tier of the schedule is left out.                      *)
THEOREM NextDelayLeast ==
  ASSUME NEW sched \in Seq(Int), IsSorted(sched), NEW cur \in Int
  PROVE  \/ /\ NextDelay(sched, cur) = 0
            /\ \A t \in Tiers(sched) : t <= cur
         \/ /\ NextDelay(sched, cur) \in Tiers(sched)
            /\ NextDelay(sched, cur) > cur
            /\ \A t \in Tiers(sched) : t > cur => NextDelay(sched, cur) <= t
<1>1. \A i \in DOMAIN sched : sched[i] \in Int /\ i \in Nat
  OBVIOUS
<1>2. CASE \E i \in DOMAIN sched : BreaksAt(sched, cur, i)
  <2> DEFINE k == CHOOSE i \in DOMAIN sched : BreaksAt(sched, cur, i)
  <2>1. k \in DOMAIN sched /\ BreaksAt(sched, cur, k)
    BY <1>2
  <2>2. NextDelay(sched, cur) = sched[k]
    BY <1>2 DEF NextDelay
  <2> HIDE DEF k
  <2>3. ASSUME NEW i \in DOMAIN sched, sched[i] > cur  PROVE sched[k] <= sched[i]
    <3>1. ~(i < k)
      <4> SUFFICES ASSUME i < k  PROVE FALSE
        OBVIOUS
      <4>1. i \in 1..(k - 1)
        BY <1>1, <2>1
      <4> QED  BY <1>1, <2>1, <2>3, <4>1 DEF BreaksAt
    <3>2. i = k \/ k < i
      BY <1>1, <2>1, <3>1
    <3> QED  BY <1>1, <2>1, <3>2 DEF IsSorted
  <2>4. sched[k] \in Tiers(sched) /\ sched[k] > cur
    BY <1>1, <2>1 DEF Tiers, BreaksAt
  <2> QED  BY <2>2, <2>3, <2>4 DEF Tiers
<1>3. CASE ~\E i \in DOMAIN sched : BreaksAt(sched, cur, i)
  <2>1. \A i \in DOMAIN sched : sched[i] <= cur
    BY <1>1, <1>3, BreakFound
  <2> QED  BY <1>3, <2>1 DEF NextDelay, Tiers
<1> QED  BY <1>2, <1>3

(* The first delay of a sorted schedule is the least.                      *)
LEMMA FirstDelayLeast ==
  ASSUME NEW sched \in Seq(Int), IsSorted(sched), sched # <<>>
  PROVE  /\ FirstDelay(sched) \in Tiers(sched)
         /\ \A t \in Tiers(sched) : FirstDelay(sched) <= t
<1>1. 1 \in DOMAIN sched /\ \A i \in DOMAIN sched : sched[i] \in Int /\ i \in Nat /\ 1 <= i
  OBVIOUS
<1>2. \A i \in DOMAIN sched : sched[1] <= sched[i]
  BY <1>1 DEF IsSorted
<1> QED  BY <1>1, <1>2 DEF FirstDelay, Tiers
-----------------------------------------------------------------------------
(***************************************************************************)
(* Stages.  A message is dispatched first with no delay, stage 0, and then *)
(* with the tiers of the schedule; with none if the first is not positive. *)
(***************************************************************************)
TiersReached(sched) == IF FirstDelay(sched) > 0 THEN Tiers(sched) ELSE {}

Stages(sched) == {0} \cup TiersReached(sched)
StagesUpTo(sched, d) == {t \in Stages(sched) : t <= d}
StagesBelow(sched, d) == {t \in Stages(sched) : t < d}

(* The tiers that are reached are positive.                                *)
LEMMA StagesPositive ==
  ASSUME NEW sched \in Seq(Int), IsSorted(sched)
  PROVE  /\ Stages(sched) \in SUBSET Int
         /\ \A t \in TiersReached(sched) : t > 0 /\ FirstDelay(sched) <= t
         /\ FirstDelay(sched) > 0 => FirstDelay(sched) \in TiersReached(sched)
         /\ \A t \in Stages(sched) : t >= 0
<1>1. CASE sched = <<>>
  BY <1>1 DEF Stages, TiersReached, FirstDelay
<1>2. CASE sched # <<>>
  <2>1. Tiers(sched) \in SUBSET Int /\ FirstDelay(sched) \in Int
    BY FirstDelayType DEF Tiers
  <2>2. \A t \in Tiers(sched) : FirstDelay(sched) <= t
    BY <1>2, FirstDelayLeast
  <2> QED  BY <1>2, <2>1, <2>2, FirstDelayLeast DEF Stages, TiersReached
<1> QED  BY <1>1, <1>2

(* The first post is the first stage.                                      *)
LEMMA StagesAtZero ==
  ASSUME NEW sched \in Seq(Int), IsSorted(sched)
  PROVE  StagesBelow(sched, 0) = {} /\ StagesUpTo(sched, 0) = {0}
<1>1. \A t \in TiersReached(sched) : ~(t <= 0) /\ ~(t < 0)
  BY StagesPositive DEF Stages
<1>2. \A t : (t \in StagesUpTo(sched, 0) <=> t = 0) /\ t \notin StagesBelow(sched, 0)
  BY <1>1 DEF StagesUpTo, StagesBelow, Stages
<1> QED  BY <1>2

(* A stage is all that comes before the next one.                          *)
LEMMA StagesAdd ==
  ASSUME NEW sched \in Seq(Int), IsSorted(sched), NEW d \in Stages(sched)
  PROVE  StagesBelow(sched, d) \cup {d} = StagesUpTo(sched, d)
<1>1. d \in Int /\ \A t \in Stages(sched) : t \in Int
  BY StagesPositive
<1>2. \A t \in Stages(sched) : t <= d <=> t < d \/ t = d
  BY <1>1
<1> QED  BY <1>2 DEF StagesUpTo, StagesBelow

(* The delay a failed dispatch asks for is the stage above its own: the    *)
(* schedule is walked tier by tier, and left after the last.               *)
THEOREM DelayAfterNextStage ==
  ASSUME NEW sched \in Seq(Int), IsSorted(sched), NEW cur \in Stages(sched), NEW mode,
         mode = "retry" => cur > 0, mode # "retry" => cur = 0
  PROVE  \/ /\ DelayAfter(mode, cur, sched) <= 0
            /\ StagesUpTo(sched, cur) = Stages(sched)
         \/ /\ DelayAfter(mode, cur, sched) > 0
            /\ DelayAfter(mode, cur, sched) \in TiersReached(sched)
            /\ StagesBelow(sched, DelayAfter(mode, cur, sched)) = StagesUpTo(sched, cur)
<1> DEFINE next == DelayAfter(mode, cur, sched)
<1>1. cur \in Int /\ \A t \in Stages(sched) : t \in Int /\ t >= 0
  BY StagesPositive
<1>2. CASE mode # "retry"
  <2>1. cur = 0 /\ next = FirstDelay(sched) /\ next \in Int
    BY <1>2, FirstDelayType DEF DelayAfter
  <2> HIDE DEF next
  <2>2. CASE next <= 0
    <3>1. Stages(sched) = {0}
      BY <2>1, <2>2 DEF Stages, TiersReached
    <3> QED  BY <2>1, <2>2, <3>1, StagesAtZero DEF next
  <2>3. CASE next > 0
    <3>1. next \in TiersReached(sched) /\ \A t \in TiersReached(sched) : next <= t
      BY <2>1, <2>3, StagesPositive
    <3>2. \A t \in Stages(sched) : t < next <=> t = 0
      BY <1>1, <2>1, <2>3, <3>1 DEF Stages
    <3>3. StagesBelow(sched, next) = {0}
      BY <3>2 DEF StagesBelow, Stages
    <3> QED  BY <2>1, <2>3, <3>1, <3>3, StagesAtZero DEF next
  <2> QED  BY <2>1, <2>2, <2>3
<1>3. CASE mode = "retry"
  <2>1. cur > 0 /\ cur \in TiersReached(sched) /\ TiersReached(sched) = Tiers(sched)
    BY <1>3 DEF Stages, TiersReached
  <2>2. next = NextDelay(sched, cur)
    BY <1>3 DEF DelayAfter
  <2> HIDE DEF next
  <2>3. \/ next = 0 /\ \A t \in TiersReached(sched) : t <= cur
        \/ /\ next \in TiersReached(sched) /\ next > cur
           /\ \A t \in TiersReached(sched) : t > cur => next <= t
    BY <1>1, <2>1, <2>2, NextDelayLeast
  <2>4. CASE next = 0 /\ \A t \in TiersReached(sched) : t <= cur
    <3>1. \A t \in Stages(sched) : t <= cur
      BY <1>1, <2>1, <2>4 DEF Stages
    <3>2. StagesUpTo(sched, cur) = Stages(sched)
      BY <3>1 DEF StagesUpTo
    <3> QED  BY <2>4, <3>2 DEF next
  <2>5. CASE /\ next \in TiersReached(sched) /\ next > cur
             /\ \A t \in TiersReached(sched) : t > cur => next <= t
    <3>1. next \in Int /\ next > 0
      BY <1>1, <2>1, <2>5 DEF Stages
    <3>2. \A t \in Stages(sched) : t < next <=> t <= cur
      BY <1>1, <2>1, <2>5, <3>1 DEF Stages
    <3>3. StagesBelow(sched, next) = StagesUpTo(sched, cur)
      BY <3>2 DEF StagesBelow, StagesUpTo
    <3> QED  BY <2>5, <3>1, <3>3 DEF next
  <2> QED  BY <2>3, <2>4, <2>5
<1> QED  BY <1>2, <1>3
-----------------------------------------------------------------------------
(***************************************************************************)
(* Spreading n interruptions over k dispatches.  The binomial coefficient  *)
(* of the community modules is a recursive function, so what is known of   *)
(* it here is proved by hand, by taking the least counterexample.          *)
(***************************************************************************)
(* f is a table of the factorials up to that of k.                         *)
FactorialTo(f, k) == f = [n \in 0..k |-> IF n = 0 THEN 1 ELSE n * f[n - 1]]

(* There is a table of the factorials as long as one likes.               *)
LEMMA FactorialSteps ==
  ASSUME NEW k \in Nat
  PROVE  \E f : FactorialTo(f, k)
<1> DEFINE T == {i \in Nat : ~\E f : FactorialTo(f, i)}
<1> SUFFICES ASSUME T # {}  PROVE FALSE
  OBVIOUS
<1>1. PICK i \in T : \A j \in T : ~(j < i)
  BY Least
<1>2. i \in Nat /\ ~\E f : FactorialTo(f, i)
  OBVIOUS
<1>3. CASE i = 0
  <2> DEFINE f == [n \in 0..0 |-> 1]
  <2>1. f = [n \in 0..0 |-> IF n = 0 THEN 1 ELSE n * f[n - 1]]
    OBVIOUS
  <2> HIDE DEF f
  <2> QED  BY <1>2, <1>3, <2>1 DEF FactorialTo
<1>4. CASE i # 0
  <2>1. i - 1 \in Nat /\ i - 1 \notin T
    BY <1>1, <1>2, <1>4
  <2>2. PICK g : FactorialTo(g, i - 1)
    BY <2>1
  <2> DEFINE f == [n \in 0..i |-> IF n = 0 THEN 1 ELSE n * g[n - 1]]
  <2>3. \A n \in 0..i : n # 0 => n - 1 \in 0..(i - 1) /\ n - 1 \in 0..i
    BY <1>2
  <2>4. \A n \in 0..(i - 1) : n \in 0..i /\ f[n] = g[n]
    <3>1. \A n \in 0..(i - 1) : g[n] = IF n = 0 THEN 1 ELSE n * g[n - 1]
      BY <2>2 DEF FactorialTo
    <3> QED  BY <1>2, <3>1
  <2>5. \A n \in 0..i : n # 0 => f[n - 1] = g[n - 1]
    BY <2>3, <2>4
  <2>6. f = [n \in 0..i |-> IF n = 0 THEN 1 ELSE n * f[n - 1]]
    BY <2>5
  <2> HIDE DEF f
  <2> QED  BY <1>2, <2>6 DEF FactorialTo
<1> QED  BY <1>3, <1>4

(* Two tables agree where both have an entry.                              *)
LEMMA FactorialsAgree ==
  ASSUME NEW k \in Nat, NEW j \in Nat, NEW f, NEW g, FactorialTo(f, k), FactorialTo(g, j)
  PROVE  \A n \in Nat : n <= k /\ n <= j => f[n] = g[n]
<1>1. \A n \in 0..k : f[n] = IF n = 0 THEN 1 ELSE n * f[n - 1]
  BY DEF FactorialTo
<1>2. \A n \in 0..j : g[n] = IF n = 0 THEN 1 ELSE n * g[n - 1]
  BY DEF FactorialTo
<1> DEFINE T == {n \in Nat : n <= k /\ n <= j /\ f[n] # g[n]}
<1> SUFFICES ASSUME T # {}  PROVE FALSE
  OBVIOUS
<1>3. PICK i \in T : \A n \in T : ~(n < i)
  BY Least
<1>4. i \in 0..k /\ i \in 0..j /\ i \in Nat
  OBVIOUS
<1>5. CASE i = 0
  BY <1>1, <1>2, <1>4, <1>5
<1>6. CASE i # 0
  <2>1. i - 1 \in Nat /\ i - 1 <= k /\ i - 1 <= j /\ i - 1 < i
    BY <1>4, <1>6
  <2>2. f[i - 1] = g[i - 1]
    BY <1>3, <2>1
  <2> QED  BY <1>1, <1>2, <1>4, <1>6, <2>2
<1> QED  BY <1>5, <1>6

(* The recursive function of the community modules is what it says it is.  *)
LEMMA Factorial ==
  /\ factorial[0] = 1
  /\ \A n \in Nat : factorial[n + 1] = (n + 1) * factorial[n]
<1> DEFINE to(k) == CHOOSE f : FactorialTo(f, k)
           F == [n \in Nat |-> to(n)[n]]
<1>1. \A k \in Nat : FactorialTo(to(k), k)
  BY FactorialSteps
<1>2. \A k \in Nat : \A n \in 0..k : to(k)[n] = IF n = 0 THEN 1 ELSE n * to(k)[n - 1]
  BY <1>1 DEF FactorialTo
<1> HIDE DEF to
<1>3. F = [n \in Nat |-> IF n = 0 THEN 1 ELSE n * F[n - 1]]
  <2> SUFFICES ASSUME NEW n \in Nat
               PROVE  to(n)[n] = IF n = 0 THEN 1 ELSE n * F[n - 1]
    OBVIOUS
  <2>1. CASE n = 0
    BY <1>2, <2>1
  <2>2. CASE n # 0
    <3>1. n - 1 \in Nat /\ n \in 0..n
      BY <2>2
    <3>2. to(n)[n - 1] = to(n - 1)[n - 1]
      BY <1>1, <3>1, FactorialsAgree
    <3> QED  BY <1>2, <2>2, <3>1, <3>2
  <2> QED  BY <2>1, <2>2
<1> HIDE DEF F
<1>4. factorial = [n \in Nat |-> IF n = 0 THEN 1 ELSE n * factorial[n - 1]]
  BY <1>3 DEF factorial
<1>5. \A n \in Nat : factorial[n] = IF n = 0 THEN 1 ELSE n * factorial[n - 1]
  BY <1>4
<1> QED  BY <1>5

(* Lists of k numbers up to n that never fall: how many of n interruptions *)
(* had happened at each of k dispatches.                                   *)
Ascending(k, n) ==
  {s \in [1..k -> 0..n] : \A i, j \in 1..k : i <= j => s[i] <= s[j]}

EndingAt(k, n) == {s \in Ascending(k, n) : s[k] = n}

(* Nothing can be spread in one way.                                       *)
LEMMA AscendingNone ==
  ASSUME NEW n \in Nat
  PROVE  IsFiniteSet(Ascending(0, n)) /\ Cardinality(Ascending(0, n)) = 1
<1> DEFINE none == [i \in 1..0 |-> 0]
<1>1. 1..0 = {}
  OBVIOUS
<1>2. \A s \in [1..0 -> 0..n] : s = none
  BY <1>1
<1>3. none \in [1..0 -> 0..n]
  BY <1>1
<1>4. Ascending(0, n) = {none}
  BY <1>1, <1>2, <1>3 DEF Ascending
<1> HIDE DEF none
<1> QED  BY <1>4, FS_Singleton

(* So can anything over zero.                                              *)
LEMMA AscendingZero ==
  ASSUME NEW k \in Nat
  PROVE  IsFiniteSet(Ascending(k, 0)) /\ Cardinality(Ascending(k, 0)) = 1
<1> DEFINE zeros == [i \in 1..k |-> 0]
<1>1. 0..0 = {0}
  OBVIOUS
<1>2. Ascending(k, 0) = {zeros}
  BY <1>1 DEF Ascending
<1> HIDE DEF zeros
<1> QED  BY <1>2, FS_Singleton

(* A list ends at n or below.                                              *)
LEMMA AscendingSplit ==
  ASSUME NEW k \in Nat, NEW n \in Nat, k > 0, n > 0
  PROVE  /\ Ascending(k, n) = Ascending(k, n - 1) \cup EndingAt(k, n)
         /\ Ascending(k, n - 1) \cap EndingAt(k, n) = {}
<1>1. n - 1 \in Nat /\ k \in 1..k /\ 0..(n - 1) \in SUBSET (0..n)
  OBVIOUS
<1>2. \A s \in Ascending(k, n - 1) : s \in Ascending(k, n) /\ s[k] # n
  BY <1>1 DEF Ascending
<1>3. ASSUME NEW s \in Ascending(k, n), s[k] # n  PROVE s \in Ascending(k, n - 1)
  <2>1. s \in [1..k -> 0..n] /\ \A i \in 1..k : s[i] <= s[k] /\ s[i] \in 0..n
    BY <1>1 DEF Ascending
  <2>2. s[k] <= n - 1
    BY <1>1, <1>3, <2>1
  <2>3. \A i \in 1..k : s[i] \in 0..(n - 1)
    BY <1>1, <2>1, <2>2
  <2>4. s \in [1..k -> 0..(n - 1)]
    BY <2>1, <2>3
  <2> QED  BY <2>4 DEF Ascending
<1> QED  BY <1>2, <1>3 DEF EndingAt

(* A list that ends at n is any list one shorter.                          *)
LEMMA AscendingDrop ==
  ASSUME NEW k \in Nat, NEW n \in Nat, k > 0
  PROVE  ExistsBijection(Ascending(k - 1, n), EndingAt(k, n))
<1> DEFINE longer(s) == [i \in 1..k |-> IF i = k THEN n ELSE s[i]]
           shorter(t) == [i \in 1..(k - 1) |-> t[i]]
           f == [s \in Ascending(k - 1, n) |-> longer(s)]
<1>1. k - 1 \in Nat /\ k \in 1..k /\ \A i : i \in 1..k <=> i \in 1..(k - 1) \/ i = k
  OBVIOUS
<1>2. ASSUME NEW s \in Ascending(k - 1, n)
      PROVE  longer(s) \in EndingAt(k, n) /\ shorter(longer(s)) = s
  <2>1. s \in [1..(k - 1) -> 0..n] /\ \A i, j \in 1..(k - 1) : i <= j => s[i] <= s[j]
    BY DEF Ascending
  <2>2. longer(s) \in [1..k -> 0..n] /\ longer(s)[k] = n
    BY <1>1, <2>1
  <2>3. \A i \in 1..(k - 1) : longer(s)[i] = s[i]
    BY <1>1
  <2>4. ASSUME NEW i \in 1..k, NEW j \in 1..k, i <= j  PROVE longer(s)[i] <= longer(s)[j]
    <3>1. CASE j = k
      <4>1. longer(s)[i] \in 0..n
        BY <2>2
      <4> QED  BY <2>2, <3>1, <4>1
    <3>2. CASE j # k
      <4>1. i \in 1..(k - 1) /\ j \in 1..(k - 1)
        BY <2>4, <3>2
      <4> QED  BY <2>1, <2>3, <2>4, <4>1
    <3> QED  BY <3>1, <3>2
  <2>5. longer(s) \in EndingAt(k, n)
    BY <2>2, <2>4 DEF EndingAt, Ascending
  <2>6. shorter(longer(s)) = s
    BY <2>1, <2>3
  <2> QED  BY <2>5, <2>6
<1>3. ASSUME NEW t \in EndingAt(k, n)
      PROVE  shorter(t) \in Ascending(k - 1, n) /\ longer(shorter(t)) = t
  <2>1. t \in [1..k -> 0..n] /\ t[k] = n /\ \A i, j \in 1..k : i <= j => t[i] <= t[j]
    BY DEF EndingAt, Ascending
  <2>2. shorter(t) \in Ascending(k - 1, n)
    BY <1>1, <2>1 DEF Ascending
  <2>3. longer(shorter(t)) = t
    BY <1>1, <2>1
  <2> QED  BY <2>2, <2>3
<1> HIDE DEF longer, shorter
<1>4. f \in Injection(Ascending(k - 1, n), EndingAt(k, n))
  <2>1. f \in [Ascending(k - 1, n) -> EndingAt(k, n)]
    BY <1>2
  <2>2. \A s, t \in Ascending(k - 1, n) : f[s] = f[t] => s = t
    BY <1>2
  <2> QED  BY <2>1, <2>2 DEF Injection, IsInjective
<1>5. f \in Surjection(Ascending(k - 1, n), EndingAt(k, n))
  <2>1. f \in [Ascending(k - 1, n) -> EndingAt(k, n)]
    BY <1>2
  <2>2. \A t \in EndingAt(k, n) : \E s \in Ascending(k - 1, n) : f[s] = t
    BY <1>3
  <2> QED  BY <2>1, <2>2 DEF Surjection
<1> QED  BY <1>4, <1>5 DEF ExistsBijection, Bijection

(* Factorials are positive.                                                *)
LEMMA FactorialPositive == \A n \in Nat : factorial[n] \in Nat /\ factorial[n] > 0
<1> DEFINE T == {n \in Nat : ~(factorial[n] \in Nat /\ factorial[n] > 0)}
<1> SUFFICES ASSUME T # {}  PROVE FALSE
  OBVIOUS
<1>1. PICK i \in T : \A j \in T : ~(j < i)
  BY Least
<1>2. i \in Nat /\ ~(factorial[i] \in Nat /\ factorial[i] > 0)
  OBVIOUS
<1>3. i # 0
  BY <1>2, Factorial
<1>4. i - 1 \in Nat /\ i - 1 \notin T
  BY <1>1, <1>2, <1>3
<1>5. factorial[i - 1] \in Nat /\ factorial[i - 1] > 0 /\ i > 0
  BY <1>2, <1>3, <1>4
<1>6. factorial[i] = i * factorial[i - 1]
  BY <1>2, <1>4, Factorial
<1> DEFINE g == factorial[i - 1]
<1> HIDE DEF g
<1>7. g \in Nat /\ g > 0 /\ i * g \in Nat /\ i * g > 0
  BY <1>2, <1>5 DEF g
<1> QED  BY <1>2, <1>6, <1>7 DEF g

(* The rule of Pascal's triangle, multiplied out.                          *)
LEMMA Pascal ==
  ASSUME NEW a \in Nat, NEW b \in Nat, NEW k \in Nat, NEW n \in Nat,
         NEW kf \in Nat, NEW nf \in Nat, NEW x \in Nat,
         a * ((k * kf) * nf) = x, b * (kf * (n * nf)) = x
  PROVE  (a + b) * ((k * kf) * (n * nf)) = (n + k) * x
<1>1. a * ((k * kf) * (n * nf)) = n * (a * ((k * kf) * nf))
  OBVIOUS
<1>2. b * ((k * kf) * (n * nf)) = k * (b * (kf * (n * nf)))
  OBVIOUS
<1>3. (a + b) * ((k * kf) * (n * nf)) = a * ((k * kf) * (n * nf)) + b * ((k * kf) * (n * nf))
  OBVIOUS
<1>4. (n + k) * x = n * x + k * x
  OBVIOUS
<1> QED  BY <1>1, <1>2, <1>3, <1>4

Counts(k, n) ==
  /\ IsFiniteSet(Ascending(k, n))
  /\ Cardinality(Ascending(k, n)) * (factorial[k] * factorial[n]) = factorial[n + k]

(* Each entry of the triangle is the sum of two before it, so all are      *)
(* binomial coefficients.                                                  *)
LEMMA AscendingCounted == \A k, n \in Nat : Counts(k, n)
<1> DEFINE T == {i \in Nat : \E k, n \in Nat : k + n = i /\ ~Counts(k, n)}
<1> SUFFICES ASSUME T # {}  PROVE FALSE
  <2>1. \A k, n \in Nat : k + n \in Nat /\ (~Counts(k, n) => k + n \in T)
    OBVIOUS
  <2> QED  BY <2>1
<1>1. PICK i \in T : \A j \in T : ~(j < i)
  BY Least
<1>2. PICK k \in Nat, n \in Nat : k + n = i /\ ~Counts(k, n)
  OBVIOUS
<1>3. CASE k = 0
  <2>1. factorial[n] \in Nat
    BY FactorialPositive
  <2> QED  BY <1>2, <1>3, <2>1, AscendingNone, Factorial DEF Counts
<1>4. CASE n = 0
  <2>1. factorial[k] \in Nat
    BY FactorialPositive
  <2> QED  BY <1>2, <1>4, <2>1, AscendingZero, Factorial DEF Counts
<1>5. CASE k > 0 /\ n > 0
  <2>1. k - 1 \in Nat /\ n - 1 \in Nat /\ (k - 1) + n < i /\ k + (n - 1) < i
        /\ (k - 1) + n \in Nat /\ k + (n - 1) \in Nat
    BY <1>2, <1>5
  <2>2. Counts(k - 1, n) /\ Counts(k, n - 1)
    BY <1>1, <2>1
  <2> DEFINE a == Cardinality(Ascending(k, n - 1))
             b == Cardinality(Ascending(k - 1, n))
             kf == factorial[k - 1]
             nf == factorial[n - 1]
             x == factorial[n + k - 1]
  <2>3. IsFiniteSet(Ascending(k, n - 1)) /\ IsFiniteSet(Ascending(k - 1, n))
    BY <2>2 DEF Counts
  <2>4. IsFiniteSet(EndingAt(k, n)) /\ Cardinality(EndingAt(k, n)) = b
    BY <1>5, <2>3, AscendingDrop, FS_Bijection
  <2>5. IsFiniteSet(Ascending(k, n)) /\ Cardinality(Ascending(k, n)) = a + b
    <3> DEFINE A == Ascending(k, n - 1)
               E == EndingAt(k, n)
    <3>1. IsFiniteSet(A \cup E) /\ Cardinality(A \cup E) = a + b - Cardinality({})
      <4>1. A \cap E = {} /\ IsFiniteSet(A) /\ IsFiniteSet(E) /\ Cardinality(A) = a /\ Cardinality(E) = b
        BY <1>5, <2>3, <2>4, AscendingSplit
      <4> HIDE DEF A, E, a, b
      <4> QED  BY <4>1, FS_Union
    <3>2. a \in Nat /\ b \in Nat /\ Cardinality({}) = 0
      BY <2>3, FS_CardinalityType, FS_EmptySet
    <3> HIDE DEF a, b
    <3> QED  BY <1>5, <3>1, <3>2, AscendingSplit
  <2>6. a \in Nat /\ b \in Nat /\ kf \in Nat /\ nf \in Nat /\ x \in Nat
    <3>1. n + k - 1 \in Nat
      BY <1>5
    <3> QED  BY <2>1, <2>3, <3>1, FS_CardinalityType, FactorialPositive
  <2>7. factorial[k] = k * kf /\ factorial[n] = n * nf /\ factorial[n + k] = (n + k) * x
    <3>1. (k - 1) + 1 = k /\ (n - 1) + 1 = n /\ (n + k - 1) + 1 = n + k /\ n + k - 1 \in Nat
      BY <1>5
    <3>2. \A j \in Nat : factorial[j + 1] = (j + 1) * factorial[j]
      BY Factorial
    <3>3. factorial[(k - 1) + 1] = ((k - 1) + 1) * kf
      BY <2>1, <3>2
    <3>4. factorial[(n - 1) + 1] = ((n - 1) + 1) * nf
      BY <2>1, <3>2
    <3>5. factorial[(n + k - 1) + 1] = ((n + k - 1) + 1) * x
      BY <3>1, <3>2
    <3> HIDE DEF kf, nf, x
    <3> QED  BY <3>1, <3>3, <3>4, <3>5
  <2>8. a * (factorial[k] * nf) = x /\ b * (kf * factorial[n]) = x
    <3>1. (n - 1) + k = n + k - 1 /\ n + (k - 1) = n + k - 1
      BY <1>5
    <3> QED  BY <2>2, <3>1 DEF Counts
  <2> HIDE DEF a, b, kf, nf, x
  <2>9. a * ((k * kf) * nf) = x /\ b * (kf * (n * nf)) = x
    BY <2>7, <2>8
  <2>10. (a + b) * ((k * kf) * (n * nf)) = (n + k) * x
    BY <2>6, <2>9, Pascal
  <2> QED  BY <1>2, <2>5, <2>7, <2>10 DEF Counts
<1> QED  BY <1>3, <1>4, <1>5

(* What was multiplied can be divided again.                               *)
LEMMA DivideBack ==
  ASSUME NEW a \in Nat, NEW b \in Nat, b > 0
  PROVE  (a * b) \div b = a
OBVIOUS

(* There are choose(n + k, k) ways to note k times a number of             *)
(* interruptions out of n that never falls.                                *)
THEOREM AscendingChoose ==
  ASSUME NEW k \in Nat, NEW n \in Nat
  PROVE  /\ IsFiniteSet(Ascending(k, n))
         /\ Cardinality(Ascending(k, n)) = choose(n + k, k)
<1> DEFINE a == Cardinality(Ascending(k, n))
           b == factorial[k] * factorial[n]
<1>1. IsFiniteSet(Ascending(k, n)) /\ a \in Nat /\ a * b = factorial[n + k]
  BY AscendingCounted, FS_CardinalityType DEF Counts
<1>2. b \in Nat /\ b > 0
  <2> DEFINE kf == factorial[k]
             nf == factorial[n]
  <2>1. kf \in Nat /\ kf > 0 /\ nf \in Nat /\ nf > 0
    BY FactorialPositive
  <2> HIDE DEF kf, nf
  <2>2. kf * nf \in Nat /\ kf * nf > 0
    BY <2>1
  <2> QED  BY <2>2 DEF kf, nf
<1>3. (n + k) - k = n
  OBVIOUS
<1>4. choose(n + k, k) = (a * b) \div b
  BY <1>1, <1>3 DEF choose
<1> HIDE DEF a, b
<1>5. (a * b) \div b = a
  BY <1>1, <1>2, DivideBack
<1> QED  BY <1>1, <1>4, <1>5 DEF a
=============================================================================
