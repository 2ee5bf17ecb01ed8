---------------------------- MODULE ProcessesProofs ----------------------------
(***************************************************************************)
(* The pid file keeps processes apart (Exclusive), and the queues of one   *)
(* key share the connection printTest dialled for the first source that    *)
(* has it (OnePerKey), for any number of pids, sources, users and crashes. *)
(*                                                                         *)
(* Exclusive says nothing of a process that is between its check and its   *)
(* write, so it is not inductive.  Listed adds what is true there: as long *)
(* as the history did not go wrong, at most one process is past the check, *)
(* and once it dispatches the file names it.                               *)
(***************************************************************************)
EXTENDS Processes, FiniteSetTheorems, WellFoundedInduction, TLAPS

StageOK == stage \in [Pids -> Stages]

(* At most one process is past the check of the pid file; when it          *)
(* dispatches, its pid is what the next one will find there; and none is   *)
(* about to write into a file that is no longer the pid file.              *)
Listed ==
  ~raced =>
    /\ \A p, q \in Pids : Active(p) /\ Active(q) => p = q
    /\ \A p \in Pids : Dispatches(p) => file = p
    /\ \A p \in Pids : stage[p] # "blind"

IInv == StageOK /\ Listed

(* A step that changes only where one process is, and leaves the file, the *)
(* history and the set of processes past the check at most smaller, keeps  *)
(* the invariant.                                                          *)
LEMMA Retreat ==
  ASSUME IInv, NEW p \in Pids, NEW where \in Stages,
         stage' = [stage EXCEPT ![p] = where],
         where \in {"free", "other", "args", "check", "stat"},
         UNCHANGED <<file, raced>>
  PROVE  IInv'
  BY DEF IInv, StageOK, Listed, Active, InWindow, Dispatches, Stages

(* The same for a step within "run" and "serve".                           *)
LEMMA Advance ==
  ASSUME IInv, NEW p \in Pids, Dispatches(p),
         stage' = [stage EXCEPT ![p] = "serve"],
         UNCHANGED <<file, raced>>
  PROVE  IInv'
  BY DEF IInv, StageOK, Listed, Active, InWindow, Dispatches, Stages

(* So does a step that changes none of this.                               *)
LEMMA Still ==
  ASSUME IInv, UNCHANGED <<stage, file, raced>>
  PROVE  IInv'
  BY DEF IInv, StageOK, Listed, Active, InWindow, Dispatches

(* The invariant holds at first.                                           *)
LEMMA ListedInit == Init => IInv
  BY DEF Init, IInv, StageOK, Listed, Active, InWindow, Dispatches, Stages

(* Every step keeps it.                                                    *)
LEMMA ListedStep == IInv /\ [Next]_vars => IInv'
<1> SUFFICES ASSUME IInv, [Next]_vars
             PROVE  IInv'
  OBVIOUS
<1> USE DEF At
<1>1. CASE UnitEnds
  <2>1. CASE same
    (* With a process past the check, the history goes wrong; without one, *)
    (* there is nothing to say.                                            *)
    <3>1. StageOK'
      BY <1>1, <2>1 DEF UnitEnds, IInv, StageOK, Stages
    <3>2. ASSUME ~raced'
          PROVE  \A p \in Pids : ~Active(p)' /\ stage'[p] # "blind"
      BY <1>1, <2>1, <3>2 DEF UnitEnds, IInv, StageOK, Stages, Active, InWindow, Dispatches
    <3> QED
      BY <3>1, <3>2 DEF IInv, Listed, Active
  <2>2. CASE ~same
    BY <1>1, <2>2, Still DEF UnitEnds
  <2> QED
    BY <2>1, <2>2
<1>2. CASE Outage
  BY <1>2, Still DEF Outage
<1>3. ASSUME NEW p \in Pids, UnitStarts(p)
      PROVE  IInv'
  BY <1>3, Retreat DEF UnitStarts, Stages
<1>4. ASSUME NEW p \in Pids, NEW c \in Commands, UserStarts(p, c)
      PROVE  IInv'
  BY <1>4, Retreat DEF UserStarts, Stages
<1>5. ASSUME NEW p \in Pids, Other(p)
      PROVE  IInv'
  BY <1>5, Retreat DEF Other, Stages
<1>6. ASSUME NEW p \in Pids, Dies(p)
      PROVE  IInv'
  BY <1>6, Retreat DEF Dies, Ends, Stages
<1>7. ASSUME NEW p \in Pids, Tested(p) \/ TestFails(p)
      PROVE  IInv'
  BY <1>7, Retreat DEF Tested, TestFails, Ends, Stages
<1>8. ASSUME NEW p \in Pids, ReadFile(p) \/ Refused(p)
      PROVE  IInv'
  BY <1>8, Retreat DEF ReadFile, Refused, Ends, Stages
<1>9. ASSUME NEW p \in Pids, Passed(p)
      PROVE  IInv'
  (* Who dispatches is named by the file, which is still what was read,    *)
  (* and would have been found there; who is in the window, or has changed *)
  (* the file, makes the history go wrong.                                 *)
  <2>1. StageOK'
    BY <1>9 DEF Passed, IInv, StageOK, Stages
  <2>2. ASSUME ~raced', NEW q \in Pids, q # p
        PROVE  ~Active(q)
    <3>1. ~InWindow(q)
      BY <1>9, <2>2 DEF Passed
    <3>2. ~Dispatches(q)
      BY <1>9, <2>2 DEF Passed, IInv, Listed, Exists, Dispatches
    <3> QED
      BY <3>1, <3>2 DEF Active
  <2>3. ASSUME NEW q \in Pids, q # p
        PROVE  stage'[q] = stage[q]
    BY <1>9, <2>3 DEF Passed, IInv, StageOK
  <2>4. stage'[p] = "create" /\ (raced => raced')
    BY <1>9 DEF Passed, IInv, StageOK
  <2>5. Listed'
    BY <2>2, <2>3, <2>4 DEF IInv, Listed, Active, InWindow, Dispatches
  <2> QED
    BY <2>1, <2>5 DEF IInv
<1>10. ASSUME NEW p \in Pids, Create(p)
       PROVE  IInv'
  <2>1. StageOK'
    BY <1>10 DEF Create, IInv, StageOK, Stages
  <2>2. Listed'
    <3>1. ASSUME NEW q \in Pids, q # p
          PROVE  stage'[q] = stage[q]
      BY <1>10, <3>1 DEF Create, IInv, StageOK
    <3>2. InWindow(p) /\ stage'[p] = "write"
      BY <1>10 DEF Create, IInv, StageOK, InWindow
    <3> QED
      BY <1>10, <3>1, <3>2 DEF Create, IInv, Listed, Active, InWindow, Dispatches
  <2> QED
    BY <2>1, <2>2 DEF IInv
<1>11. ASSUME NEW p \in Pids, Write(p)
       PROVE  IInv'
  <2>1. StageOK'
    BY <1>11 DEF Write, IInv, StageOK, Stages
  <2>2. Listed'
    BY <1>11 DEF Write, IInv, StageOK, Listed, Active, InWindow, Dispatches
  <2> QED
    BY <2>1, <2>2 DEF IInv
<1>12. ASSUME NEW p \in Pids, NEW i \in DOMAIN Sources, QueueStarts(p, i)
       PROVE  IInv'
  BY <1>12, Still DEF QueueStarts
<1>13. ASSUME NEW p \in Pids, NEW i \in DOMAIN Sources, QueueFails(p, i)
       PROVE  IInv'
  BY <1>13, Retreat DEF QueueFails, Ends, Stages
<1>14. ASSUME NEW p \in Pids, Listen(p)
       PROVE  IInv'
  BY <1>14, Retreat, Advance DEF Listen, Ends, Stages, Dispatches
<1>15. CASE UNCHANGED vars
  BY <1>15, Still DEF vars
<1> QED
  BY <1>1, <1>2, <1>3, <1>4, <1>5, <1>6, <1>7, <1>8, <1>9, <1>10, <1>11,
     <1>12, <1>13, <1>14, <1>15
     DEF Next, Starting

(* The strengthening: as long as no process passed the check beside        *)
(* another one and systemd removed no live process' file, one process at   *)
(* most is past the check and the file names it as soon as it dispatches.  *)
THEOREM ListedHolds == Spec => []Listed
<1>1. IInv => Listed
  BY DEF IInv
<1> QED
  BY <1>1, ListedInit, ListedStep, PTL DEF Spec

(* Two processes dispatch side by side only after one of those two things  *)
(* has happened.                                                           *)
THEOREM ExclusiveHolds == Spec => []Exclusive
<1>1. Listed => Exclusive
  BY DEF Listed, Exclusive, Active
<1> QED
  BY <1>1, ListedHolds, PTL
-----------------------------------------------------------------------------
(***************************************************************************)
(* The cache of connections.  What printTest leaves in it holds every key  *)
(* of the file once, under the first source that has it; from then on the  *)
(* queues find what they ask for, and nothing is dialled any more.         *)
(***************************************************************************)
KeyOf(i) == Key(Sources[i])

(* i is the first source of the file with its key.                         *)
FirstOf(i) == \A k \in DOMAIN Sources : KeyOf(k) = KeyOf(i) => i <= k

KeyedOnce(dialled) ==
  /\ dialled \in Seq(DOMAIN Sources)
  /\ \A j, k \in DOMAIN dialled : KeyOf(dialled[j]) = KeyOf(dialled[k]) => j = k

(* The sources are a sequence.                                             *)
LEMMA SourcesSeq == DOMAIN Sources = 1..Len(Sources) /\ Len(Sources) \in Nat
BY ProcessAssumption

(* What the loop of printTest has done after its first n sources.          *)
PrimedTo(n, dialled) ==
  /\ KeyedOnce(dialled)
  /\ \A j \in DOMAIN dialled : FirstOf(dialled[j])
  /\ \A i \in 1..n : Hits(i, dialled) # {}

(* One source more.  If its key is not there, no earlier source has it.    *)
LEMMA DialledNext ==
  ASSUME NEW i \in DOMAIN Sources, NEW dialled, PrimedTo(i - 1, dialled)
  PROVE  PrimedTo(i, Dialled(i, dialled))
<1> DEFINE after == Dialled(i, dialled)
<1>1. i \in Nat /\ i > 0
  BY SourcesSeq
<1>2. CASE Hits(i, dialled) = {}
  <2>1. /\ after \in Seq(DOMAIN Sources) /\ Len(after) = Len(dialled) + 1
        /\ after[Len(after)] = i /\ DOMAIN after = 1..Len(after)
        /\ \A j \in DOMAIN dialled : after[j] = dialled[j]
        /\ DOMAIN dialled = 1..Len(dialled) /\ Len(dialled) \in Nat
    BY <1>2 DEF Dialled, PrimedTo, KeyedOnce
  <2>2. \A j \in DOMAIN dialled : KeyOf(dialled[j]) # KeyOf(i)
    BY <1>2 DEF Hits, KeyOf
  <2> HIDE DEF after
  <2>3. /\ Len(after) \in DOMAIN after
        /\ \A j \in DOMAIN after : j \in DOMAIN dialled \/ j = Len(after)
        /\ \A j \in DOMAIN dialled : j \in DOMAIN after
    BY <2>1
  <2>4. KeyedOnce(after)
    BY <2>1, <2>2, <2>3 DEF PrimedTo, KeyedOnce
  <2>5. FirstOf(i)
    <3> SUFFICES ASSUME NEW k \in DOMAIN Sources, KeyOf(k) = KeyOf(i), ~(i <= k)
                 PROVE  FALSE
      BY DEF FirstOf
    <3>1. k \in 1..(i - 1)
      BY <1>1, SourcesSeq
    <3>2. Hits(k, dialled) # {}
      BY <3>1 DEF PrimedTo
    <3> QED  BY <2>2, <3>2 DEF Hits, KeyOf
  <2>6. \A j \in DOMAIN after : FirstOf(after[j])
    BY <2>1, <2>3, <2>5 DEF PrimedTo
  <2>7. ASSUME NEW k \in 1..i  PROVE Hits(k, after) # {}
    <3>1. CASE k = i
      BY <2>1, <2>3, <3>1 DEF Hits
    <3>2. CASE k # i
      <4>1. k \in 1..(i - 1)
        BY <1>1, <3>2
      <4>2. PICK j \in DOMAIN dialled : Key(Sources[dialled[j]]) = Key(Sources[k])
        BY <4>1 DEF PrimedTo, Hits
      <4> QED  BY <2>1, <2>3, <4>2 DEF Hits
    <3> QED  BY <3>1, <3>2
  <2> QED  BY <2>4, <2>6, <2>7 DEF PrimedTo, after
<1>3. CASE Hits(i, dialled) # {}
  <2>1. after = dialled
    BY <1>3 DEF Dialled
  <2>2. \A k \in 1..i : k \in 1..(i - 1) \/ k = i
    BY <1>1
  <2> QED  BY <1>3, <2>1, <2>2 DEF PrimedTo
<1> QED  BY <1>2, <1>3

(* A set of natural numbers has a least member.                            *)
LEMMA Least ==
  ASSUME NEW T \in SUBSET Nat, T # {}
  PROVE  \E k \in T : \A j \in T : ~(j < k)
<1>1. PICK k \in T : \A j \in T : ~(<<j, k>> \in OpToRel(<, Nat))
  BY NatLessThanWellFounded, WFMin
<1> QED  BY <1>1 DEF OpToRel

(* The loop of printTest: the cache after each source.                     *)
Loop(f, k) == f = [i \in 0..k |-> IF i = 0 THEN <<>> ELSE Dialled(i, f[i - 1])]

(* The recursive function in Primed exists: its values are found one after *)
(* the other. A least length for which there is none would have one.       *)
LEMMA LoopRuns ==
  ASSUME NEW n \in Nat
  PROVE  \E f : Loop(f, n)
<1> DEFINE T == {k \in Nat : ~\E f : Loop(f, k)}
<1> SUFFICES ASSUME T # {}  PROVE FALSE
  OBVIOUS
<1>1. PICK k \in T : \A j \in T : ~(j < k)
  BY Least
<1>2. k \in Nat /\ ~\E f : Loop(f, k)
  OBVIOUS
<1>3. CASE k = 0
  <2> DEFINE f == [i \in 0..0 |-> <<>>]
  <2>1. f = [i \in 0..0 |-> IF i = 0 THEN <<>> ELSE Dialled(i, f[i - 1])]
    OBVIOUS
  <2> HIDE DEF f
  <2> QED  BY <1>2, <1>3, <2>1 DEF Loop
<1>4. CASE k # 0
  <2>1. k - 1 \in Nat /\ k - 1 \notin T
    BY <1>1, <1>2, <1>4
  <2>2. PICK g : Loop(g, k - 1)
    BY <2>1
  <2> DEFINE f == [i \in 0..k |-> IF i = 0 THEN <<>> ELSE Dialled(i, g[i - 1])]
  <2>3. \A i \in 0..k : i # 0 => i - 1 \in 0..(k - 1) /\ i - 1 \in 0..k
    BY <1>2
  <2>4. \A j \in 0..(k - 1) : j \in 0..k /\ f[j] = g[j]
    <3>1. \A j \in 0..(k - 1) : g[j] = IF j = 0 THEN <<>> ELSE Dialled(j, g[j - 1])
      BY <2>2 DEF Loop
    <3> QED  BY <1>2, <3>1
  <2>5. \A i \in 0..k : i # 0 => f[i - 1] = g[i - 1]
    BY <2>3, <2>4
  <2>6. f = [i \in 0..k |-> IF i = 0 THEN <<>> ELSE Dialled(i, f[i - 1])]
    BY <2>5
  <2> HIDE DEF f
  <2> QED  BY <1>2, <2>6 DEF Loop
<1> QED  BY <1>3, <1>4

(* What printTest leaves in the cache.                                     *)
LEMMA PrimedAll == PrimedTo(Len(Sources), Primed)
<1> DEFINE n == Len(Sources)
           after == CHOOSE f : Loop(f, n)
<1>1. n \in Nat /\ DOMAIN Sources = 1..n
  BY SourcesSeq
<1>2. Primed = after[n]
  BY DEF Primed, Loop
<1> HIDE DEF n
<1>3. Loop(after, n)
  BY <1>1, LoopRuns
<1> HIDE DEF after
<1>4. \A i \in 0..n : after[i] = IF i = 0 THEN <<>> ELSE Dialled(i, after[i - 1])
  BY <1>3 DEF Loop
<1> DEFINE T == {i \in 0..n : ~PrimedTo(i, after[i])}
<1>5. T = {}
  <2> SUFFICES ASSUME T # {}  PROVE FALSE
    OBVIOUS
  <2>1. T \in SUBSET Nat
    BY <1>1
  <2>2. PICK k \in T : \A j \in T : ~(j < k)
    BY <2>1, Least
  <2>3. k \in 0..n /\ ~PrimedTo(k, after[k])
    OBVIOUS
  <2>4. CASE k = 0
    <3>1. PrimedTo(0, <<>>)
      BY DEF PrimedTo, KeyedOnce
    <3> QED  BY <1>4, <2>3, <2>4, <3>1
  <2>5. CASE k # 0
    <3>1. k - 1 \in 0..n /\ k - 1 < k /\ k \in DOMAIN Sources
      BY <1>1, <2>3, <2>5
    <3>2. PrimedTo(k - 1, after[k - 1])
      BY <2>2, <3>1
    <3>3. PrimedTo(k, Dialled(k, after[k - 1]))
      BY <3>1, <3>2, DialledNext
    <3> QED  BY <1>4, <2>3, <2>5, <3>3
  <2> QED  BY <2>4, <2>5
<1>6. n \in 0..n
  BY <1>1
<1> QED  BY <1>2, <1>5, <1>6 DEF n

(* So a queue that asks later changes nothing, and gets the connection of  *)
(* the first source with its key.                                          *)
LEMMA PrimedServes ==
  ASSUME NEW i \in DOMAIN Sources
  PROVE  /\ Dialled(i, Primed) = Primed
         /\ Owner(i, Primed) \in DOMAIN Sources
         /\ KeyOf(Owner(i, Primed)) = KeyOf(i)
         /\ FirstOf(Owner(i, Primed))
<1>1. Hits(i, Primed) # {}
  BY PrimedAll, SourcesSeq DEF PrimedTo
<1> DEFINE hit == CHOOSE j \in Hits(i, Primed) : TRUE
<1>2. hit \in Hits(i, Primed) /\ Owner(i, Primed) = Primed[hit]
  BY <1>1 DEF Owner
<1> HIDE DEF hit
<1>3. hit \in DOMAIN Primed /\ KeyOf(Primed[hit]) = KeyOf(i)
  BY <1>2 DEF Hits, KeyOf
<1>4. Primed \in Seq(DOMAIN Sources) /\ FirstOf(Primed[hit])
  BY <1>3, PrimedAll DEF PrimedTo, KeyedOnce
<1> QED  BY <1>1, <1>2, <1>3, <1>4 DEF Dialled

(* printTest is behind the process.                                        *)
IsPrimed(p) == stage[p] \in {"check", "stat", "create", "write", "blind", "run", "serve"}

ConnsFirst(used) ==
  \A i \in DOMAIN Sources :
    used[i] # 0 =>
      used[i] \in DOMAIN Sources /\ KeyOf(used[i]) = KeyOf(i) /\ FirstOf(used[i])

CacheInv ==
  \A p \in Pids :
    /\ cache[p] = IF IsPrimed(p) THEN Primed ELSE <<>>
    /\ ConnsFirst(conns[p])

PInv == TypeOK /\ CacheInv

(* A process that has just started uses no connection.                     *)
LEMMA UnusedFirst == ConnsFirst(Unused)
BY DEF ConnsFirst, Unused

(* At its start a process uses no connection, which is a legal value.      *)
LEMMA UnusedType == Unused \in [DOMAIN Sources -> {0} \cup DOMAIN Sources]
BY DEF Unused

(* The invariant holds at first.                                           *)
LEMMA PInvInit == Init => PInv
<1> SUFFICES ASSUME Init  PROVE PInv
  OBVIOUS
<1>1. \A p \in Pids : cache[p] = <<>> /\ conns[p] = Unused /\ ~IsPrimed(p)
  BY DEF Init, IsPrimed
<1>2. CacheInv
  BY <1>1, UnusedFirst DEF CacheInv
<1>3. conns \in [Pids -> [DOMAIN Sources -> {0} \cup DOMAIN Sources]]
  BY UnusedType DEF Init
<1>4. cache \in [Pids -> Seq(DOMAIN Sources)]
  BY DEF Init
<1>5. TypeOK
  BY <1>3, <1>4 DEF Init, TypeOK, Stages, CommandKinds
<1> QED  BY <1>2, <1>5 DEF PInv

(* A process that ends takes its connections with it.                      *)
LEMMA EndsKeeps ==
  ASSUME PInv, NEW p \in Pids, Ends(p), command' \in [Pids -> CommandKinds],
         UNCHANGED <<same, file, reachable, users, raced>>, kills' \in Nat
  PROVE  PInv'
<1>1. ASSUME NEW q \in Pids
      PROVE  /\ cache'[q] = IF IsPrimed(q)' THEN Primed ELSE <<>>
             /\ ConnsFirst(conns'[q])
  <2>1. CASE q = p
    <3>1. cache'[q] = <<>> /\ conns'[q] = Unused /\ ~IsPrimed(q)'
      BY <2>1 DEF Ends, At, PInv, TypeOK, IsPrimed
    <3> QED  BY <3>1, UnusedFirst
  <2>2. CASE q # p
    <3>1. cache'[q] = cache[q] /\ conns'[q] = conns[q] /\ IsPrimed(q)' = IsPrimed(q)
      BY <2>2 DEF Ends, At, PInv, TypeOK, IsPrimed
    <3> QED  BY <3>1 DEF PInv, CacheInv
  <2> QED  BY <2>1, <2>2
<1>2. CacheInv'
  BY <1>1 DEF CacheInv, ConnsFirst, FirstOf, KeyOf, Primed, Dialled, Hits
<1>3. conns' \in [Pids -> [DOMAIN Sources -> {0} \cup DOMAIN Sources]]
  BY UnusedType DEF Ends, PInv, TypeOK
<1>4. TypeOK'
  BY <1>3 DEF Ends, At, PInv, TypeOK, Stages
<1> QED  BY <1>2, <1>4 DEF PInv

(* So does a step that leaves the connections alone.                       *)
LEMMA SameConnections ==
  ASSUME PInv, UNCHANGED <<cache, conns>>, TypeOK',
         \A p \in Pids : IsPrimed(p)' = IsPrimed(p)
  PROVE  PInv'
<1>1. \A p \in Pids : /\ cache'[p] = IF IsPrimed(p)' THEN Primed ELSE <<>>
                      /\ ConnsFirst(conns'[p])
  BY DEF PInv, CacheInv
<1> QED  BY <1>1 DEF PInv, CacheInv, ConnsFirst

(* Every step keeps it.                                                    *)
LEMMA PInvStep == PInv /\ [Next]_vars => PInv'
<1> SUFFICES ASSUME PInv, [Next]_vars
             PROVE  PInv'
  OBVIOUS
<1> USE DEF At
<1>1. CASE UnitEnds
  <2>1. TypeOK' /\ UNCHANGED <<cache, conns>>
    BY <1>1 DEF UnitEnds, PInv, TypeOK, Stages
  <2>2. \A p \in Pids : IsPrimed(p)' = IsPrimed(p)
    BY <1>1 DEF UnitEnds, PInv, TypeOK, IsPrimed
  <2> QED  BY <2>1, <2>2, SameConnections
<1>2. CASE Outage
  <2>1. /\ TypeOK' /\ UNCHANGED <<cache, conns>>
        /\ \A p \in Pids : IsPrimed(p)' = IsPrimed(p)
    BY <1>2 DEF Outage, PInv, TypeOK, IsPrimed
  <2> QED  BY <2>1, SameConnections
<1>3. ASSUME NEW p \in Pids, UnitStarts(p)
      PROVE  PInv'
  <2>1. TypeOK' /\ UNCHANGED <<cache, conns>>
    BY <1>3 DEF UnitStarts, PInv, TypeOK, Stages, CommandKinds
  <2>2. \A q \in Pids : IsPrimed(q)' = IsPrimed(q)
    BY <1>3 DEF UnitStarts, PInv, TypeOK, IsPrimed
  <2> QED  BY <2>1, <2>2, SameConnections
<1>4. ASSUME NEW p \in Pids, NEW c \in Commands, UserStarts(p, c)
      PROVE  PInv'
  <2>1. TypeOK' /\ UNCHANGED <<cache, conns>>
    BY <1>4, ProcessAssumption DEF UserStarts, PInv, TypeOK, Stages
  <2>2. \A q \in Pids : IsPrimed(q)' = IsPrimed(q)
    BY <1>4 DEF UserStarts, PInv, TypeOK, IsPrimed
  <2> QED  BY <2>1, <2>2, SameConnections
<1>5. ASSUME NEW p \in Pids, Other(p)
      PROVE  PInv'
  <2>1. TypeOK' /\ UNCHANGED <<cache, conns>>
    BY <1>5 DEF Other, PInv, TypeOK, Stages
  <2>2. \A q \in Pids : IsPrimed(q)' = IsPrimed(q)
    BY <1>5 DEF Other, PInv, TypeOK, IsPrimed
  <2> QED  BY <2>1, <2>2, SameConnections
<1>6. ASSUME NEW p \in Pids, Dies(p)
      PROVE  PInv'
  BY <1>6, EndsKeeps DEF Dies, PInv, TypeOK
<1>7. ASSUME NEW p \in Pids, Tested(p)
      PROVE  PInv'
  <2>1. CASE Ends(p)
    BY <1>7, <2>1, EndsKeeps DEF Tested, PInv, TypeOK
  <2>2. CASE ~Ends(p)
    <3>1. /\ stage' = [stage EXCEPT ![p] = "check"]
          /\ cache' = [cache EXCEPT ![p] = Primed]
          /\ UNCHANGED <<command, unit, same, file, found, port, reachable, conns,
                         users, kills, raced>>
      BY <1>7, <2>2 DEF Tested
    <3>2. Primed \in Seq(DOMAIN Sources)
      BY PrimedAll DEF PrimedTo, KeyedOnce
    <3>3. TypeOK'
      BY <3>1, <3>2 DEF PInv, TypeOK, Stages
    <3>4. ASSUME NEW q \in Pids
          PROVE  /\ cache'[q] = IF IsPrimed(q)' THEN Primed ELSE <<>>
                 /\ ConnsFirst(conns'[q])
      <4>1. cache'[q] = IF q = p THEN Primed ELSE cache[q]
        BY <3>1 DEF PInv, TypeOK
      <4>2. IsPrimed(q)' = (q = p \/ IsPrimed(q))
        BY <3>1 DEF PInv, TypeOK, IsPrimed
      <4>3. conns'[q] = conns[q]
        BY <3>1
      <4> QED  BY <4>1, <4>2, <4>3 DEF PInv, CacheInv
    <3>5. CacheInv'
      BY <3>4 DEF CacheInv, ConnsFirst
    <3> QED  BY <3>3, <3>5 DEF PInv
  <2> QED  BY <2>1, <2>2
<1>8. ASSUME NEW p \in Pids, TestFails(p) \/ Refused(p)
      PROVE  PInv'
  BY <1>8, EndsKeeps DEF TestFails, Refused, PInv, TypeOK
<1>9. ASSUME NEW p \in Pids, ReadFile(p) \/ Passed(p) \/ Create(p) \/ Write(p)
      PROVE  PInv'
  <2>1. TypeOK' /\ UNCHANGED <<cache, conns>>
    BY <1>9 DEF ReadFile, Passed, Create, Write, PInv, TypeOK, Stages
  <2>2. \A q \in Pids : IsPrimed(q)' = IsPrimed(q)
    BY <1>9 DEF ReadFile, Passed, Create, Write, PInv, TypeOK, IsPrimed
  <2> QED  BY <2>1, <2>2, SameConnections
<1>10. ASSUME NEW p \in Pids, NEW i \in DOMAIN Sources, QueueStarts(p, i)
       PROVE  PInv'
  <2> DEFINE owner == Owner(i, Primed)
  <2>1. cache[p] = Primed
    BY <1>10 DEF QueueStarts, Dispatches, PInv, CacheInv, IsPrimed
  <2>2. cache' = cache
    BY <1>10, <2>1, PrimedServes DEF QueueStarts, PInv, TypeOK
  <2>3. conns' = [conns EXCEPT ![p][i] = owner]
    BY <1>10, <2>1, <2>2 DEF QueueStarts
  <2>4. owner \in DOMAIN Sources /\ KeyOf(owner) = KeyOf(i) /\ FirstOf(owner)
    BY PrimedServes
  <2> HIDE DEF owner
  <2>5. \A q \in Pids : conns'[q] = IF q = p THEN [conns[p] EXCEPT ![i] = owner]
                                             ELSE conns[q]
    BY <2>3 DEF PInv, TypeOK
  <2>6. ConnsFirst(conns'[p])
    <3>1. ConnsFirst(conns[p]) /\ conns[p] \in [DOMAIN Sources -> {0} \cup DOMAIN Sources]
      BY DEF PInv, CacheInv, TypeOK
    <3> QED  BY <2>4, <2>5, <3>1 DEF ConnsFirst
  <2>7. ASSUME NEW q \in Pids
        PROVE  /\ cache'[q] = IF IsPrimed(q)' THEN Primed ELSE <<>>
               /\ ConnsFirst(conns'[q])
    <3>1. IsPrimed(q)' = IsPrimed(q)
      BY <1>10 DEF QueueStarts, IsPrimed
    <3> QED  BY <2>2, <2>5, <2>6, <3>1 DEF PInv, CacheInv
  <2>8. CacheInv'
    BY <2>7 DEF CacheInv, ConnsFirst
  <2>9. conns' \in [Pids -> [DOMAIN Sources -> {0} \cup DOMAIN Sources]]
    BY <2>3, <2>4 DEF PInv, TypeOK
  <2>10. TypeOK'
    BY <1>10, <2>2, <2>9 DEF QueueStarts, PInv, TypeOK
  <2> QED  BY <2>8, <2>10 DEF PInv
<1>11. ASSUME NEW p \in Pids, NEW i \in DOMAIN Sources, QueueFails(p, i)
       PROVE  PInv'
  BY <1>11, EndsKeeps DEF QueueFails, PInv, TypeOK
<1>12. ASSUME NEW p \in Pids, Listen(p)
       PROVE  PInv'
  <2>1. CASE Ends(p)
    BY <1>12, <2>1, EndsKeeps DEF Listen, PInv, TypeOK
  <2>2. CASE ~Ends(p)
    <3>1. TypeOK' /\ UNCHANGED <<cache, conns>>
      BY <1>12, <2>2 DEF Listen, PInv, TypeOK, Stages
    <3>2. \A q \in Pids : IsPrimed(q)' = IsPrimed(q)
      BY <1>12, <2>2 DEF Listen, PInv, TypeOK, IsPrimed
    <3> QED  BY <3>1, <3>2, SameConnections
  <2> QED  BY <2>1, <2>2
<1>13. CASE UNCHANGED vars
  <2>1. /\ TypeOK' /\ UNCHANGED <<cache, conns>>
        /\ \A p \in Pids : IsPrimed(p)' = IsPrimed(p)
    BY <1>13 DEF vars, PInv, TypeOK, IsPrimed
  <2> QED  BY <2>1, SameConnections
<1> QED
  BY <1>1, <1>2, <1>3, <1>4, <1>5, <1>6, <1>7, <1>8, <1>9, <1>10, <1>11,
     <1>12, <1>13
     DEF Next, Starting

(* Every variable keeps its type; in particular the owner of a connection  *)
(* is always a source, whatever the order the queues ask in.               *)
THEOREM TypeOKHolds == Spec => []TypeOK
<1>1. PInv => TypeOK
  BY DEF PInv
<1> QED
  BY <1>1, PInvInit, PInvStep, PTL DEF Spec

(* Every key is dialled once per process, and a queue uses the connection  *)
(* of the first source with its key: whatever the sources are, how many    *)
(* of them share a key, and in whatever order the queues ask.              *)
THEOREM OnePerKeyHolds == Spec => []OnePerKey
<1>1. PInv => OnePerKey
  <2> SUFFICES ASSUME PInv, NEW p \in Pids
               PROVE  /\ \A j, k \in DOMAIN cache[p] :
                           Key(Sources[cache[p][j]]) = Key(Sources[cache[p][k]]) => j = k
                      /\ \A i \in DOMAIN Sources : conns[p][i] # 0 =>
                           /\ Key(Sources[conns[p][i]]) = Key(Sources[i])
                           /\ \A j \in DOMAIN Sources :
                                Key(Sources[j]) = Key(Sources[i]) => conns[p][i] <= j
    BY DEF OnePerKey
  <2>1. KeyedOnce(cache[p])
    <3>1. KeyedOnce(<<>>)
      BY DEF KeyedOnce
    <3> QED  BY <3>1, PrimedAll DEF PInv, CacheInv, PrimedTo
  <2>2. ASSUME NEW i \in DOMAIN Sources, conns[p][i] # 0
        PROVE  /\ Key(Sources[conns[p][i]]) = Key(Sources[i])
               /\ \A j \in DOMAIN Sources :
                    Key(Sources[j]) = Key(Sources[i]) => conns[p][i] <= j
    BY <2>2 DEF PInv, CacheInv, ConnsFirst, FirstOf, KeyOf
  <2> QED  BY <2>1, <2>2 DEF KeyedOnce, KeyOf
<1> QED
  BY <1>1, PInvInit, PInvStep, PTL DEF Spec
=============================================================================
