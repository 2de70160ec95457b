-------------------------- MODULE TimerQueueProofs --------------------------
(***************************************************************************)
(* What __timer_del and __timer_add do to timer_orders, for every number   *)
(* of timers.  The loops of the code are recursive functions; BubbledIs    *)
(* and MovedUpIs give each of them in closed form (a function that shifts  *)
(* a part of the array), by the least turn of the loop at which the two    *)
(* would differ.  DelRemoves and AddInserts follow from the closed forms.  *)
(***************************************************************************)
EXTENDS TimerQueue, TLAPS, WellFoundedInduction, FiniteSetTheorems

USE Zenon

Slots == 0 .. NR_TIMERS
Queues == [Slots -> Tids \cup {INVALID_TID}]

(* timer_orders as every caller finds it: the timers of the queue, none    *)
(* twice, and then only INVALID_TID.                                       *)
Packed(o) == /\ o \in Queues
             /\ o[NR_TIMERS] = INVALID_TID
             /\ \A j \in Slots, i \in Slots :
                    i < j /\ o[j] # INVALID_TID => o[i] \notin {o[j], INVALID_TID}

-----------------------------------------------------------------------------
(* Min is the least member of any set of numbers that has one.             *)
LEMMA MinIn ==
    ASSUME NEW S \in SUBSET Nat, S # {}
    PROVE  Min(S) \in S /\ \A n \in S : Min(S) =< n
<1>1. PICK m \in S : \A n \in S : ~ (<<n, m>> \in OpToRel(<, Nat))
  BY WFMin, NatLessThanWellFounded
<1>2. ASSUME NEW n \in S PROVE ~ (n < m)
  <2> SUFFICES ASSUME n < m PROVE FALSE
    OBVIOUS
  <2>1. <<n, m>> \in Nat \X Nat /\ <<n, m>>[1] < <<n, m>>[2]
    BY SMT
  <2>2. <<n, m>> \in OpToRel(<, Nat)
    BY <2>1 DEF OpToRel
  <2> QED BY <1>1, <2>2
<1>3. \A n \in S : m =< n
  BY <1>2, SMT
<1> QED BY <1>3 DEF Min

(* The array after the swaps of __timer_del for k, ..., n - 1: the timer   *)
(* of slot k is in slot n, and those between have moved down by one.       *)
Shifted(o, k, n) ==
    [i \in Slots |-> IF i < k THEN o[i]
                     ELSE IF i < n THEN o[i + 1]
                     ELSE IF i = n THEN o[k] ELSE o[i]]

LEMMA ExceptTwice ==
    ASSUME NEW S, NEW V, NEW f \in [S -> V], NEW a, NEW b, NEW x, NEW y
    PROVE  [f EXCEPT ![a] = x, ![b] = y] =
               [i \in S |-> IF i = b THEN y ELSE IF i = a THEN x ELSE f[i]]
OBVIOUS

LEMMA BubbleStep ==
    ASSUME NEW o \in Queues, NEW k \in Tids, o[k] # INVALID_TID,
           NEW n \in Slots, k < n
    PROVE  Bubble(Shifted(o, k, n - 1), n - 1) = Shifted(o, k, n)
<1> DEFINE s == Shifted(o, k, n - 1)
<1>1. n \in Int /\ k \in Int /\ n - 1 \in Slots /\ (n - 1) + 1 = n
  BY TimersAssumption, SMT DEF Slots, Tids
<1>2. s[n - 1] = o[k] /\ s[n] = o[n]
  BY <1>1, SMT DEF Shifted, Slots, Tids
<1>3. Bubble(s, n - 1) = [s EXCEPT ![n - 1] = o[n], ![n] = o[k]]
  BY <1>1, <1>2 DEF Bubble, Swap
<1>4. s \in Queues
  BY TimersAssumption, SMT DEF Shifted, Queues, Slots, Tids
<1>5. Bubble(s, n - 1) = [i \in Slots |-> IF i = n THEN o[k] ELSE IF i = n - 1 THEN o[n] ELSE s[i]]
  BY <1>3, <1>4, ExceptTwice DEF Queues
<1>6. ASSUME NEW i \in Slots
      PROVE  (IF i = n THEN o[k] ELSE IF i = n - 1 THEN o[n] ELSE s[i]) = Shifted(o, k, n)[i]
  BY <1>1, SMT DEF Shifted, Slots, Tids
<1>7. Shifted(o, k, n) = [i \in Slots |-> Shifted(o, k, n)[i]]
  BY DEF Shifted
<1> QED BY <1>5, <1>6, <1>7

(* What the second loop of __timer_del computes.                           *)
LEMMA BubbledIs ==
    ASSUME NEW o \in Queues, NEW k \in Tids, o[k] # INVALID_TID
    PROVE  \A n \in Slots : Bubbled(o, k)[n] = IF n <= k THEN o ELSE Shifted(o, k, n)
<1> DEFINE P(n) == IF n <= k THEN o ELSE Shifted(o, k, n)
           E(f) == [n \in Slots |-> IF n <= k THEN o ELSE Bubble(f[n - 1], n - 1)]
           g == [n \in Slots |-> P(n)]
           s == Bubbled(o, k)
<1>1. Shifted(o, k, k) = o
  <2>1. o = [i \in Slots |-> o[i]]
    BY DEF Queues
  <2>2. ASSUME NEW i \in Slots
        PROVE  (IF i < k THEN o[i] ELSE IF i < k THEN o[i + 1] ELSE IF i = k THEN o[k] ELSE o[i]) = o[i]
    OBVIOUS
  <2> QED BY <2>1, <2>2 DEF Shifted
<1>2. ASSUME NEW n \in Slots, ~ (n <= k)
      PROVE  n - 1 \in Slots /\ Bubble(P(n - 1), n - 1) = P(n)
  <2>1. k < n /\ n - 1 \in Slots /\ (n - 1 <= k => n - 1 = k)
    BY <1>2, TimersAssumption, SMT DEF Slots, Tids
  <2>2. P(n - 1) = Shifted(o, k, n - 1)
    BY <2>1, <1>1
  <2>3. Bubble(Shifted(o, k, n - 1), n - 1) = Shifted(o, k, n)
    BY <2>1, BubbleStep
  <2>4. P(n) = Shifted(o, k, n)
    BY <1>2
  <2> QED BY <2>1, <2>2, <2>3, <2>4
<1>3. g = E(g)
  <2>1. ASSUME NEW n \in Slots
        PROVE  P(n) = IF n <= k THEN o ELSE Bubble(g[n - 1], n - 1)
    <3>1. CASE n <= k
      BY <3>1
    <3>2. CASE ~ (n <= k)
      BY <3>2, <1>2
    <3> QED BY <3>1, <3>2
  <2> QED BY <2>1
<1>4. s = CHOOSE f : f = E(f)
  BY DEF Bubbled, Slots
<1>5. s = E(s)
  <2> HIDE DEF g, E
  <2>1. \E f : f = E(f)
    BY <1>3
  <2> QED BY <2>1, <1>4
<1> HIDE DEF s
<1> DEFINE Bad == {n \in Slots : s[n] # P(n)}
<1>6. Bad = {}
  <2> SUFFICES ASSUME Bad # {} PROVE FALSE
    OBVIOUS
  <2>1. Bad \in SUBSET Nat
    BY SMT DEF Slots
  <2>2. PICK n \in Bad : \A m \in Bad : n <= m
    BY <2>1, MinIn
  <2>3. CASE n <= k
    BY <1>5, <2>3
  <2>4. CASE ~ (n <= k)
    <3>1. n - 1 \in Slots /\ Bubble(P(n - 1), n - 1) = P(n)
      BY <1>2, <2>4
    <3>2. ~ (n <= n - 1)
      BY <2>1, SMT
    <3>3. s[n - 1] = P(n - 1)
      <4> HIDE DEF P
      <4>1. n - 1 \notin Bad
        BY <2>2, <3>2
      <4> QED BY <3>1, <4>1
    <3>4. s[n] = Bubble(s[n - 1], n - 1)
      BY <1>5, <2>4
    <3> QED BY <3>1, <3>3, <3>4
  <2> QED BY <2>3, <2>4
<1> QED BY <1>6 DEF s


(* The queue is the timers of the array.                                   *)
LEMMA QueuedIs ==
    ASSUME NEW o, Packed(o), NEW t
    PROVE  t \in Queued(o) <=> t \in Tids /\ \E i \in Slots : o[i] = t
<1>1. ASSUME NEW i \in Seen(o), t = o[i]
      PROVE  t \in Tids /\ \E n \in Slots : o[n] = t
  <2>1. i \in Slots /\ o[i] # INVALID_TID
    BY TimersAssumption, SMT DEF Seen, Tids, Slots
  <2> QED BY <1>1, <2>1 DEF Packed, Queues
<1>2. ASSUME NEW i \in Slots, t = o[i], t \in Tids
      PROVE  i \in Seen(o)
  <2>1. t # INVALID_TID
    BY <1>2, TimersAssumption, SMT DEF Tids, INVALID_TID
  <2>2. i # NR_TIMERS
    BY <1>2, <2>1 DEF Packed
  <2>3. i \in Tids
    BY <2>2, TimersAssumption, SMT DEF Tids, Slots
  <2>4. ASSUME NEW n \in 0 .. i PROVE o[n] # INVALID_TID
    <3>1. n \in Slots /\ (n = i \/ n < i)
      BY <2>3, TimersAssumption, SMT DEF Slots, Tids
    <3> QED BY <3>1, <1>2, <2>1 DEF Packed
  <2> QED BY <2>3, <2>4 DEF Seen
<1> QED BY <1>1, <1>2 DEF Queued

(* NR_TIMERS - 1 timers leave the last slot free.                          *)
LEMMA Room ==
    ASSUME NEW o, Packed(o), NEW tid \in Tids, \A i \in Slots : o[i] # tid
    PROVE  o[NR_TIMERS - 1] = INVALID_TID
<1> SUFFICES ASSUME o[NR_TIMERS - 1] # INVALID_TID PROVE FALSE
  OBVIOUS
<1> DEFINE f == [i \in Tids |-> o[i]]
<1>1. /\ NR_TIMERS - 1 \in Slots /\ Tids \subseteq Slots
      /\ \A i \in Tids : i = NR_TIMERS - 1 \/ i < NR_TIMERS - 1
      /\ \A i, j \in Tids : i = j \/ i < j \/ j < i
  BY TimersAssumption, SMT DEF Tids, Slots
<1>2. ASSUME NEW i \in Tids PROVE o[i] # INVALID_TID
  BY <1>1 DEF Packed
<1>3. ASSUME NEW i \in Tids PROVE o[i] \in Tids \ {tid}
  BY <1>1, <1>2 DEF Packed, Queues
<1>4. ASSUME NEW i \in Tids, NEW j \in Tids, o[i] = o[j] PROVE i = j
  BY <1>1, <1>2, <1>4 DEF Packed
<1>5. /\ IsFiniteSet(Tids) /\ IsFiniteSet(Tids \ {tid})
      /\ Cardinality(Tids \ {tid}) < Cardinality(Tids)
  <2>1. IsFiniteSet(Tids) /\ Cardinality(Tids) = NR_TIMERS
    <3>1. 0 \in Int /\ NR_TIMERS - 1 \in Int
      BY TimersAssumption, SMT
    <3>2. IsFiniteSet(Tids) /\ Cardinality(Tids) = IF 0 > NR_TIMERS - 1 THEN 0 ELSE NR_TIMERS - 1 - 0 + 1
      BY <3>1, FS_Interval DEF Tids
    <3> QED BY <3>2, TimersAssumption, SMT
  <2>2. IsFiniteSet(Tids \ {tid}) /\ Cardinality(Tids \ {tid}) = Cardinality(Tids) - 1
    BY <2>1, FS_RemoveElement
  <2>3. NR_TIMERS - 1 < NR_TIMERS
    BY TimersAssumption, SMT
  <2> QED BY <2>1, <2>2, <2>3
<1>6. f \in [Tids -> Tids \ {tid}]
  BY <1>3
<1>7. \E i, j \in Tids : i # j /\ f[i] = f[j]
  <2> HIDE DEF f
  <2>1. \A g \in [Tids -> Tids \ {tid}] : \E i, j \in Tids : i # j /\ g[i] = g[j]
    BY <1>5, FS_PigeonHole, SMT
  <2> QED BY <1>6, <2>1
<1> QED BY <1>4, <1>7, Zenon

(* The array without the timer in slot k.                                  *)
Removed(o, k) ==
    [i \in Slots |-> IF i < k THEN o[i] ELSE IF i < NR_TIMERS THEN o[i + 1] ELSE INVALID_TID]

(* What __timer_del does: nothing if the timer is not there, and else it   *)
(* takes it out.                                                           *)
LEMMA DelIs ==
    ASSUME NEW o, Packed(o), NEW tid \in Tids
    PROVE  /\ (\A i \in Slots : o[i] # tid) => timer_del(o, tid) = o
           /\ \A k \in Slots : o[k] = tid => timer_del(o, tid) = Removed(o, k)
<1> DEFINE stops == {i \in Tids : o[i] \in {tid, INVALID_TID}}
           first == Min(stops)
<1>1. stops \in SUBSET Nat /\ Tids \subseteq Slots /\ \A i \in Tids : i < NR_TIMERS
  BY TimersAssumption, SMT DEF Tids, Slots
<1>2. tid # INVALID_TID
  BY TimersAssumption, SMT DEF Tids, INVALID_TID
<1>3. ASSUME stops # {}
      PROVE  /\ first \in stops /\ \A i \in stops : first <= i
             /\ timer_del(o, tid) =
                  IF o[first] = INVALID_TID THEN o
                  ELSE [Bubbled(o, first)[NR_TIMERS - 1] EXCEPT ![NR_TIMERS - 1] = INVALID_TID]
  <2>1. first \in stops /\ \A i \in stops : first <= i
    BY <1>1, <1>3, MinIn
  <2>2. first < NR_TIMERS
    BY <1>1, <2>1
  <2> HIDE DEF first
  <2>3. timer_del(o, tid) =
            LET fst == IF stops = {} THEN NR_TIMERS ELSE first
                lst == IF fst < NR_TIMERS THEN NR_TIMERS - 1 ELSE NR_TIMERS
            IN IF fst < NR_TIMERS /\ o[fst] = INVALID_TID THEN o
               ELSE [Bubbled(o, fst)[NR_TIMERS - 1] EXCEPT ![lst] = INVALID_TID]
    BY DEF timer_del, first
  <2> HIDE DEF stops
  <2> QED BY <2>1, <2>2, <2>3, <1>3
<1>4. ASSUME \A i \in Slots : o[i] # tid
      PROVE  timer_del(o, tid) = o
  <2>1. o[NR_TIMERS - 1] = INVALID_TID /\ NR_TIMERS - 1 \in Tids
    BY <1>4, Room, TimersAssumption, SMT DEF Tids
  <2>2. stops # {}
    BY <2>1
  <2>3. o[first] = INVALID_TID
    BY <1>1, <1>3, <2>2, <1>4
  <2> QED BY <1>3, <2>2, <2>3
<1>5. ASSUME NEW k \in Slots, o[k] = tid
      PROVE  timer_del(o, tid) = Removed(o, k)
  <2>1. k # NR_TIMERS
    BY <1>2, <1>5 DEF Packed
  <2>2. k \in Tids
    BY <2>1, TimersAssumption, SMT DEF Tids, Slots
  <2>3. stops # {} /\ k \in stops
    BY <2>2, <1>5
  <2>4. first = k
    <3> SUFFICES ASSUME first # k PROVE FALSE
      OBVIOUS
    <3>1. first \in stops /\ first <= k
      BY <2>3, <1>3
    <3> HIDE DEF first
    <3>2. first \in Slots /\ first < k
      BY <3>1, <1>1, SMT DEF Slots, Tids
    <3>3. o[first] \notin {tid, INVALID_TID}
      BY <3>2, <1>2, <1>5 DEF Packed
    <3> QED BY <3>1, <3>3
  <2>5. timer_del(o, tid) = [Bubbled(o, k)[NR_TIMERS - 1] EXCEPT ![NR_TIMERS - 1] = INVALID_TID]
    BY <1>2, <1>3, <1>5, <2>3, <2>4
  <2>6. o \in Queues /\ NR_TIMERS - 1 \in Slots
    BY TimersAssumption, SMT DEF Packed, Slots
  <2>7. Bubbled(o, k)[NR_TIMERS - 1] = IF NR_TIMERS - 1 <= k THEN o ELSE Shifted(o, k, NR_TIMERS - 1)
    BY <1>2, <1>5, <2>2, <2>6, BubbledIs
  <2> DEFINE b == Bubbled(o, k)[NR_TIMERS - 1]
  <2>8. b \in Queues /\ \A i \in Slots : i # NR_TIMERS - 1 => b[i] = Removed(o, k)[i]
    <3>1. CASE NR_TIMERS - 1 <= k
      <4>1. b = o /\ k = NR_TIMERS - 1
        BY <3>1, <2>2, <2>7, TimersAssumption, SMT DEF Tids
      <4>2. ASSUME NEW i \in Slots, i # NR_TIMERS - 1 PROVE o[i] = Removed(o, k)[i]
        BY <4>1, <4>2, TimersAssumption, SMT DEF Removed, Slots, Packed
      <4> QED BY <4>1, <4>2, <2>6
    <3>2. CASE ~ (NR_TIMERS - 1 <= k)
      <4>1. b = Shifted(o, k, NR_TIMERS - 1)
        BY <3>2, <2>7
      <4> HIDE DEF b
      <4>2. Shifted(o, k, NR_TIMERS - 1) \in Queues
        BY <2>2, <2>6, TimersAssumption, SMT DEF Shifted, Queues, Slots, Tids
      <4>3. ASSUME NEW i \in Slots, i # NR_TIMERS - 1
            PROVE  Shifted(o, k, NR_TIMERS - 1)[i] = Removed(o, k)[i]
        BY <4>3, <3>2, <2>2, TimersAssumption, SMT DEF Shifted, Removed, Slots, Packed, Tids
      <4> QED BY <4>1, <4>2, <4>3
    <3> QED BY <3>1, <3>2
  <2>9. Removed(o, k)[NR_TIMERS - 1] = INVALID_TID
    BY <2>2, <1>5, <2>6, TimersAssumption, SMT DEF Removed, Slots, Packed, Tids
  <2> HIDE DEF b
  <2>10. Removed(o, k) = [i \in Slots |-> Removed(o, k)[i]]
    BY DEF Removed
  <2>11. [b EXCEPT ![NR_TIMERS - 1] = INVALID_TID] =
            [i \in Slots |-> IF i = NR_TIMERS - 1 THEN INVALID_TID ELSE b[i]]
    BY <2>8 DEF Queues
  <2> QED BY <2>5, <2>8, <2>9, <2>10, <2>11 DEF b
<1> QED BY <1>4, <1>5


(* The array after n turns of the loop of __timer_add that all found a     *)
(* later timer: the last n slots have moved up by one.                     *)
Lifted(o, n) ==
    [i \in Slots |-> IF i < NR_TIMERS - n THEN o[i]
                     ELSE IF i = NR_TIMERS - n THEN INVALID_TID ELSE o[i - 1]]

(* The array with tid put into slot k.                                     *)
Inserted(o, k, tid) ==
    [i \in Slots |-> IF i < k THEN o[i] ELSE IF i = k THEN tid ELSE o[i - 1]]

(* Slot k is where __timer_add finds the place of tid.                     *)
Place(o, k, tid, time) ==
    /\ k \in Tids
    /\ \A i \in Tids : k <= i => o[i] = INVALID_TID \/ time[o[i]] > time[tid]
    /\ k = 0 \/ (o[k - 1] # INVALID_TID /\ ~ (time[o[k - 1]] > time[tid]))

AddState(o, k, tid, n) ==
    IF n <= NR_TIMERS - k THEN [orders |-> Lifted(o, n), done |-> FALSE]
                          ELSE [orders |-> Inserted(o, k, tid), done |-> TRUE]

LEMMA LiftedType ==
    ASSUME NEW o \in Queues, NEW n \in Slots
    PROVE  Lifted(o, n) \in Queues
BY TimersAssumption, SMT DEF Lifted, Queues, Slots, Tids

LEMMA MovedStep ==
    ASSUME NEW o \in Queues, o[NR_TIMERS] = INVALID_TID, NEW tid \in Tids, NEW time,
           NEW k, Place(o, k, tid, time), NEW n \in Slots, n # 0
    PROVE  Moved(AddState(o, k, tid, n - 1), NR_TIMERS - n, tid, time) = AddState(o, k, tid, n)
<1> DEFINE slot == NR_TIMERS - n
           l == Lifted(o, n - 1)
<1>1. /\ n \in Int /\ k \in Int /\ NR_TIMERS \in Int
      /\ n - 1 \in Slots /\ slot \in Tids /\ slot \in Slots /\ slot + 1 \in Slots
      /\ slot < NR_TIMERS - (n - 1)
  BY TimersAssumption, SMT DEF Slots, Tids, Place
<1>2. l \in Queues
  BY <1>1, LiftedType
<1>3. l[slot] = o[slot]
  BY <1>1 DEF Lifted
<1>4. CASE n <= NR_TIMERS - k
  <2>1. n - 1 <= NR_TIMERS - k /\ k <= slot
    BY <1>1, <1>4, SMT
  <2>2. AddState(o, k, tid, n - 1) = [orders |-> l, done |-> FALSE]
    BY <2>1 DEF AddState
  <2>3. AddState(o, k, tid, n) = [orders |-> Lifted(o, n), done |-> FALSE]
    BY <1>4 DEF AddState
  <2>4. o[slot] = INVALID_TID \/ time[o[slot]] > time[tid]
    BY <1>1, <2>1 DEF Place
  <2>5. CASE o[slot] = INVALID_TID
    <3>1. ASSUME NEW i \in Slots PROVE l[i] = Lifted(o, n)[i]
      BY <1>1, <2>5, TimersAssumption, SMT DEF Lifted, Slots
    <3>2. l = Lifted(o, n)
      BY <3>1 DEF Lifted
    <3> HIDE DEF l
    <3>3. Moved([orders |-> l, done |-> FALSE], slot, tid, time) = [orders |-> l, done |-> FALSE]
      BY <1>3, <2>5 DEF Moved
    <3> QED BY <2>2, <2>3, <3>2, <3>3
  <2>6. CASE o[slot] # INVALID_TID
    <3> DEFINE e == [l EXCEPT ![slot + 1] = o[slot], ![slot] = INVALID_TID]
    <3>1. e = [i \in Slots |-> IF i = slot THEN INVALID_TID ELSE IF i = slot + 1 THEN o[slot] ELSE l[i]]
      BY <1>2, ExceptTwice DEF Queues
    <3>2. ASSUME NEW i \in Slots
          PROVE  (IF i = slot THEN INVALID_TID ELSE IF i = slot + 1 THEN o[slot] ELSE l[i]) = Lifted(o, n)[i]
      BY <1>1, TimersAssumption, SMT DEF Lifted, Slots
    <3>3. Lifted(o, n) = [i \in Slots |-> Lifted(o, n)[i]]
      BY DEF Lifted
    <3>4. e = Lifted(o, n)
      BY <3>1, <3>2, <3>3
    <3> HIDE DEF l
    <3>5. Moved([orders |-> l, done |-> FALSE], slot, tid, time) = [orders |-> e, done |-> FALSE]
      BY <1>3, <2>4, <2>6 DEF Moved
    <3> QED BY <2>2, <2>3, <3>4, <3>5
  <2> QED BY <2>5, <2>6
<1>5. CASE n = NR_TIMERS - k + 1
  <2>1. n - 1 <= NR_TIMERS - k /\ slot = k - 1 /\ slot + 1 = k /\ ~ (n <= NR_TIMERS - k) /\ k # 0
    BY <1>1, <1>5, TimersAssumption, SMT DEF Slots
  <2>2. AddState(o, k, tid, n - 1) = [orders |-> l, done |-> FALSE]
    BY <2>1 DEF AddState
  <2>3. AddState(o, k, tid, n) = [orders |-> Inserted(o, k, tid), done |-> TRUE]
    BY <2>1 DEF AddState
  <2>4. o[slot] # INVALID_TID /\ ~ (time[o[slot]] > time[tid])
    BY <2>1 DEF Place
  <2> DEFINE e == [l EXCEPT ![slot + 1] = tid]
  <2>5. e = [i \in Slots |-> IF i = slot + 1 THEN tid ELSE l[i]]
    BY <1>2 DEF Queues
  <2>6. ASSUME NEW i \in Slots
        PROVE  (IF i = slot + 1 THEN tid ELSE l[i]) = Inserted(o, k, tid)[i]
    BY <1>1, <2>1, TimersAssumption, SMT DEF Lifted, Inserted, Slots
  <2>7. Inserted(o, k, tid) = [i \in Slots |-> Inserted(o, k, tid)[i]]
    BY DEF Inserted
  <2>8. e = Inserted(o, k, tid)
    BY <2>5, <2>6, <2>7
  <2> HIDE DEF l
  <2>9. Moved([orders |-> l, done |-> FALSE], slot, tid, time) = [orders |-> e, done |-> TRUE]
    BY <1>3, <2>4 DEF Moved
  <2> QED BY <2>2, <2>3, <2>8, <2>9
<1>6. CASE ~ (n <= NR_TIMERS - k) /\ n # NR_TIMERS - k + 1
  <2>1. ~ (n - 1 <= NR_TIMERS - k)
    BY <1>1, <1>6, SMT
  <2> QED BY <1>6, <2>1 DEF AddState, Moved
<1> QED BY <1>4, <1>5, <1>6

(* What the loop of __timer_add computes.                                  *)
LEMMA MovedUpIs ==
    ASSUME NEW o \in Queues, o[NR_TIMERS] = INVALID_TID, NEW tid \in Tids, NEW time,
           NEW k, Place(o, k, tid, time)
    PROVE  \A n \in Slots : MovedUp(o, tid, time)[n] = AddState(o, k, tid, n)
<1> DEFINE P(n) == AddState(o, k, tid, n)
           E(f) == [n \in Slots |-> IF n = 0 THEN [orders |-> o, done |-> FALSE]
                                    ELSE Moved(f[n - 1], NR_TIMERS - n, tid, time)]
           g == [n \in Slots |-> P(n)]
           s == MovedUp(o, tid, time)
<1>1. P(0) = [orders |-> o, done |-> FALSE]
  <2>1. ASSUME NEW i \in Slots PROVE Lifted(o, 0)[i] = o[i]
    BY TimersAssumption, SMT DEF Lifted, Slots
  <2>2. Lifted(o, 0) = [i \in Slots |-> Lifted(o, 0)[i]] /\ o = [i \in Slots |-> o[i]]
    BY DEF Lifted, Queues
  <2>3. Lifted(o, 0) = o
    BY <2>1, <2>2
  <2>4. 0 <= NR_TIMERS - k
    BY TimersAssumption, SMT DEF Place, Tids
  <2> QED BY <2>3, <2>4 DEF AddState
<1>2. ASSUME NEW n \in Slots, n # 0
      PROVE  n - 1 \in Slots /\ Moved(P(n - 1), NR_TIMERS - n, tid, time) = P(n)
  <2>1. n - 1 \in Slots
    BY <1>2, TimersAssumption, SMT DEF Slots
  <2> HIDE DEF P
  <2>2. Moved(P(n - 1), NR_TIMERS - n, tid, time) = P(n)
    BY <1>2, MovedStep, SMT DEF P
  <2> QED BY <2>1, <2>2
<1> HIDE DEF P
<1>3. g = E(g)
  <2>1. ASSUME NEW n \in Slots
        PROVE  P(n) = IF n = 0 THEN [orders |-> o, done |-> FALSE]
                      ELSE Moved(g[n - 1], NR_TIMERS - n, tid, time)
    <3>1. CASE n = 0
      BY <3>1, <1>1
    <3>2. CASE n # 0
      BY <3>2, <1>2
    <3> QED BY <3>1, <3>2
  <2> QED BY <2>1
<1>4. s = CHOOSE f : f = E(f)
  BY DEF MovedUp, Slots
<1>5. s = E(s)
  <2> HIDE DEF g, E
  <2>1. \E f : f = E(f)
    BY <1>3
  <2> QED BY <2>1, <1>4
<1> HIDE DEF s
<1> DEFINE Bad == {n \in Slots : s[n] # P(n)}
<1>6. Bad = {}
  <2> SUFFICES ASSUME Bad # {} PROVE FALSE
    OBVIOUS
  <2>1. Bad \in SUBSET Nat
    BY SMT DEF Slots
  <2>2. PICK n \in Bad : \A m \in Bad : n <= m
    BY <2>1, MinIn
  <2>3. CASE n = 0
    BY <1>1, <1>5, <2>3
  <2>4. CASE n # 0
    <3>1. n - 1 \in Slots /\ Moved(P(n - 1), NR_TIMERS - n, tid, time) = P(n)
      BY <1>2, <2>4
    <3>2. ~ (n <= n - 1)
      BY <2>1, SMT
    <3>3. s[n - 1] = P(n - 1)
      <4>1. n - 1 \notin Bad
        BY <2>2, <3>2
      <4> QED BY <3>1, <4>1
    <3>4. s[n] = Moved(s[n - 1], NR_TIMERS - n, tid, time)
      BY <1>5, <2>4
    <3> QED BY <3>1, <3>3, <3>4
  <2> QED BY <2>3, <2>4
<1> QED BY <1>6 DEF s, P


LEMMA AddIs ==
    ASSUME NEW o, Packed(o), o[NR_TIMERS - 1] = INVALID_TID, NEW tid \in Tids, NEW time
    PROVE  \E k \in Tids : /\ Place(o, k, tid, time)
                           /\ timer_add(o, tid, time) = Inserted(o, k, tid)
<1> DEFINE Above(k) == \A i \in Tids : k <= i => o[i] = INVALID_TID \/ time[o[i]] > time[tid]
           places == {k \in Tids : Above(k)}
<1>1. places \in SUBSET Nat
  BY SMT DEF Tids
<1>2. NR_TIMERS - 1 \in places
  <2>1. NR_TIMERS - 1 \in Tids /\ \A i \in Tids : NR_TIMERS - 1 <= i => i = NR_TIMERS - 1
    BY TimersAssumption, SMT DEF Tids
  <2> QED BY <2>1
<1>3. PICK k \in places : \A n \in places : k <= n
  BY <1>1, <1>2, MinIn
<1>4. Place(o, k, tid, time)
  <2>1. CASE k = 0
    BY <2>1 DEF Place
  <2>2. CASE k # 0
    <3>1. k - 1 \in Tids /\ ~ (k <= k - 1) /\ \A i \in Tids : k - 1 <= i => i = k - 1 \/ k <= i
      BY <2>2, TimersAssumption, SMT DEF Tids
    <3>2. ~ Above(k - 1)
      BY <1>3, <3>1
    <3>3. o[k - 1] # INVALID_TID /\ ~ (time[o[k - 1]] > time[tid])
      BY <3>1, <3>2
    <3> QED BY <3>3 DEF Place
  <2> QED BY <2>1, <2>2
<1> HIDE DEF places, Above
<1>5. k \in Tids /\ NR_TIMERS \in Slots /\ o \in Queues /\ o[NR_TIMERS] = INVALID_TID
  BY <1>4, TimersAssumption, SMT DEF Place, Packed, Slots
<1> DEFINE end == MovedUp(o, tid, time)[NR_TIMERS]
<1>6. /\ end = AddState(o, k, tid, NR_TIMERS)
      /\ timer_add(o, tid, time) = IF end.done THEN end.orders ELSE [end.orders EXCEPT ![0] = tid]
  BY <1>4, <1>5, MovedUpIs, SMT DEF timer_add
<1> HIDE DEF end
<1>7. CASE k = 0
  <2>1. NR_TIMERS <= NR_TIMERS - k /\ NR_TIMERS - NR_TIMERS = 0
    BY <1>7, TimersAssumption, SMT
  <2>2. AddState(o, k, tid, NR_TIMERS) = [orders |-> Lifted(o, NR_TIMERS), done |-> FALSE]
    BY <2>1 DEF AddState
  <2>3. timer_add(o, tid, time) = [Lifted(o, NR_TIMERS) EXCEPT ![0] = tid]
    <3>1. end.done = FALSE /\ end.orders = Lifted(o, NR_TIMERS)
      BY <1>6, <2>2, SMT
    <3> QED BY <1>6, <3>1
  <2>4. Lifted(o, NR_TIMERS) \in Queues
    BY <1>5, LiftedType
  <2>5. [Lifted(o, NR_TIMERS) EXCEPT ![0] = tid] =
            [i \in Slots |-> IF i = 0 THEN tid ELSE Lifted(o, NR_TIMERS)[i]]
    BY <2>4 DEF Queues
  <2>6. ASSUME NEW i \in Slots
        PROVE  (IF i = 0 THEN tid ELSE Lifted(o, NR_TIMERS)[i]) = Inserted(o, k, tid)[i]
    BY <1>7, <2>1, TimersAssumption, SMT DEF Lifted, Inserted, Slots
  <2>7. Inserted(o, k, tid) = [i \in Slots |-> Inserted(o, k, tid)[i]]
    BY DEF Inserted
  <2> QED BY <1>4, <1>5, <2>3, <2>5, <2>6, <2>7
<1>8. CASE k # 0
  <2>1. ~ (NR_TIMERS <= NR_TIMERS - k)
    BY <1>5, <1>8, TimersAssumption, SMT DEF Tids
  <2>2. AddState(o, k, tid, NR_TIMERS) = [orders |-> Inserted(o, k, tid), done |-> TRUE]
    BY <2>1 DEF AddState
  <2>3. end.done = TRUE /\ end.orders = Inserted(o, k, tid)
    BY <1>6, <2>2, SMT
  <2> QED BY <1>4, <1>5, <1>6, <2>3
<1> QED BY <1>7, <1>8

-----------------------------------------------------------------------------
(* The timers of r are timers of o, in the order they have there.          *)
Within(r, o) == \A j \in Slots, i \in Slots :
    i < j /\ r[j] # INVALID_TID =>
        \E a, b \in Slots : a < b /\ o[a] = r[i] /\ o[b] = r[j]

(* __timer_del takes the timer out of the queue, wherever it is, keeps the *)
(* others in their order, and leaves room for one more.                    *)
THEOREM DelRemoves ==
    ASSUME NEW o, Packed(o), NEW tid \in Tids
    PROVE  LET r == timer_del(o, tid)
           IN /\ Packed(r) /\ r[NR_TIMERS - 1] = INVALID_TID
              /\ Queued(r) = Queued(o) \ {tid}
              /\ \A i \in Slots : r[i] # tid
              /\ Within(r, o)
<1> DEFINE r == timer_del(o, tid)
<1>1. CASE \A i \in Slots : o[i] # tid
  <2>1. r = o
    BY <1>1, DelIs
  <2>2. o[NR_TIMERS - 1] = INVALID_TID
    BY <1>1, Room
  <2>3. Queued(o) = Queued(o) \ {tid}
    BY <1>1, QueuedIs
  <2>4. Within(o, o)
    BY DEF Within
  <2> QED BY <1>1, <2>1, <2>2, <2>3, <2>4
<1>2. ASSUME NEW k \in Slots, o[k] = tid
      PROVE  /\ Packed(r) /\ r[NR_TIMERS - 1] = INVALID_TID
             /\ Queued(r) = Queued(o) \ {tid}
             /\ \A i \in Slots : r[i] # tid
             /\ Within(r, o)
  <2> DEFINE at(i) == IF i < k THEN i ELSE i + 1
  <2>1. r = Removed(o, k)
    BY <1>2, DelIs
  <2> HIDE DEF r
  <2>2. /\ tid # INVALID_TID /\ k # NR_TIMERS /\ NR_TIMERS \in Slots
        /\ NR_TIMERS - 1 \in Slots /\ ~ (NR_TIMERS - 1 < k) /\ NR_TIMERS - 1 < NR_TIMERS
        /\ (NR_TIMERS - 1) + 1 = NR_TIMERS /\ ~ (NR_TIMERS < k) /\ ~ (NR_TIMERS < NR_TIMERS)
    BY <1>2, TimersAssumption, SMT DEF Tids, INVALID_TID, Packed, Slots
  <2>3. r[NR_TIMERS - 1] = INVALID_TID /\ r[NR_TIMERS] = INVALID_TID
    BY <2>1, <2>2 DEF Removed, Packed
  <2>4. ASSUME NEW i \in Slots, i # NR_TIMERS
        PROVE  at(i) \in Slots /\ at(i) # k /\ i < NR_TIMERS /\ r[i] = o[at(i)]
    <3>1. at(i) \in Slots /\ at(i) # k /\ i < NR_TIMERS
      BY <2>4, TimersAssumption, SMT DEF Slots
    <3> QED BY <3>1, <2>1 DEF Removed
  <2>5. r \in Queues
    <3>1. \A i \in Slots : r[i] \in Tids \cup {INVALID_TID}
      BY <2>3, <2>4 DEF Packed, Queues
    <3>2. r = [i \in Slots |-> r[i]]
      BY <2>1 DEF Removed
    <3> HIDE DEF at
    <3> QED BY <3>1, <3>2 DEF Queues
  <2>6. ASSUME NEW i \in Slots, NEW j \in Slots, i < j, r[j] # INVALID_TID
        PROVE  /\ at(i) \in Slots /\ at(j) \in Slots /\ at(i) < at(j)
               /\ o[at(i)] = r[i] /\ o[at(j)] = r[j]
    <3>1. j # NR_TIMERS /\ i # NR_TIMERS
      BY <2>6, <2>3, TimersAssumption, SMT DEF Slots
    <3>2. at(i) < at(j)
      BY <2>6, TimersAssumption, SMT DEF Slots
    <3> HIDE DEF at
    <3> QED BY <3>1, <3>2, <2>4
  <2>7. ASSUME NEW i \in Slots PROVE r[i] # tid
    <3>1. CASE i = NR_TIMERS
      BY <2>2, <2>3, <3>1
    <3>2. CASE i # NR_TIMERS
      <4> HIDE DEF at
      <4>1. at(i) \in Slots /\ at(i) # k /\ r[i] = o[at(i)]
        BY <2>4, <3>2
      <4>2. at(i) < k \/ k < at(i)
        BY <4>1, TimersAssumption, SMT DEF Slots
      <4>3. o[at(i)] # tid
        BY <1>2, <2>2, <4>1, <4>2 DEF Packed
      <4> QED BY <4>1, <4>3
    <3> QED BY <3>1, <3>2
  <2>8. Within(r, o)
    <3> HIDE DEF at
    <3> QED BY <2>6 DEF Within
  <2>9. Packed(r)
    <3>1. ASSUME NEW j \in Slots, NEW i \in Slots, i < j, r[j] # INVALID_TID
          PROVE  r[i] \notin {r[j], INVALID_TID}
      <4> HIDE DEF at
      <4> QED BY <2>6, <3>1 DEF Packed
    <3> QED BY <2>3, <2>5, <3>1 DEF Packed
  <2>10. ASSUME NEW t PROVE t \in Queued(r) <=> t \in Queued(o) \ {tid}
    <3>1. ASSUME t \in Queued(r) PROVE t \in Queued(o) \ {tid}
      <4>1. PICK i \in Slots : r[i] = t /\ t \in Tids
        BY <2>9, <3>1, QueuedIs
      <4>2. i # NR_TIMERS
        BY <4>1, <2>3, TimersAssumption, SMT DEF Tids, INVALID_TID
      <4> HIDE DEF at
      <4> QED BY <4>1, <4>2, <2>4, <2>7, QueuedIs
    <3>2. ASSUME t \in Queued(o) \ {tid} PROVE t \in Queued(r)
      <4>1. PICK b \in Slots : o[b] = t /\ t \in Tids
        BY <3>2, QueuedIs
      <4>2. b # k
        BY <3>2, <4>1, <1>2
      <4>3. b # NR_TIMERS
        BY <4>1, TimersAssumption, SMT DEF Tids, INVALID_TID, Packed
      <4> DEFINE i == IF b < k THEN b ELSE b - 1
      <4>4. i \in Slots /\ i # NR_TIMERS /\ at(i) = b
        BY <4>2, <4>3, TimersAssumption, SMT DEF Slots
      <4> HIDE DEF at, i
      <4>5. r[i] = t
        BY <2>4, <4>1, <4>4
      <4> QED BY <2>9, <4>1, <4>4, <4>5, QueuedIs
    <3> QED BY <3>1, <3>2
  <2>11. Queued(r) = Queued(o) \ {tid}
    BY <2>10
  <2> QED BY <2>3, <2>7, <2>8, <2>9, <2>11
<1> QED BY <1>1, <1>2


Sorted(o, time) == \A j \in Slots, i \in Slots :
    i < j /\ o[i] # INVALID_TID /\ o[j] # INVALID_TID => time[o[i]] <= time[o[j]]

(* __timer_add puts the timer into a sorted queue so that it stays sorted, *)
(* and changes nothing else, if there is room.                             *)
THEOREM AddInserts ==
    ASSUME NEW o, Packed(o), o[NR_TIMERS - 1] = INVALID_TID,
           NEW tid \in Tids, \A i \in Slots : o[i] # tid,
           NEW time \in [Tids -> Int], Sorted(o, time)
    PROVE  LET r == timer_add(o, tid, time)
           IN Packed(r) /\ Queued(r) = Queued(o) \cup {tid} /\ Sorted(r, time)
<1> DEFINE r == timer_add(o, tid, time)
<1>1. PICK k \in Tids : Place(o, k, tid, time) /\ r = Inserted(o, k, tid)
  BY AddIs
<1> HIDE DEF r
<1> DEFINE at(i) == IF i < k THEN i ELSE i - 1
<1>2. /\ k \in Slots /\ NR_TIMERS \in Slots /\ NR_TIMERS # k /\ at(NR_TIMERS) = NR_TIMERS - 1
      /\ tid # INVALID_TID /\ \A i \in Slots : ~ (i < i)
  BY TimersAssumption, SMT DEF Tids, Slots, INVALID_TID
<1>3. r[k] = tid
  BY <1>1, <1>2 DEF Inserted
<1>4. ASSUME NEW i \in Slots, i # k
      PROVE  at(i) \in Slots /\ r[i] = o[at(i)]
  <2>1. at(i) \in Slots
    BY <1>4, TimersAssumption, SMT DEF Slots, Tids
  <2> QED BY <1>1, <1>4, <2>1 DEF Inserted
<1>5. ASSUME NEW i \in Slots, NEW j \in Slots, i < j, i # k, j # k PROVE at(i) < at(j)
  BY <1>5, TimersAssumption, SMT DEF Slots, Tids
<1>6. ASSUME NEW i \in Slots, i < k
      PROVE  o[i] # INVALID_TID /\ time[o[i]] <= time[tid]
  <2>1. k - 1 \in Slots /\ (i = k - 1 \/ i < k - 1) /\ k # 0
    BY <1>6, TimersAssumption, SMT DEF Slots, Tids
  <2>2. o[k - 1] # INVALID_TID /\ ~ (time[o[k - 1]] > time[tid])
    BY <1>1, <2>1 DEF Place
  <2>3. o[i] # INVALID_TID
    BY <2>1, <2>2 DEF Packed
  <2>4. time[o[i]] \in Int /\ time[o[k - 1]] \in Int /\ time[tid] \in Int
    BY <2>1, <2>2, <2>3 DEF Packed, Queues
  <2>5. i = k - 1 \/ time[o[i]] <= time[o[k - 1]]
    BY <2>1, <2>2, <2>3 DEF Sorted
  <2>6. CASE i = k - 1
    BY <2>2, <2>4, <2>6, SMT
  <2>7. CASE time[o[i]] <= time[o[k - 1]]
    BY <2>2, <2>3, <2>4, <2>7, SMT
  <2> QED BY <2>3, <2>5, <2>6, <2>7
<1>7. ASSUME NEW j \in Slots, k < j, r[j] # INVALID_TID
      PROVE  time[tid] <= time[r[j]]
  <2>1. j - 1 \in Tids /\ j - 1 \in Slots /\ k <= j - 1 /\ j # k /\ at(j) = j - 1
    BY <1>7, TimersAssumption, SMT DEF Slots, Tids
  <2>2. r[j] = o[j - 1]
    BY <1>4, <2>1
  <2>3. time[r[j]] > time[tid]
    BY <1>1, <1>7, <2>1, <2>2 DEF Place
  <2>4. time[r[j]] \in Int /\ time[tid] \in Int
    BY <1>7, <2>1, <2>2 DEF Packed, Queues
  <2> QED BY <2>3, <2>4, SMT
<1>8. ASSUME NEW i \in Slots, i # k PROVE r[i] \in Tids \cup {INVALID_TID} /\ r[i] # tid
  <2> HIDE DEF at
  <2> QED BY <1>4, <1>8 DEF Packed, Queues
<1>9. r \in Queues
  <2>1. \A i \in Slots : r[i] \in Tids \cup {INVALID_TID}
    BY <1>3, <1>8
  <2>2. r = [i \in Slots |-> r[i]]
    BY <1>1 DEF Inserted
  <2> QED BY <2>1, <2>2 DEF Queues
<1>10. ASSUME NEW i \in Slots, NEW j \in Slots, i < j, r[j] # INVALID_TID
       PROVE  r[i] # r[j] /\ r[i] # INVALID_TID /\ time[r[i]] <= time[r[j]]
  <2>1. CASE i = k
    <3>1. j # k
      BY <1>10, <1>2, <2>1
    <3> QED BY <1>2, <1>3, <1>7, <1>8, <1>10, <2>1, <3>1
  <2>2. CASE j = k
    <3>1. i # k
      BY <1>10, <1>2, <2>2
    <3>2. r[i] = o[i]
      BY <1>4, <1>10, <2>2, <3>1
    <3> HIDE DEF at
    <3> QED BY <1>3, <1>6, <1>8, <1>10, <2>2, <3>1, <3>2
  <2>3. CASE i # k /\ j # k
    <3>1. at(i) < at(j) /\ at(i) \in Slots /\ at(j) \in Slots /\ r[i] = o[at(i)] /\ r[j] = o[at(j)]
      BY <1>4, <1>5, <1>10, <2>3
    <3> HIDE DEF at
    <3>2. o[at(i)] \notin {o[at(j)], INVALID_TID}
      BY <1>10, <3>1 DEF Packed
    <3>3. time[o[at(i)]] <= time[o[at(j)]]
      BY <1>10, <3>1, <3>2 DEF Sorted
    <3> QED BY <3>1, <3>2, <3>3
  <2> QED BY <2>1, <2>2, <2>3
<1>11. r[NR_TIMERS] = INVALID_TID
  BY <1>2, <1>4
<1>12. Packed(r) /\ Sorted(r, time)
  BY <1>9, <1>10, <1>11 DEF Packed, Sorted
<1>13. ASSUME NEW t PROVE t \in Queued(r) <=> t \in Queued(o) \cup {tid}
  <2>1. ASSUME t \in Queued(r) PROVE t \in Queued(o) \cup {tid}
    <3>1. PICK i \in Slots : r[i] = t /\ t \in Tids
      BY <1>12, <2>1, QueuedIs
    <3> HIDE DEF at
    <3> QED BY <1>3, <1>4, <3>1, QueuedIs
  <2>2. ASSUME t \in Queued(o) PROVE t \in Queued(r)
    <3>1. PICK a \in Slots : o[a] = t /\ t \in Tids
      BY <2>2, QueuedIs
    <3>2. t # INVALID_TID
      BY <3>1, TimersAssumption, SMT DEF Tids, INVALID_TID
    <3> DEFINE i == IF a < k THEN a ELSE a + 1
    <3>3. a # NR_TIMERS
      BY <3>1, <3>2 DEF Packed
    <3>4. i \in Slots /\ i # k /\ at(i) = a
      BY <3>3, TimersAssumption, SMT DEF Slots, Tids
    <3> HIDE DEF at, i
    <3> QED BY <1>4, <1>12, <3>1, <3>4, QueuedIs
  <2>3. tid \in Queued(r)
    <3>1. k \in Slots
      BY <1>2
    <3>2. \E i \in Slots : r[i] = tid
      BY <1>3, <3>1
    <3> QED BY <1>12, <3>2, QueuedIs
  <2> QED BY <2>1, <2>2, <2>3
<1>14. Queued(r) = Queued(o) \cup {tid}
  BY <1>13
<1> QED BY <1>12, <1>14 DEF r

=============================================================================
