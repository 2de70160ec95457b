-------------------------- MODULE TicketLockProofs --------------------------
(* The ticket lock excludes two owners, for every set of CPUs smaller than  *)
(* the ticket space and however spin_lock and spin_trylock are mixed.       *)
(*                                                                          *)
(* A queued CPU is described by its distance from the ticket that is being  *)
(* served.  A failed trylock leaves a hole, a distance nobody has, and the  *)
(* next callers may then be given the same ticket.  But two CPUs at the     *)
(* same distance always have a hole before them: next stays as far from     *)
(* owner as there are CPUs queued, so a ticket is given out twice only when *)
(* not every distance below it is taken.                                    *)
EXTENDS TicketLock, FiniteSetTheorems, FunctionTheorems, TLAPS

Off(o, t) == IF t >= o THEN t - o ELSE t + W - o
Taken(j) == \E c \in Queued : Off(owner, ticket[c]) = j

IInv ==
  /\ TypeOK
  /\ next = Slot(Cardinality(Queued))
  /\ \A c \in CPUs : pc[c] = "in" => ticket[c] = owner
  /\ \A c, d \in Queued :
       ticket[c] = ticket[d] /\ c # d => \E j \in 0 .. Off(owner, ticket[c]) - 1 : ~Taken(j)
  /\ ~undone => \A j \in 0 .. Cardinality(Queued) - 1 : Taken(j)

\* A map from n CPUs that reaches all of 0 .. n - 1 reaches nothing else.
LEMMA Pigeons ==
  ASSUME NEW F, IsFiniteSet(F), NEW n \in Nat, n = Cardinality(F), NEW f,
         \A j \in 0 .. n - 1 : \E c \in F : f[c] = j
  PROVE  \A c \in F : f[c] \in 0 .. n - 1
<1> DEFINE S == {c \in F : f[c] \in 0 .. n - 1}
           g == [c \in S |-> f[c]]
<1>1. g \in Surjection(S, 0 .. n - 1)
  BY DEF Surjection
<1>2. IsFiniteSet(S) /\ Cardinality(S) <= n /\ (n = Cardinality(S) => F = S)
  BY FS_Subset, S \in SUBSET F
<1>3. Cardinality(0 .. n - 1) <= Cardinality(S)
  BY <1>1, <1>2, FS_Surjection
<1>4. Cardinality(0 .. n - 1) = n
  BY FS_Interval
<1>5. Cardinality(S) \in Nat
  BY <1>2, FS_CardinalityType
<1>6. n = Cardinality(S)
  BY <1>2, <1>3, <1>4, <1>5
<1> QED
  BY <1>2, <1>6

\* There are fewer queued CPUs than ticket values, and one fewer still while
\* some CPU is not queued: the counters never lap each other.
LEMMA QueueIsSmall ==
  /\ IsFiniteSet(Queued)
  /\ Cardinality(Queued) \in Nat
  /\ Cardinality(Queued) < W
  /\ \A c \in CPUs \ Queued : Cardinality(Queued) + 1 < W
<1>1. IsFiniteSet(Queued) /\ Cardinality(Queued) <= Cardinality(CPUs)
  <2>1. Queued \subseteq CPUs
    BY DEF Queued
  <2> QED
    BY <2>1, CPUsFinite, FS_Subset
<1>2. Cardinality(Queued) \in Nat /\ Cardinality(CPUs) \in Nat
  BY <1>1, CPUsFinite, FS_CardinalityType
<1>3. ASSUME NEW c \in CPUs \ Queued
      PROVE  Cardinality(Queued) + 1 < W
  <2>1. Queued \cup {c} \subseteq CPUs
    BY DEF Queued
  <2>2. Cardinality(Queued \cup {c}) = Cardinality(Queued) + 1
    BY <1>1, FS_AddElement
  <2> QED
    BY <2>1, <2>2, <1>2, CPUsFinite, FS_Subset, WAssumption
<1> QED
  BY <1>1, <1>2, <1>3, WAssumption

\* While no distance below the length of the queue is a hole, the distances
\* of the queued CPUs are those below it, each of them once.
LEMMA NoHoles ==
  ASSUME IInv, NEW n \in Nat, n = Cardinality(Queued),
         \A j \in 0 .. n - 1 : Taken(j)
  PROVE  /\ \A c \in Queued : Off(owner, ticket[c]) \in 0 .. n - 1
         /\ \A c, d \in Queued : ticket[c] = ticket[d] => c = d
<1> DEFINE f == [c \in Queued |-> Off(owner, ticket[c])]
<1>1. \A c \in Queued : f[c] = Off(owner, ticket[c])
  OBVIOUS
<1> HIDE DEF f
<1>2. \A j \in 0 .. n - 1 : \E c \in Queued : f[c] = j
  BY <1>1 DEF Taken
<1>3. \A c \in Queued : Off(owner, ticket[c]) \in 0 .. n - 1
  <2>1. \A c \in Queued : f[c] \in 0 .. n - 1
    BY <1>2, Pigeons, QueueIsSmall, Zenon
  <2> QED
    BY <1>1, <2>1
<1>4. ASSUME NEW c \in Queued, NEW d \in Queued, ticket[c] = ticket[d], c # d
      PROVE  FALSE
  <2>1. PICK j \in 0 .. Off(owner, ticket[c]) - 1 : ~Taken(j)
    BY <1>4 DEF IInv
  <2>2. j \in 0 .. n - 1
    BY <1>3
  <2> QED
    BY <2>1, <2>2
<1> QED
  BY <1>3, <1>4

\* A ticket is determined by its distance.
LEMMA Distances ==
  ASSUME TypeOK
  PROVE  /\ \A t \in 0 .. W - 1 : Off(owner, t) \in 0 .. W - 1 /\ Slot(Off(owner, t)) = t
         /\ \A k \in 0 .. W - 1 : Slot(k) \in 0 .. W - 1 /\ Off(owner, Slot(k)) = k
         /\ \A t \in 0 .. W - 1 : Off(owner, t) = 0 <=> t = owner
BY WAssumption DEF TypeOK, Off, Slot

-----------------------------------------------------------------------------
\* The ticket at the tail is as far from owner as there are CPUs queued.
LEMMA TakePreserves ==
  ASSUME IInv, NEW c \in CPUs, NEW label \in {"spin", "try"}, TakeTicket(c, label)
  PROVE  IInv'
<1> USE DEF TakeTicket
<1>0. PICK n \in Nat : n = Cardinality(Queued)
  BY QueueIsSmall
<1>1. /\ next \in 0 .. W - 1 /\ owner \in 0 .. W - 1
      /\ ticket \in [CPUs -> 0 .. W - 1]
      /\ pc \in [CPUs -> {"out", "spin", "try", "undo", "in"}]
      /\ TypeOK
  BY DEF IInv, TypeOK
<1>2. c \notin Queued /\ Queued' = Queued \cup {c} /\ Queued \subseteq CPUs
  BY <1>1 DEF Queued
<1>3. n + 1 < W /\ IsFiniteSet(Queued)
  BY <1>0, <1>2, QueueIsSmall
<1>4. Cardinality(Queued') = n + 1
  BY <1>0, <1>2, <1>3, FS_AddElement
<1>5. next = Slot(n)
  BY <1>0 DEF IInv
<1>6. TypeOK'
  BY <1>1, WAssumption DEF TypeOK, Inc
<1>7. next' = Slot(n + 1)'
  BY <1>1, <1>3, <1>5, WAssumption DEF Slot, Inc
<1>8. Off(owner, next) = n
  <2>1. n \in 0 .. W - 1
    BY <1>3, WAssumption
  <2> QED
    BY <1>1, <1>5, <2>1, Distances
<1>9. owner' = owner
  OBVIOUS
<1>10. /\ ticket'[c] = next
       /\ \A d \in Queued : d # c /\ ticket'[d] = ticket[d]
  BY <1>1, <1>2
<1>11. \A j : Taken(j)' <=> Taken(j) \/ j = n
  BY <1>2, <1>8, <1>9, <1>10 DEF Taken
<1>12. ASSUME NEW d \in Queued, ticket[d] = next
       PROVE  \E j \in 0 .. n - 1 : ~Taken(j)
  <2>1. ~(Off(owner, ticket[d]) \in 0 .. n - 1)
    BY <1>8, <1>12
  <2> QED
    BY <1>0, <2>1, NoHoles
<1>13. ASSUME NEW d \in Queued', NEW e \in Queued', ticket'[d] = ticket'[e], d # e
       PROVE  \E j \in 0 .. Off(owner', ticket'[d]) - 1 : ~Taken(j)'
  <2>1. CASE d = c \/ e = c
    <3>1. ticket'[d] = next /\ Off(owner', ticket'[d]) = n
      BY <1>8, <1>9, <1>10, <1>13, <2>1
    <3>2. \E b \in Queued : ticket[b] = next
      BY <1>2, <1>10, <1>13, <2>1, <3>1
    <3>3. PICK j \in 0 .. n - 1 : ~Taken(j)
      BY <1>12, <3>2
    <3> QED
      BY <1>11, <3>1, <3>3
  <2>2. CASE d # c /\ e # c
    <3>1. /\ d \in Queued /\ e \in Queued
          /\ ticket'[d] = ticket[d] /\ ticket'[e] = ticket[e]
      BY <1>2, <1>10, <2>2
    <3>2. PICK j \in 0 .. Off(owner, ticket[d]) - 1 : ~Taken(j)
      BY <1>13, <3>1 DEF IInv
    <3>3. CASE j # n
      BY <1>9, <1>11, <3>1, <3>2, <3>3
    <3>4. CASE j = n
      <4>1. ~(Off(owner, ticket[d]) \in 0 .. n - 1)
        BY <3>2, <3>4
      <4>2. PICK i \in 0 .. n - 1 : ~Taken(i)
        BY <1>0, <3>1, <4>1, NoHoles
      <4>3. i # n /\ i \in 0 .. Off(owner, ticket[d]) - 1
        <5>1. Off(owner, ticket[d]) \in 0 .. W - 1
          BY <1>1, <1>2, <3>1, Distances
        <5> QED
          BY <3>2, <3>4, <4>2, <5>1
      <4> QED
        BY <1>9, <1>11, <3>1, <4>2, <4>3
    <3> QED
      BY <3>3, <3>4
  <2> QED
    BY <2>1, <2>2
<1>14. ASSUME ~undone'
       PROVE  \A j \in 0 .. (n + 1) - 1 : Taken(j)'
  <2>1. \A j \in 0 .. n - 1 : Taken(j)
    BY <1>0, <1>14 DEF IInv
  <2>2. \A j \in 0 .. (n + 1) - 1 : j = n \/ j \in 0 .. n - 1
    OBVIOUS
  <2> QED
    BY <1>11, <2>1, <2>2
<1>15. \A d \in CPUs : pc'[d] = "in" => ticket'[d] = owner'
  BY <1>1 DEF IInv
<1> QED
  BY <1>4, <1>6, <1>7, <1>13, <1>14, <1>15 DEF IInv

\* A read of owner lets in only who has that ticket.
LEMMA ReadPreserves ==
  ASSUME IInv, NEW c \in CPUs, LockAcquire(c) \/ TryRead(c)
  PROVE  IInv'
<1>1. TypeOK' /\ Queued' = Queued /\ owner' = owner /\ \A k : Slot(k)' = Slot(k)
  BY DEF IInv, TypeOK, LockAcquire, TryRead, Queued, Slot
<1>2. ticket' = ticket /\ next' = next /\ undone' = undone
  BY DEF LockAcquire, TryRead
<1>3. \A j : Taken(j)' = Taken(j)
  BY <1>1, <1>2 DEF Taken
<1>4. \A d \in CPUs : pc'[d] = "in" => ticket'[d] = owner'
  BY DEF IInv, TypeOK, LockAcquire, TryRead
<1> QED
  BY <1>1, <1>2, <1>3, <1>4 DEF IInv

\* The owner leaves from the front: everybody else moves up by one.
LEMMA UnlockPreserves ==
  ASSUME IInv, NEW c \in CPUs, Unlock(c)
  PROVE  IInv'
<1>0. PICK n \in Nat : n = Cardinality(Queued)
  BY QueueIsSmall
<1>1. /\ next \in 0 .. W - 1 /\ owner \in 0 .. W - 1
      /\ ticket \in [CPUs -> 0 .. W - 1]
      /\ pc \in [CPUs -> {"out", "spin", "try", "undo", "in"}]
      /\ TypeOK
  BY DEF IInv, TypeOK
<1>2. /\ c \in Queued /\ Queued' = Queued \ {c} /\ ticket[c] = owner
      /\ ticket' = ticket /\ next' = next /\ owner' = Inc(owner) /\ undone' = undone
      /\ Queued \subseteq CPUs
  BY <1>1 DEF Queued, Unlock, IInv
<1>3. n < W /\ IsFiniteSet(Queued)
  BY <1>0, QueueIsSmall
<1>4. Cardinality(Queued') = n - 1
  BY <1>0, <1>2, <1>3, FS_RemoveElement
<1>5. n - 1 \in Nat
  <2>1. IsFiniteSet(Queued')
    BY <1>2, <1>3, FS_RemoveElement
  <2> QED
    BY <1>4, <2>1, FS_CardinalityType
<1>6. next' = Slot(n - 1)'
  <2>1. next = Slot(n)
    BY <1>0 DEF IInv
  <2> QED
    BY <1>1, <1>2, <1>3, <1>5, <2>1, WAssumption DEF Slot, Inc
<1>7. TypeOK'
  BY <1>1, WAssumption DEF TypeOK, Inc, Unlock
<1>8. \A d \in Queued : ticket[d] = owner => d = c
  <2> SUFFICES ASSUME NEW d \in Queued, ticket[d] = owner, d # c
               PROVE  FALSE
    OBVIOUS
  <2>1. \E j \in 0 .. Off(owner, owner) - 1 : ~Taken(j)
    BY <1>2 DEF IInv
  <2>2. Off(owner, owner) = 0
    BY <1>1, Distances
  <2> QED
    BY <2>1, <2>2
<1>9. \A d \in Queued' : Off(owner', ticket'[d]) = Off(owner, ticket[d]) - 1 /\ Off(owner, ticket[d]) >= 1
  <2> SUFFICES ASSUME NEW d \in Queued'
               PROVE  Off(owner', ticket'[d]) = Off(owner, ticket[d]) - 1 /\ Off(owner, ticket[d]) >= 1
    OBVIOUS
  <2>1. ticket[d] \in 0 .. W - 1 /\ ticket[d] # owner /\ ticket'[d] = ticket[d]
    BY <1>1, <1>2, <1>8
  <2> QED
    BY <1>1, <1>2, <2>1, WAssumption DEF Off, Inc
<1>10. \A j \in Nat : Taken(j)' <=> Taken(j + 1)
  <2> SUFFICES ASSUME NEW j \in Nat PROVE Taken(j)' <=> Taken(j + 1)
    OBVIOUS
  <2>1. Off(owner, ticket[c]) = 0 /\ \A d \in Queued : Off(owner, ticket[d]) \in 0 .. W - 1
    BY <1>1, <1>2, Distances
  <2>2. \A d \in Queued' : Off(owner', ticket'[d]) = j <=> Off(owner, ticket[d]) = j + 1
    BY <1>2, <1>9, <2>1
  <2>3. Off(owner, ticket[c]) # j + 1
    BY <2>1
  <2> QED
    BY <1>2, <2>2, <2>3 DEF Taken
<1>11. ASSUME NEW d \in Queued', NEW e \in Queued', ticket'[d] = ticket'[e], d # e
       PROVE  \E j \in 0 .. Off(owner', ticket'[d]) - 1 : ~Taken(j)'
  <2>1. PICK j \in 0 .. Off(owner, ticket[d]) - 1 : ~Taken(j)
    BY <1>2, <1>11 DEF IInv
  <2>2. Taken(0)
    BY <1>1, <1>2, Distances DEF Taken
  <2>3. j # 0 /\ Off(owner, ticket[d]) \in 0 .. W - 1
    BY <1>1, <1>2, <2>1, <2>2, Distances
  <2>4. j - 1 \in Nat /\ j - 1 \in 0 .. Off(owner', ticket'[d]) - 1 /\ (j - 1) + 1 = j
    BY <1>9, <2>1, <2>3
  <2> QED
    BY <1>10, <2>1, <2>4
<1>12. ASSUME ~undone'
       PROVE  \A j \in 0 .. (n - 1) - 1 : Taken(j)'
  <2>1. \A j \in 0 .. n - 1 : Taken(j)
    BY <1>0, <1>2, <1>12 DEF IInv
  <2>2. \A j \in 0 .. (n - 1) - 1 : j \in Nat /\ j + 1 \in 0 .. n - 1
    BY <1>5
  <2> QED
    BY <1>10, <2>1, <2>2
<1>13. \A d \in CPUs : pc'[d] # "in"
  BY <1>1, <1>2, <1>8 DEF IInv, Unlock, Queued
<1> QED
  BY <1>4, <1>6, <1>7, <1>11, <1>12, <1>13 DEF IInv

\* Whoever gives up leaves a hole; next moves back by one, and so does the
\* length of the queue.
LEMMA UndoPreserves ==
  ASSUME IInv, NEW c \in CPUs, TryUndo(c)
  PROVE  IInv'
<1>0. PICK n \in Nat : n = Cardinality(Queued)
  BY QueueIsSmall
<1>1. /\ next \in 0 .. W - 1 /\ owner \in 0 .. W - 1
      /\ ticket \in [CPUs -> 0 .. W - 1]
      /\ pc \in [CPUs -> {"out", "spin", "try", "undo", "in"}]
  BY DEF IInv, TypeOK
<1>2. /\ c \in Queued /\ Queued' = Queued \ {c}
      /\ ticket' = ticket /\ next' = Dec(next) /\ owner' = owner /\ undone' = TRUE
  BY <1>1 DEF Queued, TryUndo
<1>3. n < W /\ IsFiniteSet(Queued)
  BY <1>0, QueueIsSmall
<1>4. Cardinality(Queued') = n - 1
  BY <1>0, <1>2, <1>3, FS_RemoveElement
<1>5. n - 1 \in Nat
  <2>1. IsFiniteSet(Queued')
    BY <1>2, <1>3, FS_RemoveElement
  <2> QED
    BY <1>4, <2>1, FS_CardinalityType
<1>6. next' = Slot(n - 1)'
  <2>1. next = Slot(n)
    BY <1>0 DEF IInv
  <2> QED
    BY <1>1, <1>2, <1>3, <1>5, <2>1, WAssumption DEF Slot, Dec
<1>7. TypeOK'
  BY <1>1, WAssumption DEF TypeOK, Dec, TryUndo
<1>9. \A j : Taken(j)' => Taken(j)
  BY <1>2 DEF Taken
<1>10. \A d, e \in Queued' : ticket'[d] = ticket'[e] /\ d # e =>
          \E j \in 0 .. Off(owner', ticket'[d]) - 1 : ~Taken(j)'
  BY <1>2, <1>9 DEF IInv
<1>11. \A d \in CPUs : pc'[d] = "in" => ticket'[d] = owner'
  BY <1>1, <1>2 DEF IInv, TryUndo
<1> QED
  BY <1>2, <1>4, <1>6, <1>7, <1>10, <1>11 DEF IInv

-----------------------------------------------------------------------------
LEMMA InitIInv == Init => IInv
<1> SUFFICES ASSUME Init PROVE IInv
  OBVIOUS
<1>1. Queued = {} /\ Cardinality(Queued) = 0
  BY FS_EmptySet DEF Init, Queued
<1>0. W > 0 /\ 0 \in 0 .. W - 1
  BY WAssumption, CPUsFinite, FS_CardinalityType
<1>2. TypeOK
  BY <1>0, Zenon DEF Init, TypeOK
<1>3. next = Slot(0)
  BY <1>0, WAssumption DEF Slot, Init
<1>4. next = Slot(Cardinality(Queued)) /\ \A j \in 0 .. Cardinality(Queued) - 1 : Taken(j)
  BY <1>1, <1>3
<1> QED
  BY <1>1, <1>2, <1>4 DEF IInv, Init

LEMMA NextIInv == IInv /\ [Next]_vars => IInv'
<1> SUFFICES ASSUME IInv, [Next]_vars PROVE IInv'
  OBVIOUS
<1>1. CASE Next
  BY <1>1, TakePreserves, ReadPreserves, UnlockPreserves, UndoPreserves
     DEF Next, LockTake, TryTake
<1>2. CASE UNCHANGED vars
  <2>1. TypeOK' /\ Queued' = Queued /\ owner' = owner /\ \A k : Slot(k)' = Slot(k)
    BY <1>2 DEF IInv, TypeOK, vars, Queued, Slot
  <2>2. \A j : Taken(j)' = Taken(j)
    BY <1>2, <2>1 DEF Taken, vars
  <2> QED
    BY <1>2, <2>1, <2>2 DEF IInv, vars
<1> QED
  BY <1>1, <1>2

LEMMA Invariance == Spec => []IInv
BY InitIInv, NextIInv, PTL DEF Spec

\* The counters stay in range: Inc and Dec wrap as uint32_t does.
THEOREM TypeCorrect == Spec => []TypeOK
<1>1. IInv => TypeOK
  BY DEF IInv
<1> QED
  BY <1>1, Invariance, PTL

\* Until a spin_trylock fails the tickets in use are consecutive and
\* different, from owner to next, for every number of CPUs and also when the
\* counters wrap around.
THEOREM QueueContiguous == Spec => []QueueIsContiguous
<1>1. IInv => QueueIsContiguous
  <2> SUFFICES ASSUME IInv, ~undone
               PROVE  /\ next = Slot(Cardinality(Queued))
                      /\ \A c \in Queued : \E k \in 0 .. Cardinality(Queued) - 1 : ticket[c] = Slot(k)
                      /\ \A c, d \in Queued : ticket[c] = ticket[d] => c = d
    BY DEF QueueIsContiguous
  <2>0. PICK n \in Nat : n = Cardinality(Queued)
    BY QueueIsSmall
  <2>1. \A c \in Queued : ticket[c] \in 0 .. W - 1
    BY DEF IInv, TypeOK, Queued
  <2>2. /\ \A c \in Queued : Off(owner, ticket[c]) \in 0 .. n - 1
        /\ \A c, d \in Queued : ticket[c] = ticket[d] => c = d
    BY <2>0, NoHoles DEF IInv
  <2>3. \A c \in Queued : ticket[c] = Slot(Off(owner, ticket[c]))
    BY <2>1, Distances DEF IInv
  <2> QED
    BY <2>0, <2>2, <2>3 DEF IInv
<1> QED
  BY <1>1, Invariance, PTL

\* At most one CPU is, or is about to be, served with the ticket owner.
LEMMA OneServed ==
    ASSUME IInv, NEW c \in Queued, NEW d \in Queued, ticket[c] = owner, ticket[d] = owner
    PROVE  c = d
<1> SUFFICES ASSUME c # d PROVE FALSE
  OBVIOUS
<1>1. \E j \in 0 .. Off(owner, owner) - 1 : ~Taken(j)
  BY DEF IInv
<1>2. Off(owner, owner) = 0
  BY DEF IInv, TypeOK, Off
<1> QED
  BY <1>1, <1>2

\* smp_hw_spin_lock, smp_hw_spin_trylock and smp_hw_spin_unlock never let two
\* CPUs in, even when tickets have been given out twice.
THEOREM Exclusion == Spec => []MutualExclusion
<1>1. IInv => MutualExclusion
  <2>1. ASSUME IInv, NEW c \in CPUs, pc[c] = "in" PROVE ticket[c] = owner /\ c \in Queued
    BY <2>1 DEF IInv, Queued
  <2> QED
    BY <2>1, OneServed DEF MutualExclusion
<1> QED
  BY <1>1, Invariance, PTL

-----------------------------------------------------------------------------
(* Where the CPUs are, seen by the callers of spinlock.h.                  *)
Status == [c \in CPUs |-> StatusOf(pc[c])]

LEMMA InitRefines == Init => Abstract!Init
BY DEF Init, Abstract!Init, StatusOf

LEMMA StatusMoves ==
    ASSUME TypeOK, NEW c \in CPUs, NEW label, pc' = [pc EXCEPT ![c] = label]
    PROVE  Status' = [Status EXCEPT ![c] = StatusOf(label)]
BY DEF TypeOK, Status

LEMMA NextRefines == IInv /\ [Next]_vars => [Abstract!Next]_Status
<1> SUFFICES ASSUME IInv, [Next]_vars PROVE Abstract!Next \/ Status' = Status
  OBVIOUS
<1>1. TypeOK /\ \A c \in CPUs : Status[c] = StatusOf(pc[c])
  BY DEF IInv, Status
<1>2. CASE UNCHANGED vars
  BY <1>2 DEF vars, Status
<1>3. ASSUME NEW c \in CPUs, NEW label \in {"spin", "try"}, TakeTicket(c, label)
      PROVE  Abstract!Request(c)
  BY <1>1, <1>3, StatusMoves DEF TakeTicket, StatusOf, Status, Abstract!Request
<1>4. ASSUME NEW c \in CPUs, pc[c] \in {"spin", "try"}, ticket[c] = owner,
             pc' = [pc EXCEPT ![c] = "in"]
      PROVE  Abstract!Acquire(c)
  <2>1. c \in Queued
    BY <1>4 DEF Queued
  <2>2. \A d \in CPUs : pc[d] # "in"
    <3> SUFFICES ASSUME NEW d \in CPUs, pc[d] = "in" PROVE FALSE
      OBVIOUS
    <3>1. ticket[d] = owner /\ d \in Queued
      BY DEF IInv, Queued
    <3> QED
      BY <1>4, <2>1, <3>1, OneServed
  <2>3. \A d \in CPUs : Status[d] # "in"
    BY <1>1, <2>2 DEF StatusOf, TypeOK
  <2>4. Status' = [Status EXCEPT ![c] = "in"]
    BY <1>1, <1>4, StatusMoves DEF StatusOf
  <2> QED
    BY <2>3, <2>4 DEF Abstract!Acquire, Status
<1>5. ASSUME NEW c \in CPUs, TryRead(c), ticket[c] # owner PROVE Status' = Status
  <2>1. pc[c] = "try" /\ pc' = [pc EXCEPT ![c] = "undo"]
    BY <1>5 DEF TryRead
  <2>2. StatusOf(pc[c]) = "want" /\ StatusOf("undo") = "want"
    BY <2>1 DEF StatusOf
  <2>3. Status' = [Status EXCEPT ![c] = Status[c]]
    BY <1>1, <2>1, <2>2, StatusMoves
  <2> QED
    BY <2>3 DEF Status
<1>6. ASSUME NEW c \in CPUs, TryUndo(c) PROVE Abstract!GiveUp(c)
  <2>1. Status[c] = "want" /\ Status' = [Status EXCEPT ![c] = "out"]
    BY <1>1, <1>6, StatusMoves DEF TryUndo, StatusOf
  <2> QED
    BY <2>1 DEF Abstract!GiveUp, Status
<1>7. ASSUME NEW c \in CPUs, Unlock(c) PROVE Abstract!Release(c)
  BY <1>1, <1>7, StatusMoves DEF Unlock, StatusOf, Status, Abstract!Release
<1>8. ASSUME NEW c \in CPUs, LockAcquire(c) \/ (TryRead(c) /\ ticket[c] = owner)
      PROVE  Abstract!Acquire(c)
  BY <1>4, <1>8 DEF LockAcquire, TryRead
<1> QED
  BY <1>2, <1>3, <1>5, <1>6, <1>7, <1>8 DEF Next, LockTake, TryTake, Abstract!Next

\* The ticket lock implements the lock of include/target/spinlock.h for any
\* number of CPUs: every behaviour of smp_hw_spin_lock, _trylock and _unlock
\* is one its callers are promised, whatever trylock does to the tickets.
THEOREM Refinement == Spec => ImplementsSpinLock
<1>1. IInv /\ [Next]_vars => [Abstract!Next]_[c \in CPUs |-> StatusOf(pc[c])]
  BY NextRefines DEF Status
<1> QED
  BY <1>1, InitRefines, Invariance, PTL DEF Spec, ImplementsSpinLock, Abstract!Spec

=============================================================================
