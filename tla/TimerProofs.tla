---------------------------- MODULE TimerProofs -----------------------------
(***************************************************************************)
(* The invariants of Timer, for any number of timers, any timeout_t and    *)
(* any GPT, provided that the timeouts that are scheduled survive          *)
(* TIMER_MAKE, which drops their top bit (ShortTouts).                     *)
(*                                                                         *)
(* The queue is ordered by times from which different spans are taken off  *)
(* at different moments; that it stays ordered rests on no subtraction     *)
(* wrapping round, hence on how far timer_timeout can be from the times in *)
(* the queue.  It is either settled (no later than any of them, so that    *)
(* taking it off once or twice stays in range) or, after an interrupt that *)
(* left work to the bottom half, pending (already taken off, and to be     *)
(* taken off once more).  IInv adds to this that a timer that is due is    *)
(* about to run in the loop for its type.                                  *)
(***************************************************************************)
EXTENDS Timer, TimerQueueProofs

USE Zenon

(* The longest time that TIMER_MAKE can hold.                              *)
U == MaxSpan - 1

(* The timeouts that are scheduled fit.                                    *)
ShortTouts == Touts \subseteq 0 .. U /\ 1 <= U

Shots(o, touts) == {t \in Queued(o) : TIMER_SHOT(touts[t])}

Ordered(o, touts) == \A j \in Slots, i \in Slots :
    i < j /\ o[j] # INVALID_TID /\ touts[o[i]] # TIMER_IDLE =>
        /\ touts[o[j]] # TIMER_IDLE
        /\ TIMER_TIME(touts[o[i]]) <= TIMER_TIME(touts[o[j]])

Valued(o, touts) == \A t \in Queued(o) : touts[t] # TIMER_IDLE => TIMER_SHOT(touts[t])

-----------------------------------------------------------------------------
LEMMA Sizes == U \in Int /\ MaxTime \in Nat /\ MaxTime = 2 * U + 2 /\ MaxSpan = U + 1
BY MaxAssumption, SMT DEF U, MaxSpan, MaxTime

LEMMA WrappedSame ==
    ASSUME NEW x \in Timeouts PROVE Wrapped(x) = x
BY Sizes, SMT DEF Wrapped, Timeouts

LEMMA MakeIs ==
    ASSUME NEW t \in Int, -U <= t, t <= U
    PROVE  /\ TIMER_MAKE(t) \in Timeouts
           /\ TIMER_SHOT(TIMER_MAKE(t)) /\ TIMER_MAKE(t) # TIMER_IDLE
           /\ TIMER_TIME(TIMER_MAKE(t)) = t
<1>1. 2 * t + 1 \in Timeouts
  BY Sizes, SMT DEF Timeouts
<1>2. TIMER_MAKE(t) = 2 * t + 1
  BY <1>1, WrappedSame DEF TIMER_MAKE
<1> QED BY <1>1, <1>2, SMT DEF TIMER_SHOT, TIMER_IDLE, TIMER_TIME

LEMMA IdleIs ==
    TIMER_IDLE \in Timeouts /\ ~ TIMER_SHOT(TIMER_IDLE) /\ TIMER_TIME(TIMER_IDLE) = 0
<1>1. TIMER_IDLE \in Timeouts
  BY Sizes, MaxAssumption, SMT DEF TIMER_IDLE, Timeouts, MaxTime
<1>2. ~ TIMER_SHOT(TIMER_IDLE)
  BY SMT DEF TIMER_IDLE, TIMER_SHOT
<1>3. TIMER_TIME(TIMER_IDLE) = 0
  BY SMT DEF TIMER_IDLE, TIMER_TIME
<1> QED BY <1>1, <1>2, <1>3

LEMMA TimeType ==
    ASSUME NEW x \in Timeouts
    PROVE  TIMER_TIME(x) \in Int /\ (TIMER_SHOT(x) => x # TIMER_IDLE)
BY Sizes, SMT DEF TIMER_IDLE, TIMER_SHOT, TIMER_TIME, Timeouts

-----------------------------------------------------------------------------
(* new is touts with time taken off: no timer overtakes another.           *)
Keeps(o, touts, new) ==
    /\ \A t \in Queued(o) : touts[t] = TIMER_IDLE => new[t] = TIMER_IDLE
    /\ \A s, t \in Queued(o) :
          /\ touts[s] # TIMER_IDLE /\ touts[t] # TIMER_IDLE
          /\ TIMER_TIME(touts[s]) <= TIMER_TIME(touts[t])
          /\ new[s] # TIMER_IDLE
          => new[t] # TIMER_IDLE /\ TIMER_TIME(new[s]) <= TIMER_TIME(new[t])

LEMMA KeepsOrder ==
    ASSUME NEW o, Packed(o), NEW touts, NEW new, Ordered(o, touts), Keeps(o, touts, new)
    PROVE  Ordered(o, new)
<1> SUFFICES ASSUME NEW j \in Slots, NEW i \in Slots,
                    i < j, o[j] # INVALID_TID, new[o[i]] # TIMER_IDLE
             PROVE  new[o[j]] # TIMER_IDLE /\ TIMER_TIME(new[o[i]]) <= TIMER_TIME(new[o[j]])
  BY DEF Ordered
<1>1. o[i] # INVALID_TID
  BY DEF Packed
<1>2. o[i] \in Queued(o) /\ o[j] \in Queued(o)
  BY <1>1, QueuedIs DEF Packed, Queues
<1>3. touts[o[i]] # TIMER_IDLE
  BY <1>2 DEF Keeps
<1>4. touts[o[j]] # TIMER_IDLE /\ TIMER_TIME(touts[o[i]]) <= TIMER_TIME(touts[o[j]])
  BY <1>3 DEF Ordered
<1> QED BY <1>2, <1>3, <1>4 DEF Keeps

(* A queue within an ordered one is ordered.                               *)
LEMMA WithinOrder ==
    ASSUME NEW o, NEW r, Packed(o), NEW touts, Ordered(o, touts), Within(r, o)
    PROVE  Ordered(r, touts)
<1> SUFFICES ASSUME NEW j \in Slots, NEW i \in Slots,
                    i < j, r[j] # INVALID_TID, touts[r[i]] # TIMER_IDLE
             PROVE  touts[r[j]] # TIMER_IDLE /\ TIMER_TIME(touts[r[i]]) <= TIMER_TIME(touts[r[j]])
  BY DEF Ordered
<1>1. PICK a, b \in Slots : a < b /\ o[a] = r[i] /\ o[b] = r[j]
  BY DEF Within
<1> QED BY <1>1 DEF Ordered

(* The timers that are due are at the head.                                *)
LEMMA NoneDue ==
    ASSUME NEW o, Packed(o), NEW touts, Ordered(o, touts),
           o[0] = INVALID_TID \/ touts[o[0]] # TIMER_IDLE
    PROVE  \A t \in Queued(o) : touts[t] # TIMER_IDLE
<1> SUFFICES ASSUME NEW t \in Queued(o) PROVE touts[t] # TIMER_IDLE
  OBVIOUS
<1>1. PICK i \in Slots : o[i] = t /\ t \in Tids
  BY QueuedIs
<1>2. t # INVALID_TID
  BY <1>1, TimersAssumption, SMT DEF Tids, INVALID_TID
<1>3. 0 \in Slots /\ (i = 0 \/ 0 < i)
  BY TimersAssumption, SMT DEF Slots
<1>4. CASE i = 0
  BY <1>1, <1>2, <1>4
<1>5. CASE 0 < i
  <2>1. o[0] # INVALID_TID
    BY <1>1, <1>2, <1>3, <1>5 DEF Packed
  <2> QED BY <1>1, <1>2, <1>3, <1>5, <2>1 DEF Ordered
<1> QED BY <1>3, <1>4, <1>5

(* The first shot timer is one that is due first.                          *)
LEMMA FirstShotIs ==
    ASSUME NEW o, Packed(o), NEW touts \in [Tids -> Timeouts], Ordered(o, touts)
    PROVE  /\ Shots(o, touts) = {} => FirstShot(o, touts) = TIMER_IDLE
           /\ Shots(o, touts) # {} =>
                \E s \in Shots(o, touts) :
                    /\ FirstShot(o, touts) = touts[s]
                    /\ \A t \in Shots(o, touts) : TIMER_TIME(touts[s]) <= TIMER_TIME(touts[t])
<1> DEFINE shots == {i \in Seen(o) : TIMER_SHOT(touts[o[i]])}
<1>1. FirstShot(o, touts) = IF shots = {} THEN TIMER_IDLE ELSE touts[o[Min(shots)]]
  BY DEF FirstShot
<1>2. shots \in SUBSET Nat /\ shots \subseteq Slots
  <2>1. Seen(o) \subseteq Nat /\ Seen(o) \subseteq Slots
    BY TimersAssumption, SMT DEF Seen, Tids, Slots
  <2> QED BY <2>1
<1>3. ASSUME NEW i \in shots PROVE o[i] \in Shots(o, touts)
  BY DEF Shots, Queued
<1>4. ASSUME NEW t \in Shots(o, touts) PROVE \E i \in shots : o[i] = t
  BY DEF Shots, Queued
<1> HIDE DEF shots
<1>5. CASE Shots(o, touts) = {}
  BY <1>1, <1>3, <1>5
<1>6. CASE Shots(o, touts) # {}
  <2>1. shots # {}
    BY <1>4, <1>6
  <2> DEFINE m == Min(shots)
  <2>2. m \in shots /\ \A i \in shots : m <= i
    BY <1>2, <2>1, MinIn
  <2>3. FirstShot(o, touts) = touts[o[m]]
    BY <1>1, <2>1
  <2> HIDE DEF m
  <2>4. ASSUME NEW t \in Shots(o, touts)
        PROVE  TIMER_TIME(touts[o[m]]) <= TIMER_TIME(touts[t])
    <3>1. PICK i \in shots : o[i] = t
      BY <1>4
    <3>2. i \in Slots /\ m \in Slots /\ (m = i \/ m < i)
      BY <1>2, <2>2, SMT
    <3>3. o[m] \in Shots(o, touts)
      BY <1>3, <2>2
    <3>4. o[m] \in Tids /\ t \in Tids /\ TIMER_SHOT(touts[o[m]])
      BY <3>3, QueuedIs DEF Shots
    <3>5. t # INVALID_TID
      BY <3>4, TimersAssumption, SMT DEF Tids, INVALID_TID
    <3>6. touts[o[m]] # TIMER_IDLE /\ TIMER_TIME(touts[o[m]]) \in Int
      BY <3>4, TimeType
    <3>7. CASE m = i
      BY <3>1, <3>6, <3>7, SMT
    <3>8. CASE m < i
      BY <3>1, <3>2, <3>5, <3>6, <3>8 DEF Ordered
    <3> QED BY <3>2, <3>7, <3>8
  <2> QED BY <1>3, <1>6, <2>2, <2>3, <2>4
<1> QED BY <1>5, <1>6

-----------------------------------------------------------------------------
(* timer_timeout is T, and a timer of time x is to be shot when it is      *)
(* over; or T has already been taken off x.                                *)
SettledBy(x, T) == T <= x /\ x <= U /\ x - 2 * T <= U
PendingBy(x, T) == 0 < x /\ x <= U /\ x - T <= U /\ x + T <= U

Settled(o, touts, tout) ==
    /\ Shots(o, touts) # {} => TIMER_SHOT(tout)
    /\ \A t \in Shots(o, touts) : SettledBy(TIMER_TIME(touts[t]), TIMER_TIME(tout))
Pending(o, touts, tout) ==
    \A t \in Shots(o, touts) : PendingBy(TIMER_TIME(touts[t]), TIMER_TIME(tout))

InRange(tout) == tout \in Timeouts /\ -U <= TIMER_TIME(tout) /\ TIMER_TIME(tout) <= U

(* __timer_recalc_timeout(true) on a settled queue, or on one that is      *)
(* pending: nothing wraps, and the queue is settled.                       *)
LEMMA RecalcTrue ==
    ASSUME NEW o, Packed(o), NEW touts \in [Tids -> Timeouts], NEW tout,
           Ordered(o, touts), Valued(o, touts), InRange(tout),
           Settled(o, touts, tout) \/ Pending(o, touts, tout)
    PROVE  LET new   == Recalc(o, touts, TRUE, TIMER_TIME(tout))
               first == FirstShot(o, new)
           IN /\ new \in [Tids -> Timeouts]
              /\ Ordered(o, new) /\ Valued(o, new)
              /\ \A t \in Tids : new[t] = TIMER_IDLE <=> touts[t] = TIMER_IDLE
              /\ InRange(first) /\ Settled(o, new, first)
              /\ Shots(o, new) = Shots(o, touts)
              /\ TIMER_SHOT(first) <=> Shots(o, new) # {}
<1> DEFINE new == Recalc(o, touts, TRUE, TIMER_TIME(tout))
           first == FirstShot(o, new)
           T == TIMER_TIME(tout)
           x(t) == TIMER_TIME(touts[t])
<1>1. T \in Int /\ -U <= T /\ T <= U /\ U \in Int
  BY Sizes, TimeType DEF InRange
<1>2. ASSUME NEW t \in Shots(o, touts)
      PROVE  /\ t \in Tids /\ t \in Queued(o) /\ TIMER_SHOT(touts[t])
             /\ x(t) \in Int /\ (SettledBy(x(t), T) \/ PendingBy(x(t), T))
  <2>1. t \in Tids /\ t \in Queued(o) /\ TIMER_SHOT(touts[t])
    BY QueuedIs DEF Shots
  <2> QED BY <2>1, TimeType DEF Settled, Pending
<1>3. ASSUME NEW t \in Shots(o, touts)
      PROVE  x(t) - T \in Int /\ -U <= x(t) - T /\ x(t) - T <= U
  <2> HIDE DEF x, T
  <2> QED BY <1>1, <1>2, SMT DEF SettledBy, PendingBy
<1>4. ASSUME NEW t \in Shots(o, touts) PROVE new[t] = TIMER_MAKE(x(t) - T)
  BY <1>2 DEF Recalc
<1>5. ASSUME NEW t \in Shots(o, touts)
      PROVE  /\ new[t] \in Timeouts /\ TIMER_SHOT(new[t]) /\ new[t] # TIMER_IDLE
             /\ TIMER_TIME(new[t]) = x(t) - T
  <2> HIDE DEF x, T, new
  <2> QED BY <1>3, <1>4, MakeIs
<1>6. ASSUME NEW t \in Tids, t \notin Shots(o, touts) PROVE new[t] = touts[t]
  BY <1>6 DEF Recalc, Shots
<1>7. new \in [Tids -> Timeouts]
  <2>1. new = [t \in Tids |-> new[t]]
    BY DEF Recalc
  <2> HIDE DEF new
  <2> QED BY <1>5, <1>6, <2>1
<1> HIDE DEF new, x, T
<1>8. ASSUME NEW t \in Tids PROVE new[t] = TIMER_IDLE <=> touts[t] = TIMER_IDLE
  BY <1>2, <1>5, <1>6, TimeType
<1>9. Shots(o, new) = Shots(o, touts)
  <2>1. ASSUME NEW t \in Queued(o) PROVE TIMER_SHOT(new[t]) <=> TIMER_SHOT(touts[t])
    BY <1>5, <1>6, QueuedIs DEF Shots
  <2> QED BY <2>1 DEF Shots
<1>10. Valued(o, new)
  <2> SUFFICES ASSUME NEW t \in Queued(o), new[t] # TIMER_IDLE PROVE TIMER_SHOT(new[t])
    BY DEF Valued
  <2>1. t \in Tids
    BY QueuedIs
  <2> QED BY <2>1, <1>5, <1>6 DEF Valued, Shots
<1>11. Ordered(o, new)
  <2>1. ASSUME NEW s \in Queued(o), NEW t \in Queued(o), new[s] # TIMER_IDLE,
               touts[s] # TIMER_IDLE, touts[t] # TIMER_IDLE, x(s) <= x(t)
        PROVE  new[t] # TIMER_IDLE /\ TIMER_TIME(new[s]) <= TIMER_TIME(new[t])
    <3>1. s \in Shots(o, touts) /\ t \in Shots(o, touts)
      BY <2>1 DEF Shots, Valued
    <3>2. x(s) - T <= x(t) - T
      BY <1>1, <1>2, <2>1, <3>1, SMT
    <3> QED BY <1>5, <3>1, <3>2
  <2>2. ASSUME NEW t \in Queued(o), touts[t] = TIMER_IDLE PROVE new[t] = TIMER_IDLE
    BY <1>8, <2>2, QueuedIs
  <2>3. Keeps(o, touts, new)
    BY <2>1, <2>2 DEF Keeps, x
  <2> QED BY <2>3, KeepsOrder
<1>12. CASE Shots(o, touts) = {}
  <2>1. first = TIMER_IDLE
    BY <1>7, <1>9, <1>11, <1>12, FirstShotIs
  <2> HIDE DEF first
  <2>2. ~ TIMER_SHOT(first) /\ first \in Timeouts /\ TIMER_TIME(first) = 0
    BY <2>1, IdleIs
  <2>3. InRange(first)
    BY <1>1, <2>2, SMT DEF InRange
  <2>4. Settled(o, new, first)
    BY <1>9, <1>12 DEF Settled
  <2> QED BY <1>7, <1>8, <1>9, <1>10, <1>11, <1>12, <2>2, <2>3, <2>4 DEF first, new, T
<1>13. CASE Shots(o, touts) # {}
  <2>1. PICK s \in Shots(o, touts) :
            /\ first = new[s]
            /\ \A t \in Shots(o, touts) : TIMER_TIME(new[s]) <= TIMER_TIME(new[t])
    BY <1>7, <1>9, <1>11, <1>13, FirstShotIs
  <2> HIDE DEF first
  <2>2. /\ TIMER_SHOT(first) /\ first \in Timeouts
        /\ TIMER_TIME(first) = x(s) - T
    BY <1>5, <2>1
  <2>3. InRange(first)
    BY <1>3, <2>2 DEF InRange
  <2>4. ASSUME NEW t \in Shots(o, touts) PROVE SettledBy(TIMER_TIME(new[t]), TIMER_TIME(first))
    <3>1. x(s) - T <= x(t) - T /\ TIMER_TIME(new[t]) = x(t) - T
      BY <1>5, <2>1
    <3>2. \/ SettledBy(x(s), T) /\ SettledBy(x(t), T)
          \/ PendingBy(x(s), T) /\ PendingBy(x(t), T)
      BY <1>2 DEF Settled, Pending, x, T
    <3>3. SettledBy(x(t) - T, x(s) - T)
      BY <1>1, <1>2, <1>3, <3>1, <3>2, SMT DEF SettledBy, PendingBy
    <3> QED BY <2>2, <3>1, <3>3
  <2>5. Settled(o, new, first)
    BY <1>9, <2>2, <2>4 DEF Settled
  <2> QED BY <1>7, <1>8, <1>9, <1>10, <1>11, <1>13, <2>2, <2>3, <2>5 DEF first, new, T
<1> QED BY <1>12, <1>13


(* __timer_recalc_timeout(false): every shot timer has at least 1 ms left. *)
LEMMA RecalcFalse ==
    ASSUME NEW o, Packed(o), NEW touts \in [Tids -> Timeouts], NEW span \in Nat,
           Ordered(o, touts), Valued(o, touts), 1 <= U,
           \A t \in Shots(o, touts) : TIMER_TIME(touts[t]) <= U
    PROVE  LET new == Recalc(o, touts, FALSE, span)
           IN /\ new \in [Tids -> Timeouts]
              /\ Ordered(o, new) /\ Valued(o, new)
              /\ \A t \in Tids : new[t] = TIMER_IDLE <=> touts[t] = TIMER_IDLE
              /\ Shots(o, new) = Shots(o, touts)
              /\ \A t \in Shots(o, new) : 1 <= TIMER_TIME(new[t]) /\ TIMER_TIME(new[t]) <= U
<1> DEFINE new == Recalc(o, touts, FALSE, span)
           x(t) == TIMER_TIME(touts[t])
           y(t) == IF x(t) - span <= 0 THEN 1 ELSE x(t) - span
<1>1. U \in Int
  BY Sizes
<1>2. ASSUME NEW t \in Shots(o, touts)
      PROVE  t \in Tids /\ t \in Queued(o) /\ TIMER_SHOT(touts[t]) /\ x(t) \in Int /\ x(t) <= U
  <2>1. t \in Tids /\ t \in Queued(o) /\ TIMER_SHOT(touts[t])
    BY QueuedIs DEF Shots
  <2> QED BY <2>1, TimeType
<1>3. ASSUME NEW t \in Shots(o, touts)
      PROVE  y(t) \in Int /\ -U <= y(t) /\ 1 <= y(t) /\ y(t) <= U
  <2> HIDE DEF x
  <2> QED BY <1>1, <1>2, SMT
<1>4. ASSUME NEW t \in Shots(o, touts) PROVE new[t] = TIMER_MAKE(y(t))
  BY <1>2 DEF Recalc
<1>5. ASSUME NEW t \in Shots(o, touts)
      PROVE  /\ new[t] \in Timeouts /\ TIMER_SHOT(new[t]) /\ new[t] # TIMER_IDLE
             /\ TIMER_TIME(new[t]) = y(t)
  <2> HIDE DEF y, new
  <2> QED BY <1>3, <1>4, MakeIs
<1>6. ASSUME NEW t \in Tids, t \notin Shots(o, touts) PROVE new[t] = touts[t]
  BY <1>6 DEF Recalc, Shots
<1>7. new \in [Tids -> Timeouts]
  <2>1. new = [t \in Tids |-> new[t]]
    BY DEF Recalc
  <2> HIDE DEF new
  <2> QED BY <1>5, <1>6, <2>1
<1> HIDE DEF new, x
<1>8. ASSUME NEW t \in Tids PROVE new[t] = TIMER_IDLE <=> touts[t] = TIMER_IDLE
  BY <1>2, <1>5, <1>6, TimeType
<1>9. Shots(o, new) = Shots(o, touts)
  <2>1. ASSUME NEW t \in Queued(o) PROVE TIMER_SHOT(new[t]) <=> TIMER_SHOT(touts[t])
    BY <1>5, <1>6, QueuedIs DEF Shots
  <2> QED BY <2>1 DEF Shots
<1>10. Valued(o, new)
  <2> SUFFICES ASSUME NEW t \in Queued(o), new[t] # TIMER_IDLE PROVE TIMER_SHOT(new[t])
    BY DEF Valued
  <2>1. t \in Tids
    BY QueuedIs
  <2> QED BY <2>1, <1>5, <1>6 DEF Valued, Shots
<1>11. Ordered(o, new)
  <2>1. ASSUME NEW s \in Queued(o), NEW t \in Queued(o), new[s] # TIMER_IDLE,
               touts[s] # TIMER_IDLE, touts[t] # TIMER_IDLE, x(s) <= x(t)
        PROVE  new[t] # TIMER_IDLE /\ TIMER_TIME(new[s]) <= TIMER_TIME(new[t])
    <3>1. s \in Shots(o, touts) /\ t \in Shots(o, touts)
      BY <2>1 DEF Shots, Valued
    <3>2. y(s) <= y(t)
      BY <1>1, <1>2, <2>1, <3>1, SMT
    <3> HIDE DEF y
    <3> QED BY <1>5, <3>1, <3>2
  <2>2. ASSUME NEW t \in Queued(o), touts[t] = TIMER_IDLE PROVE new[t] = TIMER_IDLE
    BY <1>8, <2>2, QueuedIs
  <2>3. Keeps(o, touts, new)
    BY <2>1, <2>2 DEF Keeps, x
  <2> QED BY <2>3, KeepsOrder
<1>12. ASSUME NEW t \in Shots(o, new) PROVE 1 <= TIMER_TIME(new[t]) /\ TIMER_TIME(new[t]) <= U
  <2> HIDE DEF y
  <2> QED BY <1>3, <1>5, <1>9
<1> QED BY <1>7, <1>8, <1>9, <1>10, <1>11, <1>12 DEF new

(* What timer_schedule_shot does to the queue and to timer_timeout.        *)
LEMMA ScheduleIs ==
    ASSUME NEW o, Packed(o), NEW touts \in [Tids -> Timeouts], NEW span \in Nat,
           Ordered(o, touts), Valued(o, touts), 1 <= U,
           \A t \in Shots(o, touts) : TIMER_TIME(touts[t]) <= U,
           NEW tid \in Tids, NEW ms \in 1 .. U
    PROVE  LET rest  == timer_del(o, tid)
               left  == Recalc(rest, touts, FALSE, span)
               first == FirstShot(rest, left)
               new   == [left EXCEPT ![tid] = TIMER_MAKE(ms)]
               q     == timer_add(rest, tid, Times(new))
               tout  == IF ~TIMER_SHOT(first) \/ ms < TIMER_TIME(first) THEN new[tid] ELSE first
           IN /\ Packed(q) /\ Queued(q) = Queued(o) \cup {tid}
              /\ new \in [Tids -> Timeouts] /\ new[tid] # TIMER_IDLE
              /\ \A t \in Tids \ {tid} : new[t] = TIMER_IDLE <=> touts[t] = TIMER_IDLE
              /\ Ordered(q, new) /\ Valued(q, new)
              /\ InRange(tout) /\ TIMER_SHOT(tout) /\ Settled(q, new, tout)
<1> DEFINE rest  == timer_del(o, tid)
           left  == Recalc(rest, touts, FALSE, span)
           first == FirstShot(rest, left)
           new   == [left EXCEPT ![tid] = TIMER_MAKE(ms)]
           time  == Times(new)
           q     == timer_add(rest, tid, time)
           tout  == IF ~TIMER_SHOT(first) \/ ms < TIMER_TIME(first) THEN new[tid] ELSE first
<1>1. /\ Packed(rest) /\ rest[NR_TIMERS - 1] = INVALID_TID
      /\ Queued(rest) = Queued(o) \ {tid}
      /\ \A i \in Slots : rest[i] # tid
      /\ Within(rest, o)
  BY DelRemoves
<1> HIDE DEF rest
<1>2. Ordered(rest, touts)
  BY <1>1, WithinOrder
<1>3. Valued(rest, touts) /\ \A t \in Shots(rest, touts) : TIMER_TIME(touts[t]) <= U
  BY <1>1 DEF Valued, Shots
<1>4. /\ left \in [Tids -> Timeouts]
      /\ Ordered(rest, left) /\ Valued(rest, left)
      /\ \A t \in Tids : left[t] = TIMER_IDLE <=> touts[t] = TIMER_IDLE
      /\ Shots(rest, left) = Shots(rest, touts)
      /\ \A t \in Shots(rest, left) : 1 <= TIMER_TIME(left[t]) /\ TIMER_TIME(left[t]) <= U
  <2>1. Packed(rest)
    BY <1>1
  <2> QED BY <1>2, <1>3, <2>1, RecalcFalse
<1> HIDE DEF left
<1>5. ms \in Int /\ 1 <= ms /\ -U <= ms /\ ms <= U /\ U \in Int /\ 0 <= ms
  BY Sizes, SMT
<1>6. /\ TIMER_MAKE(ms) \in Timeouts /\ TIMER_SHOT(TIMER_MAKE(ms))
      /\ TIMER_MAKE(ms) # TIMER_IDLE /\ TIMER_TIME(TIMER_MAKE(ms)) = ms
  BY <1>5, MakeIs
<1>7. /\ new \in [Tids -> Timeouts] /\ new[tid] = TIMER_MAKE(ms)
      /\ \A t \in Tids \ {tid} : new[t] = left[t]
  BY <1>4, <1>6
<1> HIDE DEF new
<1>8. time \in [Tids -> Int] /\ \A t \in Tids : time[t] = TIMER_TIME(new[t])
  BY <1>7, TimeType DEF Times
<1>9. ASSUME NEW i \in Slots, rest[i] # INVALID_TID
      PROVE  rest[i] \in Queued(rest) /\ rest[i] \in Tids \ {tid} /\ new[rest[i]] = left[rest[i]]
  <2>1. rest[i] \in Tids \ {tid}
    BY <1>1, <1>9 DEF Packed, Queues
  <2> QED BY <1>1, <1>7, <2>1, QueuedIs
<1>10. ASSUME NEW t \in Queued(rest), t \in Tids, left[t] # TIMER_IDLE
       PROVE  TIMER_SHOT(left[t]) /\ 1 <= TIMER_TIME(left[t]) /\ TIMER_TIME(left[t]) <= U
  BY <1>4, <1>10 DEF Valued, Shots
<1>11. Sorted(rest, time)
  <2> SUFFICES ASSUME NEW j \in Slots, NEW i \in Slots, i < j,
                      rest[i] # INVALID_TID, rest[j] # INVALID_TID
               PROVE  time[rest[i]] <= time[rest[j]]
    BY DEF Sorted
  <2>1. /\ time[rest[i]] = TIMER_TIME(left[rest[i]])
        /\ time[rest[j]] = TIMER_TIME(left[rest[j]])
        /\ rest[i] \in Queued(rest) /\ rest[j] \in Queued(rest) /\ rest[i] \in Tids /\ rest[j] \in Tids
    BY <1>8, <1>9
  <2>2. CASE left[rest[i]] # TIMER_IDLE
    BY <1>4, <2>1, <2>2 DEF Ordered
  <2>3. CASE left[rest[i]] = TIMER_IDLE /\ left[rest[j]] = TIMER_IDLE
    BY <2>1, <2>3, IdleIs, SMT
  <2>4. CASE left[rest[i]] = TIMER_IDLE /\ left[rest[j]] # TIMER_IDLE
    <3>1. time[rest[i]] = 0 /\ 1 <= time[rest[j]] /\ time[rest[j]] \in Int
      BY <1>8, <1>10, <2>1, <2>4, IdleIs
    <3> QED BY <3>1, SMT
  <2> QED BY <2>2, <2>3, <2>4
<1>12. Packed(q) /\ Queued(q) = Queued(rest) \cup {tid} /\ Sorted(q, time)
  BY <1>1, <1>8, <1>11, AddInserts
<1>13. Queued(q) = Queued(o) \cup {tid}
  BY <1>1, <1>12
<1> HIDE DEF q
<1>14. ASSUME NEW t \in Queued(q)
       PROVE  /\ t \in Tids
              /\ new[t] # TIMER_IDLE => /\ TIMER_SHOT(new[t]) /\ TIMER_TIME(new[t]) \in Int
                                        /\ 1 <= TIMER_TIME(new[t]) /\ TIMER_TIME(new[t]) <= U
  <2>1. t \in Tids
    BY <1>12, QueuedIs
  <2>2. CASE t = tid
    BY <1>5, <1>6, <1>7, <2>2
  <2>3. CASE t # tid
    BY <1>7, <1>10, <1>12, <2>1, <2>3, TimeType
  <2> QED BY <2>1, <2>2, <2>3
<1>15. Valued(q, new)
  BY <1>14 DEF Valued
<1>16. Ordered(q, new)
  <2> SUFFICES ASSUME NEW j \in Slots, NEW i \in Slots, i < j,
                      q[j] # INVALID_TID, new[q[i]] # TIMER_IDLE
               PROVE  new[q[j]] # TIMER_IDLE /\ TIMER_TIME(new[q[i]]) <= TIMER_TIME(new[q[j]])
    BY DEF Ordered
  <2>1. q[i] # INVALID_TID
    BY <1>12 DEF Packed
  <2>2. q[i] \in Queued(q) /\ q[j] \in Queued(q)
    <3>1. Packed(q) /\ q[i] \in Tids /\ q[j] \in Tids
      BY <1>12, <2>1 DEF Packed, Queues
    <3> QED BY <3>1, QueuedIs
  <2>3. TIMER_TIME(new[q[i]]) <= TIMER_TIME(new[q[j]])
    BY <1>8, <1>12, <1>14, <2>1, <2>2 DEF Sorted
  <2>4. new[q[j]] # TIMER_IDLE
    <3> SUFFICES ASSUME new[q[j]] = TIMER_IDLE PROVE FALSE
      OBVIOUS
    <3>1. TIMER_TIME(new[q[j]]) = 0
      BY IdleIs
    <3>2. 1 <= TIMER_TIME(new[q[i]]) /\ TIMER_TIME(new[q[i]]) \in Int
      BY <1>14, <2>2
    <3> QED BY <2>3, <3>1, <3>2, SMT
  <2> QED BY <2>3, <2>4
<1>17. ASSUME NEW t \in Shots(q, new)
       PROVE  t = tid \/ t \in Shots(rest, left)
  <2>1. t \in Queued(q) /\ TIMER_SHOT(new[t])
    BY DEF Shots
  <2>2. t = tid \/ (t \in Queued(rest) /\ t \in Tids)
    BY <1>12, <1>14, <2>1
  <2> QED BY <1>7, <2>1, <2>2 DEF Shots
<1>18. /\ InRange(tout) /\ TIMER_SHOT(tout) /\ 1 <= TIMER_TIME(tout)
       /\ \A t \in Shots(q, new) : TIMER_TIME(tout) <= TIMER_TIME(new[t])
  <2>1. ASSUME NEW t \in Shots(q, new), t # tid
        PROVE  t \in Shots(rest, left) /\ TIMER_TIME(new[t]) = TIMER_TIME(left[t])
    <3>1. t \in Shots(rest, left)
      BY <1>17, <2>1
    <3>2. t \in Tids
      BY <1>1, <3>1, QueuedIs DEF Shots
    <3> QED BY <1>7, <2>1, <3>1, <3>2
  <2>2. CASE Shots(rest, left) = {}
    <3>1. first = TIMER_IDLE
      BY <1>1, <1>4, <2>2, FirstShotIs
    <3>2. tout = TIMER_MAKE(ms)
      BY <1>7, <3>1, IdleIs
    <3>3. \A t \in Shots(q, new) : t = tid
      BY <1>17, <2>2
    <3> HIDE DEF tout, first
    <3>4. ms <= ms
      BY SMT
    <3> QED BY <1>5, <1>6, <1>7, <3>2, <3>3, <3>4 DEF InRange
  <2>3. CASE Shots(rest, left) # {}
    <3>1. PICK s \in Shots(rest, left) :
              /\ first = left[s]
              /\ \A t \in Shots(rest, left) : TIMER_TIME(left[s]) <= TIMER_TIME(left[t])
      BY <1>1, <1>4, <2>3, FirstShotIs
    <3> HIDE DEF first
    <3>2. /\ s \in Tids /\ TIMER_SHOT(first) /\ first \in Timeouts /\ TIMER_TIME(first) \in Int
          /\ 1 <= TIMER_TIME(first) /\ TIMER_TIME(first) <= U
      <4>1. s \in Tids
        BY <1>1, QueuedIs DEF Shots
      <4> QED BY <1>4, <3>1, <4>1, TimeType DEF Shots
    <3>3. -U <= TIMER_TIME(first)
      BY <1>5, <3>2, SMT
    <3>4. CASE ms < TIMER_TIME(first)
      <4>1. tout = TIMER_MAKE(ms)
        BY <1>7, <3>4
      <4>2. ASSUME NEW t \in Shots(q, new) PROVE ms <= TIMER_TIME(new[t])
        <5>1. CASE t = tid
          BY <1>5, <1>6, <1>7, <5>1, SMT
        <5>2. CASE t # tid
          <6>1. TIMER_TIME(first) <= TIMER_TIME(new[t]) /\ TIMER_TIME(new[t]) \in Int
            <7>1. t \in Tids
              BY <1>14 DEF Shots
            <7> QED BY <1>8, <2>1, <3>1, <5>2, <7>1
          <6> QED BY <1>5, <3>2, <3>4, <6>1, SMT
        <5> QED BY <5>1, <5>2
      <4> HIDE DEF tout
      <4> QED BY <1>5, <1>6, <4>1, <4>2 DEF InRange
    <3>5. CASE ~ (ms < TIMER_TIME(first))
      <4>1. tout = first
        BY <3>2, <3>5
      <4>2. ASSUME NEW t \in Shots(q, new) PROVE TIMER_TIME(first) <= TIMER_TIME(new[t])
        <5>1. CASE t = tid
          <6>1. TIMER_TIME(new[t]) = ms
            BY <1>6, <1>7, <5>1
          <6> QED BY <1>5, <3>2, <3>5, <6>1, SMT
        <5>2. CASE t # tid
          BY <2>1, <3>1, <5>2
        <5> QED BY <5>1, <5>2
      <4> HIDE DEF tout
      <4> QED BY <3>2, <3>3, <4>1, <4>2 DEF InRange
    <3> QED BY <3>4, <3>5
  <2> QED BY <2>2, <2>3
<1> HIDE DEF tout
<1>19. Settled(q, new, tout)
  <2> SUFFICES ASSUME NEW t \in Shots(q, new)
               PROVE  SettledBy(TIMER_TIME(new[t]), TIMER_TIME(tout))
    BY <1>18 DEF Settled
  <2>1. /\ TIMER_TIME(new[t]) \in Int /\ TIMER_TIME(new[t]) <= U
    <3>1. t \in Queued(q) /\ t \in Tids /\ TIMER_SHOT(new[t])
      BY <1>14 DEF Shots
    <3>2. new[t] # TIMER_IDLE
      BY <3>1, IdleIs
    <3> QED BY <1>14, <3>1, <3>2
  <2>2. TIMER_TIME(tout) \in Int
    BY <1>18, TimeType DEF InRange
  <2> QED BY <1>5, <1>18, <2>1, <2>2, SMT DEF SettledBy
<1>20. \A t \in Tids \ {tid} : new[t] = TIMER_IDLE <=> touts[t] = TIMER_IDLE
  BY <1>4, <1>7
<1> QED BY <1>6, <1>7, <1>12, <1>13, <1>15, <1>16, <1>18, <1>19, <1>20
        DEF rest, left, first, new, q, tout


-----------------------------------------------------------------------------
(* The bottom half has been resumed or runs; the interrupt's loop runs.    *)
BhSide == awake \/ pc \in {"bh", "bhHandler"}
IrqSide == pc \in {"irq", "irqHandler"}

QInv == /\ Packed(orders) /\ Queued(orders) \subseteq Registered
        /\ Ordered(orders, timeouts) /\ Valued(orders, timeouts)

(* A due timer is about to run, in the loop for its type.                  *)
DueInv == \A t \in Queued(orders) : timeouts[t] = TIMER_IDLE =>
              IF kind[t] = "BH" THEN BhSide ELSE IrqSide

(* timer_timeout is not later than any timer, unless the interrupt has     *)
(* left it to the bottom half to calculate it again.                       *)
TimeInv == /\ InRange(timeout)
           /\ \/ Settled(orders, timeouts, timeout)
              \/ Pending(orders, timeouts, timeout) /\ gpt = Never /\ BhSide

Armed == gpt = Never => Shots(orders, timeouts) = {} \/ BhSide

IInv == TypeOK /\ QInv /\ QueueIsScheduled /\ DueInv /\ TimeInv /\ Armed

-----------------------------------------------------------------------------
(* Only the timeouts of queued timers matter.                              *)
LEMMA Same ==
    ASSUME NEW o, Packed(o), NEW a, NEW b, \A t \in Queued(o) : b[t] = a[t]
    PROVE  /\ Shots(o, b) = Shots(o, a)
           /\ Ordered(o, a) => Ordered(o, b)
           /\ Valued(o, a) => Valued(o, b)
           /\ \A tout : Settled(o, a, tout) => Settled(o, b, tout)
           /\ \A tout : Pending(o, a, tout) => Pending(o, b, tout)
<1>1. Shots(o, b) = Shots(o, a)
  BY DEF Shots
<1>2. ASSUME Ordered(o, a) PROVE Ordered(o, b)
  <2> SUFFICES ASSUME NEW j \in Slots, NEW i \in Slots,
                      i < j, o[j] # INVALID_TID, b[o[i]] # TIMER_IDLE
               PROVE  b[o[j]] # TIMER_IDLE /\ TIMER_TIME(b[o[i]]) <= TIMER_TIME(b[o[j]])
    BY DEF Ordered
  <2>1. o[i] \in Tids /\ o[j] \in Tids
    BY DEF Packed, Queues
  <2>2. o[i] \in Queued(o) /\ o[j] \in Queued(o)
    BY <2>1, QueuedIs
  <2> QED BY <1>2, <2>2 DEF Ordered
<1>3. Valued(o, a) => Valued(o, b)
  BY DEF Valued
<1>4. ASSUME NEW t \in Shots(o, a) PROVE b[t] = a[t]
  BY DEF Shots
<1> QED BY <1>1, <1>2, <1>3, <1>4 DEF Settled, Pending

(* A timer that is taken out takes nothing with it.                        *)
LEMMA Fewer ==
    ASSUME NEW o, Packed(o), NEW tid \in Tids, NEW a, Ordered(o, a), Valued(o, a)
    PROVE  LET r == timer_del(o, tid)
           IN /\ Packed(r) /\ Ordered(r, a) /\ Valued(r, a)
              /\ Queued(r) = Queued(o) \ {tid} /\ Shots(r, a) \subseteq Shots(o, a)
              /\ \A tout : Settled(o, a, tout) => Settled(r, a, tout)
              /\ \A tout : Pending(o, a, tout) => Pending(r, a, tout)
<1> DEFINE r == timer_del(o, tid)
<1>1. Packed(r) /\ Queued(r) = Queued(o) \ {tid} /\ Within(r, o)
  BY DelRemoves
<1> HIDE DEF r
<1>2. Ordered(r, a)
  BY <1>1, WithinOrder
<1>3. Valued(r, a) /\ Shots(r, a) \subseteq Shots(o, a)
  BY <1>1 DEF Valued, Shots
<1>4. \A tout : Settled(o, a, tout) => Settled(r, a, tout)
  BY <1>3 DEF Settled
<1>5. \A tout : Pending(o, a, tout) => Pending(r, a, tout)
  BY <1>3 DEF Pending
<1> QED BY <1>1, <1>2, <1>3, <1>4, <1>5 DEF r

(* timer_restart keeps within what the GPT can count.                      *)
Counts == {Never} \cup 0 .. GPT_MAX_TIMEOUT

LEMMA ShotIs ==
    ASSUME NEW t \in Int, t <= MaxTime, timer_shot_timeout(t)
    PROVE  unshot' \in 0 .. MaxTime /\ gpt' \in Counts /\ gpt' # Never
BY GptAssumption, Sizes, SMT DEF timer_shot_timeout, gpt_oneshot_timeout, Counts, Never

LEMMA RestartIs ==
    ASSUME NEW t, InRange(t), NEW left \in Counts, unshot \in 0 .. MaxTime,
           timer_restart(t, left)
    PROVE  /\ unshot' \in 0 .. MaxTime /\ gpt' \in Counts
           /\ TIMER_SHOT(t) => gpt' # Never
<1>1. CASE TIMER_SHOT(t)
  <2>1. TIMER_TIME(t) \in Int /\ TIMER_TIME(t) <= U
    BY TimeType DEF InRange
  <2>2. TIMER_TIME(t) <= MaxTime
    BY <2>1, Sizes, SMT
  <2>3. timer_shot_timeout(TIMER_TIME(t))
    BY <1>1 DEF timer_restart
  <2> QED BY <2>1, <2>2, <2>3, ShotIs
<1>2. CASE ~ TIMER_SHOT(t)
  BY <1>2 DEF timer_restart
<1> QED BY <1>1, <1>2

(* The shot timers are never beyond U.                                     *)
LEMMA ShotsShort ==
    ASSUME IInv
    PROVE  \A t \in Shots(orders, timeouts) : TIMER_TIME(timeouts[t]) <= U
BY DEF IInv, TimeInv, Settled, Pending, SettledBy, PendingBy

-----------------------------------------------------------------------------
LEMMA InitIInv == ShortTouts /\ Init => IInv
<1> SUFFICES ASSUME ShortTouts, Init PROVE IInv
  OBVIOUS
<1>1. TypeOK
  <2>1. timeouts \in [Tids -> Timeouts] /\ timeout \in Timeouts
    BY IdleIs DEF Init
  <2>2. unshot \in 0 .. MaxTime /\ since \in 0 .. MaxSpan
    BY Sizes, SMT DEF Init, ShortTouts
  <2> QED BY <2>1, <2>2 DEF Init, TypeOK
<1>2. Packed(orders)
  <2>1. NR_TIMERS \in Slots
    BY TimersAssumption, SMT DEF Slots
  <2>2. orders \in Queues /\ \A i \in Slots : orders[i] = INVALID_TID
    BY DEF Init, Queues, Slots
  <2> QED BY <2>1, <2>2 DEF Packed
<1>3. Queued(orders) = {}
  <2>1. ASSUME NEW i \in Slots PROVE orders[i] \notin Tids
    BY TimersAssumption, SMT DEF Init, Slots, Tids, INVALID_TID
  <2> QED BY <1>2, <2>1, QueuedIs
<1>4. Shots(orders, timeouts) = {}
  BY <1>3 DEF Shots
<1>5. Ordered(orders, timeouts)
  BY DEF Init, Ordered, Slots
<1>6. InRange(timeout)
  BY IdleIs, Sizes, SMT DEF Init, InRange, ShortTouts
<1>7. QInv /\ DueInv
  BY <1>2, <1>3, <1>5 DEF QInv, DueInv, Valued
<1>8. QueueIsScheduled
  BY <1>3 DEF QueueIsScheduled, Init
<1>9. TimeInv /\ Armed
  BY <1>4, <1>6 DEF TimeInv, Armed, Settled
<1> QED BY <1>1, <1>7, <1>8, <1>9 DEF IInv

LEMMA RegisterInv ==
    ASSUME IInv, NEW tid \in Tids, NEW k \in Kinds, timer_register(tid, k)
    PROVE  IInv'
<1>1. TypeOK'
  BY IdleIs, KindsAssumption DEF IInv, TypeOK, timer_register
<1>2. /\ orders' = orders /\ timeout' = timeout /\ gpt' = gpt /\ awake' = awake
      /\ pc' = pc /\ due' = due
  BY DEF timer_register
<1>3. tid \notin Queued(orders)
  BY DEF IInv, QInv, Registered, timer_register
<1>4. ASSUME NEW t \in Queued(orders)
      PROVE  timeouts'[t] = timeouts[t] /\ kind'[t] = kind[t] /\ t \in Tids
  <2>1. t \in Tids /\ t # tid
    BY <1>3, QueuedIs DEF IInv, QInv
  <2> QED BY <2>1 DEF timer_register, IInv, TypeOK
<1>5. Packed(orders)
  BY DEF IInv, QInv
<1>6. /\ Shots(orders, timeouts') = Shots(orders, timeouts)
      /\ Ordered(orders, timeouts') /\ Valued(orders, timeouts')
      /\ \A tout : Settled(orders, timeouts, tout) => Settled(orders, timeouts', tout)
      /\ \A tout : Pending(orders, timeouts, tout) => Pending(orders, timeouts', tout)
  BY <1>4, <1>5, Same DEF IInv, QInv
<1>7. QInv'
  BY <1>2, <1>4, <1>5, <1>6 DEF IInv, QInv, Registered
<1>8. DueInv'
  BY <1>2, <1>4 DEF IInv, DueInv, BhSide, IrqSide
<1>9. TimeInv' /\ Armed'
  BY <1>2, <1>6 DEF IInv, TimeInv, Armed, BhSide
<1>10. QueueIsScheduled'
  BY <1>2 DEF IInv, QueueIsScheduled
<1> QED BY <1>1, <1>7, <1>8, <1>9, <1>10 DEF IInv

LEMMA UnregisterInv ==
    ASSUME IInv, NEW tid \in Tids, timer_unregister(tid)
    PROVE  IInv'
<1>1. Packed(orders) /\ Ordered(orders, timeouts) /\ Valued(orders, timeouts)
  BY DEF IInv, QInv
<1>2. /\ orders' = timer_del(orders, tid) /\ timeouts' = timeouts /\ timeout' = timeout
      /\ gpt' = gpt /\ awake' = awake /\ pc' = pc
      /\ kind' = [kind EXCEPT ![tid] = "none"] /\ due' = [due EXCEPT ![tid] = Never]
  BY DEF timer_unregister
<1>3. /\ Packed(orders') /\ Ordered(orders', timeouts) /\ Valued(orders', timeouts)
      /\ Queued(orders') = Queued(orders) \ {tid}
      /\ Shots(orders', timeouts) \subseteq Shots(orders, timeouts)
      /\ \A tout : Settled(orders, timeouts, tout) => Settled(orders', timeouts, tout)
      /\ \A tout : Pending(orders, timeouts, tout) => Pending(orders', timeouts, tout)
  BY <1>1, <1>2, Fewer
<1>4. kind \in [Tids -> {"none", "BH", "IRQ"}] /\ due \in [Tids -> {Never} \cup 0 .. MaxTime]
  BY DEF IInv, TypeOK
<1>5. TypeOK'
  <2>1. orders' \in [0 .. NR_TIMERS -> Tids \cup {INVALID_TID}]
    BY <1>3 DEF Packed, Queues, Slots
  <2> QED BY <2>1 DEF IInv, TypeOK, timer_unregister
<1>6. ASSUME NEW t \in Queued(orders')
      PROVE  t \in Queued(orders) /\ t \in Tids /\ t # tid /\ kind'[t] = kind[t]
  <2>1. t \in Queued(orders) /\ t \in Tids /\ t # tid
    BY <1>1, <1>3, QueuedIs
  <2> QED BY <1>2, <1>4, <2>1
<1>7. QInv'
  BY <1>2, <1>3, <1>6 DEF IInv, QInv, Registered
<1>8. DueInv'
  BY <1>2, <1>6 DEF IInv, DueInv, BhSide, IrqSide
<1>9. TimeInv' /\ Armed'
  <2>1. TimeInv'
    BY <1>2, <1>3 DEF IInv, TimeInv, BhSide
  <2>2. Armed'
    BY <1>2, <1>3 DEF IInv, Armed, BhSide
  <2> QED BY <2>1, <2>2
<1>10. QueueIsScheduled'
  <2>1. ASSUME NEW t \in Tids PROVE due'[t] # Never <=> due[t] # Never /\ t # tid
    BY <1>2, <1>4
  <2>2. {t \in Tids : due'[t] # Never} = {t \in Tids : due[t] # Never} \ {tid}
    BY <2>1
  <2>3. Queued(orders') = {t \in Tids : due'[t] # Never}
    BY <1>3, <2>2 DEF IInv, QueueIsScheduled
  <2> QED BY <2>3 DEF QueueIsScheduled
<1> QED BY <1>5, <1>7, <1>8, <1>9, <1>10 DEF IInv


LEMMA ScheduleInv ==
    ASSUME IInv, ShortTouts, NEW tid \in Tids, NEW tout_ms \in Touts,
           timer_schedule_shot(tid, tout_ms)
    PROVE  IInv'
<1> DEFINE ms == IF tout_ms <= 0 THEN 1 ELSE tout_ms
<1>1. ms \in 1 .. U /\ ms \in 0 .. MaxTime /\ 1 <= U
  BY Sizes, SMT DEF ShortTouts
<1>2. /\ Packed(orders) /\ Ordered(orders, timeouts) /\ Valued(orders, timeouts)
      /\ timeouts \in [Tids -> Timeouts] /\ since \in Nat
  <2>1. since \in Nat
    BY Sizes, SMT DEF IInv, TypeOK
  <2> QED BY <2>1 DEF IInv, QInv, TypeOK
<1>3. \A t \in Shots(orders, timeouts) : TIMER_TIME(timeouts[t]) <= U
  BY ShotsShort
<1> DEFINE rest  == timer_del(orders, tid)
           left  == Recalc(rest, timeouts, FALSE, since)
           first == FirstShot(rest, left)
           new   == [left EXCEPT ![tid] = TIMER_MAKE(ms)]
           q     == timer_add(rest, tid, Times(new))
           tout  == IF ~TIMER_SHOT(first) \/ ms < TIMER_TIME(first) THEN new[tid] ELSE first
<1>4. /\ Packed(q) /\ Queued(q) = Queued(orders) \cup {tid}
      /\ new \in [Tids -> Timeouts] /\ new[tid] # TIMER_IDLE
      /\ \A t \in Tids \ {tid} : new[t] = TIMER_IDLE <=> timeouts[t] = TIMER_IDLE
      /\ Ordered(q, new) /\ Valued(q, new)
      /\ InRange(tout) /\ TIMER_SHOT(tout) /\ Settled(q, new, tout)
  <2> HIDE DEF ms
  <2> QED BY <1>1, <1>2, <1>3, ScheduleIs
<1>5. /\ timeouts' = new /\ orders' = q /\ timeout' = tout /\ since' = 0
      /\ timer_restart(tout, gpt)
      /\ due' = [due EXCEPT ![tid] = ms] /\ tid \in Registered
      /\ kind' = kind /\ awake' = awake /\ running' = running /\ pc' = pc
  <2>1. /\ timeouts' = new /\ since' = 0 /\ due' = [due EXCEPT ![tid] = ms]
        /\ tid \in Registered
        /\ kind' = kind /\ awake' = awake /\ running' = running /\ pc' = pc
    BY DEF timer_schedule_shot, Span
  <2>2. /\ orders' = timer_add(rest, tid, Times(timeouts'))
        /\ timeout' = IF ~TIMER_SHOT(first) \/ ms < TIMER_TIME(first)
                      THEN timeouts'[tid] ELSE first
        /\ timer_restart(timeout', gpt)
    BY SMT DEF timer_schedule_shot, Span
  <2> HIDE DEF rest, left, first, new, ms
  <2>3. orders' = q /\ timeout' = tout
    BY <2>1, <2>2
  <2> HIDE DEF tout, q
  <2> QED BY <2>1, <2>2, <2>3
<1> HIDE DEF rest, left, first, new, q, tout, ms
<1>6. unshot' \in 0 .. MaxTime /\ gpt' \in Counts /\ gpt' # Never
  <2>1. gpt \in Counts /\ unshot \in 0 .. MaxTime
    BY DEF IInv, TypeOK, Counts
  <2> QED BY <1>4, <1>5, <2>1, RestartIs
<1>7. TypeOK'
  <2>1. orders' \in [0 .. NR_TIMERS -> Tids \cup {INVALID_TID}]
    BY <1>4, <1>5 DEF Packed, Queues, Slots
  <2>2. due' \in [Tids -> {Never} \cup 0 .. MaxTime]
    BY <1>1, <1>5 DEF IInv, TypeOK
  <2>3. timeout' \in Timeouts /\ timeouts' \in [Tids -> Timeouts]
    BY <1>4, <1>5 DEF InRange
  <2>4. since' \in 0 .. MaxSpan
    BY <1>1, <1>5, Sizes, SMT
  <2> QED BY <1>5, <1>6, <2>1, <2>2, <2>3, <2>4 DEF IInv, TypeOK, Counts
<1>8. QInv'
  <2>1. Queued(orders) \subseteq Registered /\ Registered' = Registered
    BY <1>5 DEF IInv, QInv, Registered
  <2>2. Queued(orders') \subseteq Registered'
    BY <1>4, <1>5, <2>1
  <2> QED BY <1>4, <1>5, <2>2 DEF QInv
<1>9. DueInv'
  <2> SUFFICES ASSUME NEW t \in Queued(orders'), timeouts'[t] = TIMER_IDLE
               PROVE  (IF kind[t] = "BH" THEN BhSide ELSE IrqSide)
    BY <1>5 DEF DueInv, BhSide, IrqSide
  <2>1. t # tid /\ t \in Queued(orders) /\ t \in Tids
    BY <1>2, <1>4, <1>5, QueuedIs
  <2>2. timeouts[t] = TIMER_IDLE
    BY <1>4, <1>5, <2>1
  <2> QED BY <2>1, <2>2 DEF IInv, DueInv
<1>10. TimeInv' /\ Armed'
  BY <1>4, <1>5, <1>6 DEF TimeInv, Armed
<1>11. QueueIsScheduled'
  <2>1. due \in [Tids -> {Never} \cup 0 .. MaxTime] /\ ms # Never
    BY <1>1, Sizes, SMT DEF IInv, TypeOK, Never
  <2>2. ASSUME NEW t \in Tids PROVE due'[t] # Never <=> due[t] # Never \/ t = tid
    BY <1>5, <2>1
  <2>3. {t \in Tids : due'[t] # Never} = {t \in Tids : due[t] # Never} \cup {tid}
    BY <2>2
  <2>4. Queued(orders') = {t \in Tids : due'[t] # Never}
    BY <1>4, <1>5, <2>3 DEF IInv, QueueIsScheduled
  <2> QED BY <2>4 DEF QueueIsScheduled
<1> QED BY <1>7, <1>8, <1>9, <1>10, <1>11 DEF IInv

(* timer_recalc_timeout(true), in a state where it settles the queue.      *)
LEMMA RecalcInv ==
    ASSUME Packed(orders), NEW touts \in [Tids -> Timeouts], InRange(timeout),
           Ordered(orders, touts), Valued(orders, touts),
           Settled(orders, touts, timeout) \/ Pending(orders, touts, timeout),
           NEW left \in Counts, unshot \in 0 .. MaxTime, orders' = orders,
           timer_recalc_timeout(touts, left)
    PROVE  /\ timeouts' \in [Tids -> Timeouts] /\ timeout' \in Timeouts
           /\ since' \in 0 .. MaxSpan /\ unshot' \in 0 .. MaxTime /\ gpt' \in Counts
           /\ Ordered(orders', timeouts') /\ Valued(orders', timeouts')
           /\ \A t \in Tids : timeouts'[t] = TIMER_IDLE <=> touts[t] = TIMER_IDLE
           /\ InRange(timeout') /\ Settled(orders', timeouts', timeout')
           /\ gpt' = Never => Shots(orders', timeouts') = {}
<1> DEFINE new   == Recalc(orders, touts, TRUE, TIMER_TIME(timeout))
           first == FirstShot(orders, new)
<1>1. /\ new \in [Tids -> Timeouts]
      /\ Ordered(orders, new) /\ Valued(orders, new)
      /\ \A t \in Tids : new[t] = TIMER_IDLE <=> touts[t] = TIMER_IDLE
      /\ InRange(first) /\ Settled(orders, new, first)
      /\ Shots(orders, new) = Shots(orders, touts)
      /\ TIMER_SHOT(first) <=> Shots(orders, new) # {}
  BY RecalcTrue
<1>2. timeouts' = new /\ timeout' = first /\ since' = 0 /\ timer_restart(first, left)
  BY DEF timer_recalc_timeout
<1> HIDE DEF new, first
<1>3. unshot' \in 0 .. MaxTime /\ gpt' \in Counts /\ (TIMER_SHOT(first) => gpt' # Never)
  BY <1>1, <1>2, RestartIs
<1>4. since' \in 0 .. MaxSpan
  BY <1>2, Sizes, MaxAssumption, SMT DEF MaxTime
<1> QED BY <1>1, <1>2, <1>3, <1>4 DEF InRange

LEMMA RunEndInv ==
    ASSUME IInv, RunEnd
    PROVE  IInv'
<1>1. Packed(orders) /\ Ordered(orders, timeouts) /\ Valued(orders, timeouts)
  BY DEF IInv, QInv
<1>2. \A t \in Queued(orders) : timeouts[t] # TIMER_IDLE /\ t \in Tids
  <2>1. orders[0] = INVALID_TID \/ timeouts[orders[0]] # TIMER_IDLE
    BY DEF RunEnd, HeadDue
  <2>2. \A t \in Queued(orders) : timeouts[t] # TIMER_IDLE
    BY <1>1, <2>1, NoneDue
  <2>3. Queued(orders) \subseteq Tids
    BY DEF IInv, QInv, Registered
  <2> QED BY <2>2, <2>3
<1>3. /\ pc' = "idle" /\ kind' = kind /\ orders' = orders /\ awake' = awake
      /\ running' = running /\ due' = due
  BY DEF RunEnd
<1>4. QueueIsScheduled'
  BY <1>3 DEF IInv, QueueIsScheduled
<1>5. Queued(orders') \subseteq Registered'
  BY <1>3 DEF IInv, QInv, Registered
<1>6. CASE pc = "bh"
  <2>1. timer_recalc_timeout(timeouts, gpt)
    BY <1>6 DEF RunEnd
  <2>2. /\ timeouts \in [Tids -> Timeouts] /\ InRange(timeout) /\ gpt \in Counts
        /\ unshot \in 0 .. MaxTime
        /\ Settled(orders, timeouts, timeout) \/ Pending(orders, timeouts, timeout)
    BY DEF IInv, TypeOK, TimeInv, Counts
  <2>3. /\ timeouts' \in [Tids -> Timeouts] /\ timeout' \in Timeouts
        /\ since' \in 0 .. MaxSpan /\ unshot' \in 0 .. MaxTime /\ gpt' \in Counts
        /\ Ordered(orders', timeouts') /\ Valued(orders', timeouts')
        /\ \A t \in Tids : timeouts'[t] = TIMER_IDLE <=> timeouts[t] = TIMER_IDLE
        /\ InRange(timeout') /\ Settled(orders', timeouts', timeout')
        /\ gpt' = Never => Shots(orders', timeouts') = {}
    BY <1>1, <1>3, <2>1, <2>2, RecalcInv
  <2>4. TypeOK'
    BY <1>3, <2>3 DEF IInv, TypeOK, Counts
  <2>5. QInv'
    BY <1>1, <1>3, <1>5, <2>3 DEF QInv
  <2>6. DueInv'
    BY <1>2, <1>3, <2>3 DEF DueInv
  <2>7. TimeInv' /\ Armed'
    BY <2>3 DEF TimeInv, Armed
  <2> QED BY <1>4, <2>4, <2>5, <2>6, <2>7 DEF IInv
<1>7. CASE pc # "bh"
  <2>1. /\ timeouts' = timeouts /\ timeout' = timeout /\ unshot' = unshot
        /\ since' = since /\ gpt' = gpt /\ pc = "irq"
    BY <1>7 DEF RunEnd, Running
  <2>2. BhSide => BhSide'
    BY <1>3, <2>1 DEF BhSide
  <2>3. TypeOK'
    BY <1>3, <2>1 DEF IInv, TypeOK
  <2>4. QInv'
    BY <1>1, <1>3, <1>5, <2>1 DEF QInv
  <2>5. DueInv'
    BY <1>2, <1>3, <2>1 DEF DueInv
  <2>6. TimeInv'
    BY <1>3, <2>1, <2>2 DEF IInv, TimeInv
  <2>7. Armed'
    BY <1>3, <2>1, <2>2 DEF IInv, Armed
  <2> QED BY <1>4, <2>3, <2>4, <2>5, <2>6, <2>7 DEF IInv
<1> QED BY <1>6, <1>7

LEMMA RunInv ==
    ASSUME IInv, NEW tid \in Tids, timer_run(tid)
    PROVE  IInv'
<1>1. Packed(orders) /\ Ordered(orders, timeouts) /\ Valued(orders, timeouts)
  BY DEF IInv, QInv
<1>2. /\ orders' = timer_del(orders, tid) /\ timeouts' = timeouts /\ timeout' = timeout
      /\ gpt' = gpt /\ awake' = awake /\ kind' = kind /\ due' = [due EXCEPT ![tid] = Never]
      /\ running' = tid /\ unshot' = unshot /\ since' = since
      /\ pc \in {"bh", "irq"}
      /\ pc' = IF pc = "bh" THEN "bhHandler" ELSE "irqHandler"
  BY DEF timer_run, Running
<1>3. /\ Packed(orders') /\ Ordered(orders', timeouts) /\ Valued(orders', timeouts)
      /\ Queued(orders') = Queued(orders) \ {tid}
      /\ Shots(orders', timeouts) \subseteq Shots(orders, timeouts)
      /\ \A tout : Settled(orders, timeouts, tout) => Settled(orders', timeouts, tout)
      /\ \A tout : Pending(orders, timeouts, tout) => Pending(orders', timeouts, tout)
  BY <1>1, <1>2, Fewer
<1>4. due \in [Tids -> {Never} \cup 0 .. MaxTime]
  BY DEF IInv, TypeOK
<1>5. (BhSide => BhSide') /\ (IrqSide => IrqSide')
  BY <1>2 DEF BhSide, IrqSide
<1>6. TypeOK'
  <2>1. orders' \in [0 .. NR_TIMERS -> Tids \cup {INVALID_TID}]
    BY <1>3 DEF Packed, Queues, Slots
  <2>2. pc' \in {"idle", "bh", "irq", "bhHandler", "irqHandler"}
    BY <1>2
  <2>3. due' \in [Tids -> {Never} \cup 0 .. MaxTime]
    BY <1>2, <1>4
  <2> QED BY <1>2, <2>1, <2>2, <2>3 DEF IInv, TypeOK
<1>7. QInv'
  BY <1>2, <1>3 DEF IInv, QInv, Registered
<1>8. DueInv'
  BY <1>2, <1>3, <1>5 DEF IInv, DueInv
<1>9. TimeInv'
  BY <1>2, <1>3, <1>5 DEF IInv, TimeInv
<1>10. Armed'
  BY <1>2, <1>3, <1>5 DEF IInv, Armed
<1>11. QueueIsScheduled'
  <2>1. ASSUME NEW t \in Tids PROVE due'[t] # Never <=> due[t] # Never /\ t # tid
    BY <1>2, <1>4
  <2>2. {t \in Tids : due'[t] # Never} = {t \in Tids : due[t] # Never} \ {tid}
    BY <2>1
  <2>3. Queued(orders') = {t \in Tids : due'[t] # Never}
    BY <1>3, <2>2 DEF IInv, QueueIsScheduled
  <2> QED BY <2>3 DEF QueueIsScheduled
<1> QED BY <1>6, <1>7, <1>8, <1>9, <1>10, <1>11 DEF IInv

(* timer_irq_timeout takes timer_timeout off every shot timer; those that  *)
(* have nothing left are due.                                              *)
Lapsed == [t \in Tids |->
              IF Expired(t) THEN TIMER_IDLE
              ELSE IF t \in Queued(orders) /\ TIMER_SHOT(timeouts[t])
              THEN TIMER_MAKE(TIMER_TIME(timeouts[t]) - TIMER_TIME(timeout))
              ELSE timeouts[t]]

LEMMA LapsedIs ==
    ASSUME Packed(orders), timeouts \in [Tids -> Timeouts], InRange(timeout),
           Ordered(orders, timeouts), Valued(orders, timeouts),
           Settled(orders, timeouts, timeout)
    PROVE  /\ Lapsed \in [Tids -> Timeouts]
           /\ Ordered(orders, Lapsed) /\ Valued(orders, Lapsed)
           /\ \A t \in Tids : Lapsed[t] = TIMER_IDLE <=> timeouts[t] = TIMER_IDLE \/ Expired(t)
           /\ Pending(orders, Lapsed, timeout)
<1> DEFINE T == TIMER_TIME(timeout)
           x(t) == TIMER_TIME(timeouts[t])
           shots == Shots(orders, timeouts)
<1>1. T \in Int /\ -U <= T /\ T <= U /\ U \in Int
  BY Sizes, TimeType DEF InRange
<1>2. ASSUME NEW t \in shots
      PROVE  /\ t \in Tids /\ t \in Queued(orders) /\ TIMER_SHOT(timeouts[t])
             /\ timeouts[t] # TIMER_IDLE
             /\ x(t) \in Int /\ SettledBy(x(t), T)
  <2>1. t \in Tids /\ t \in Queued(orders) /\ TIMER_SHOT(timeouts[t])
    BY QueuedIs DEF Shots
  <2> QED BY <2>1, TimeType DEF Settled
<1>3. ASSUME NEW t \in Tids PROVE Expired(t) <=> t \in shots /\ T >= x(t)
  BY DEF Expired, Shots
<1>4. ASSUME NEW t \in Tids, Expired(t) PROVE Lapsed[t] = TIMER_IDLE
  BY <1>4 DEF Lapsed
<1>5. ASSUME NEW t \in Tids, t \notin shots PROVE Lapsed[t] = timeouts[t]
  BY <1>5 DEF Lapsed, Expired, Shots
<1>6. ASSUME NEW t \in shots, ~ Expired(t) PROVE Lapsed[t] = TIMER_MAKE(x(t) - T)
  BY <1>2, <1>6 DEF Lapsed
<1> HIDE DEF x, T, shots
<1>7. ASSUME NEW t \in shots, ~ Expired(t)
      PROVE  x(t) - T \in Int /\ -U <= x(t) - T /\ x(t) - T <= U /\ PendingBy(x(t) - T, T)
  BY <1>1, <1>2, <1>3, <1>7, SMT DEF SettledBy, PendingBy
<1>8. ASSUME NEW t \in shots, ~ Expired(t)
      PROVE  /\ Lapsed[t] \in Timeouts /\ TIMER_SHOT(Lapsed[t]) /\ Lapsed[t] # TIMER_IDLE
             /\ TIMER_TIME(Lapsed[t]) = x(t) - T
  BY <1>6, <1>7, <1>8, MakeIs
<1>9. Lapsed \in [Tids -> Timeouts]
  <2>1. Lapsed = [t \in Tids |-> Lapsed[t]]
    BY DEF Lapsed
  <2>2. ASSUME NEW t \in Tids PROVE Lapsed[t] \in Timeouts
    BY <1>4, <1>5, <1>8, IdleIs
  <2> QED BY <2>1, <2>2
<1>10. ASSUME NEW t \in Tids
       PROVE  Lapsed[t] = TIMER_IDLE <=> timeouts[t] = TIMER_IDLE \/ Expired(t)
  BY <1>2, <1>3, <1>4, <1>5, <1>8
<1>11. ASSUME NEW t \in Queued(orders), Lapsed[t] # TIMER_IDLE
       PROVE  t \in shots /\ ~ Expired(t)
  <2>1. t \in Tids
    BY QueuedIs
  <2>2. timeouts[t] # TIMER_IDLE /\ ~ Expired(t)
    BY <1>10, <1>11, <2>1
  <2> QED BY <2>2 DEF shots, Shots, Valued
<1>12. Valued(orders, Lapsed)
  BY <1>8, <1>11 DEF Valued
<1>13. Ordered(orders, Lapsed)
  <2>1. ASSUME NEW s \in Queued(orders), NEW t \in Queued(orders), Lapsed[s] # TIMER_IDLE,
               timeouts[s] # TIMER_IDLE, timeouts[t] # TIMER_IDLE, x(s) <= x(t)
        PROVE  Lapsed[t] # TIMER_IDLE /\ TIMER_TIME(Lapsed[s]) <= TIMER_TIME(Lapsed[t])
    <3>1. s \in shots /\ t \in shots /\ ~ Expired(s) /\ t \in Tids /\ s \in Tids
      BY <1>11, <2>1, <1>2 DEF shots, Shots, Valued
    <3>2. ~ Expired(t) /\ x(s) - T <= x(t) - T
      BY <1>1, <1>2, <1>3, <2>1, <3>1, SMT
    <3> QED BY <1>8, <3>1, <3>2
  <2>2. ASSUME NEW t \in Queued(orders), timeouts[t] = TIMER_IDLE PROVE Lapsed[t] = TIMER_IDLE
    BY <1>10, <2>2, QueuedIs
  <2>3. Keeps(orders, timeouts, Lapsed)
    BY <2>1, <2>2 DEF Keeps, x
  <2> QED BY <2>3, KeepsOrder
<1>14. Pending(orders, Lapsed, timeout)
  <2> SUFFICES ASSUME NEW t \in Shots(orders, Lapsed)
               PROVE  PendingBy(TIMER_TIME(Lapsed[t]), T)
    BY DEF Pending, T
  <2>1. t \in Queued(orders) /\ TIMER_SHOT(Lapsed[t])
    BY DEF Shots
  <2>2. Lapsed[t] # TIMER_IDLE
    BY <2>1, IdleIs
  <2> QED BY <1>7, <1>8, <1>11, <2>1, <2>2
<1> QED BY <1>9, <1>10, <1>12, <1>13, <1>14

LEMMA IrqTimeoutInv ==
    ASSUME IInv, pc = "idle", gpt = 0, timer_irq_timeout,
           kind' = kind, orders' = orders, running' = running, due' = due
    PROVE  IInv'
<1> DEFINE run_bh  == \E t \in Tids : Expired(t) /\ kind[t] = "BH"
           run_irq == \E t \in Tids : Expired(t) /\ kind[t] = "IRQ"
<1>1. /\ Packed(orders) /\ Ordered(orders, timeouts) /\ Valued(orders, timeouts)
      /\ timeouts \in [Tids -> Timeouts] /\ InRange(timeout)
      /\ awake \in BOOLEAN /\ unshot \in 0 .. MaxTime
  BY DEF IInv, QInv, TypeOK, TimeInv
<1>2. Settled(orders, timeouts, timeout)
  <2>1. gpt # Never
    BY SMT DEF Never
  <2> QED BY <2>1 DEF IInv, TimeInv
<1>3. /\ Lapsed \in [Tids -> Timeouts]
      /\ Ordered(orders, Lapsed) /\ Valued(orders, Lapsed)
      /\ \A t \in Tids : Lapsed[t] = TIMER_IDLE <=> timeouts[t] = TIMER_IDLE \/ Expired(t)
      /\ Pending(orders, Lapsed, timeout)
  BY <1>1, <1>2, LapsedIs
<1>4. /\ awake' = (awake \/ run_bh)
      /\ pc' = IF run_irq THEN "irq" ELSE "idle"
      /\ IF run_bh
         THEN timeouts' = Lapsed /\ gpt' = Never /\ timeout' = timeout
              /\ since' = since /\ unshot' = unshot
         ELSE timer_recalc_timeout(Lapsed, Never)
  BY DEF timer_irq_timeout, Lapsed
<1>5. QueueIsScheduled'
  BY DEF IInv, QueueIsScheduled
<1>6. Queued(orders') \subseteq Registered'
  BY DEF IInv, QInv, Registered
<1>7. awake' \in BOOLEAN /\ pc' \in {"idle", "bh", "irq", "bhHandler", "irqHandler"}
  BY <1>1, <1>4
<1>8. ASSUME NEW t \in Queued(orders), timeouts[t] = TIMER_IDLE \/ Expired(t)
      PROVE  IF kind[t] = "BH" THEN BhSide' ELSE IrqSide'
  <2>1. t \in Tids /\ kind[t] \in {"BH", "IRQ"}
    BY <1>1, QueuedIs DEF IInv, QInv, Registered, TypeOK
  <2>2. CASE Expired(t)
    BY <1>4, <2>1, <2>2 DEF BhSide, IrqSide
  <2>3. CASE timeouts[t] = TIMER_IDLE
    <3>1. ~ IrqSide /\ (BhSide => awake)
      BY DEF IrqSide, BhSide
    <3>2. kind[t] = "BH" /\ awake
      BY <2>3, <3>1 DEF IInv, DueInv
    <3> QED BY <1>4, <3>2 DEF BhSide
  <2> QED BY <1>8, <2>2, <2>3
<1>9. ASSUME NEW t \in Tids
      PROVE  Lapsed[t] = TIMER_IDLE <=> timeouts[t] = TIMER_IDLE \/ Expired(t)
  BY <1>3
<1>10. CASE run_bh
  <2>1. /\ timeouts' = Lapsed /\ gpt' = Never /\ timeout' = timeout
        /\ since' = since /\ unshot' = unshot /\ awake'
    BY <1>4, <1>10
  <2>2. TypeOK'
    BY <1>3, <1>7, <2>1 DEF IInv, TypeOK
  <2>3. QInv'
    BY <1>1, <1>3, <1>6, <2>1 DEF QInv
  <2>4. DueInv'
    BY <1>1, <1>8, <1>9, <2>1, QueuedIs DEF DueInv
  <2>5. TimeInv' /\ Armed'
    BY <1>1, <1>3, <2>1 DEF TimeInv, Armed, BhSide
  <2> QED BY <1>5, <2>2, <2>3, <2>4, <2>5 DEF IInv
<1>11. CASE ~ run_bh
  <2>1. timer_recalc_timeout(Lapsed, Never) /\ Never \in Counts
    BY <1>4, <1>11 DEF Counts
  <2>2. /\ timeouts' \in [Tids -> Timeouts] /\ timeout' \in Timeouts
        /\ since' \in 0 .. MaxSpan /\ unshot' \in 0 .. MaxTime /\ gpt' \in Counts
        /\ Ordered(orders', timeouts') /\ Valued(orders', timeouts')
        /\ \A t \in Tids : timeouts'[t] = TIMER_IDLE <=> Lapsed[t] = TIMER_IDLE
        /\ InRange(timeout') /\ Settled(orders', timeouts', timeout')
        /\ gpt' = Never => Shots(orders', timeouts') = {}
    BY <1>1, <1>3, <2>1, RecalcInv
  <2>3. TypeOK'
    BY <1>7, <2>2 DEF IInv, TypeOK, Counts
  <2>4. QInv'
    BY <1>1, <1>6, <2>2 DEF QInv
  <2>5. DueInv'
    BY <1>1, <1>8, <1>9, <2>2, QueuedIs DEF DueInv
  <2>6. TimeInv' /\ Armed'
    BY <2>2 DEF TimeInv, Armed
  <2> QED BY <1>5, <2>3, <2>4, <2>5, <2>6 DEF IInv
<1> QED BY <1>10, <1>11

(* A step that leaves the queue and the timeouts alone.                    *)
LEMMA CalmInv ==
    ASSUME IInv, TypeOK', kind' = kind, timeouts' = timeouts, orders' = orders,
           timeout' = timeout, QueueIsScheduled',
           BhSide => BhSide', IrqSide => IrqSide',
           gpt = Never => gpt' = Never,
           gpt' = Never => Shots(orders, timeouts) = {} \/ BhSide'
    PROVE  IInv'
<1>1. QInv'
  BY DEF IInv, QInv, Registered
<1>2. DueInv'
  BY DEF IInv, DueInv
<1>3. TimeInv'
  BY DEF IInv, TimeInv
<1>4. Armed'
  BY DEF Armed
<1> QED BY <1>1, <1>2, <1>3, <1>4 DEF IInv

LEMMA TickHandlerInv ==
    ASSUME IInv, tick_handler
    PROVE  IInv'
<1>1. /\ pc = "idle" /\ gpt = 0 /\ gpt # Never
      /\ kind' = kind /\ orders' = orders /\ running' = running /\ due' = due
  <2>1. 0 # Never
    BY SMT DEF Never
  <2> QED BY <2>1 DEF tick_handler
<1>2. QueueIsScheduled'
  BY <1>1 DEF IInv, QueueIsScheduled
<1>3. CASE unshot # 0
  <2>1. /\ timer_shot_timeout(unshot)
        /\ timeouts' = timeouts /\ timeout' = timeout /\ since' = since
        /\ awake' = awake /\ pc' = pc
    BY <1>3 DEF tick_handler
  <2>2. unshot \in Int /\ unshot <= MaxTime
    BY Sizes, SMT DEF IInv, TypeOK
  <2>3. unshot' \in 0 .. MaxTime /\ gpt' \in Counts /\ gpt' # Never
    BY <2>1, <2>2, ShotIs
  <2>4. TypeOK'
    BY <1>1, <2>1, <2>3 DEF IInv, TypeOK, Counts
  <2> QED BY <1>1, <1>2, <2>1, <2>3, <2>4, CalmInv DEF BhSide, IrqSide
<1>4. CASE unshot = 0 /\ ~ TIMER_SHOT(timeout)
  <2>1. /\ gpt' = Never /\ timeouts' = timeouts /\ timeout' = timeout /\ since' = since
        /\ unshot' = unshot /\ awake' = awake /\ pc' = pc
    BY <1>4 DEF tick_handler
  <2>2. TypeOK'
    BY <1>1, <2>1 DEF IInv, TypeOK
  <2>3. Shots(orders, timeouts) = {}
    BY <1>1, <1>4 DEF IInv, TimeInv, Settled
  <2> QED BY <1>1, <1>2, <2>1, <2>2, <2>3, CalmInv DEF BhSide, IrqSide
<1>5. CASE unshot = 0 /\ TIMER_SHOT(timeout)
  <2>1. timer_irq_timeout
    BY <1>5 DEF tick_handler
  <2> QED BY <1>1, <2>1, IrqTimeoutInv
<1> QED BY <1>3, <1>4, <1>5

LEMMA BhHandlerInv ==
    ASSUME IInv, timer_bh_handler
    PROVE  IInv'
<1>1. /\ awake' = FALSE /\ pc' = "bh" /\ pc = "idle"
      /\ kind' = kind /\ timeouts' = timeouts /\ orders' = orders /\ timeout' = timeout
      /\ unshot' = unshot /\ since' = since /\ gpt' = gpt /\ running' = running /\ due' = due
  BY DEF timer_bh_handler
<1>2. TypeOK'
  BY <1>1 DEF IInv, TypeOK
<1>3. QueueIsScheduled'
  BY <1>1 DEF IInv, QueueIsScheduled
<1>4. BhSide' /\ ~ IrqSide
  BY <1>1 DEF BhSide, IrqSide
<1> QED BY <1>1, <1>2, <1>3, <1>4, CalmInv

LEMMA HandlerEndInv ==
    ASSUME IInv, HandlerEnd
    PROVE  IInv'
<1>1. /\ kind' = kind /\ timeouts' = timeouts /\ orders' = orders /\ timeout' = timeout
      /\ unshot' = unshot /\ since' = since /\ gpt' = gpt /\ due' = due /\ awake' = awake
      /\ running' = INVALID_TID /\ pc \in {"bhHandler", "irqHandler"}
      /\ pc' = IF pc = "bhHandler" THEN "bh" ELSE "irq"
  BY DEF HandlerEnd, Handling
<1>2. TypeOK'
  BY <1>1 DEF IInv, TypeOK
<1>3. QueueIsScheduled'
  BY <1>1 DEF IInv, QueueIsScheduled
<1>4. (BhSide => BhSide') /\ (IrqSide => IrqSide')
  BY <1>1 DEF BhSide, IrqSide
<1>5. gpt' = Never => Shots(orders, timeouts) = {} \/ BhSide'
  BY <1>1, <1>4 DEF IInv, Armed
<1> QED BY <1>1, <1>2, <1>3, <1>4, <1>5, CalmInv

LEMMA TickInv ==
    ASSUME IInv, Tick
    PROVE  IInv'
<1>1. /\ since' = IF since < MaxSpan THEN since + 1 ELSE since
      /\ gpt' = Down(gpt) /\ due' = [t \in Tids |-> Down(due[t])]
      /\ kind' = kind /\ timeouts' = timeouts /\ orders' = orders /\ timeout' = timeout
      /\ unshot' = unshot /\ awake' = awake /\ running' = running /\ pc' = pc
  BY DEF Tick
<1>2. ASSUME NEW n \in Nat, NEW x \in {Never} \cup 0 .. n
      PROVE  Down(x) \in {Never} \cup 0 .. n /\ (Down(x) = Never <=> x = Never)
  BY SMT DEF Down, Never
<1>3. due \in [Tids -> {Never} \cup 0 .. MaxTime] /\ MaxTime \in Nat
      /\ gpt \in {Never} \cup 0 .. GPT_MAX_TIMEOUT /\ GPT_MAX_TIMEOUT \in Nat
  BY Sizes, GptAssumption DEF IInv, TypeOK
<1>4. since' \in 0 .. MaxSpan
  <2>1. since \in 0 .. MaxSpan
    BY DEF IInv, TypeOK
  <2> QED BY <1>1, <2>1, Sizes, SMT
<1>5. ASSUME NEW t \in Tids
      PROVE  due'[t] \in {Never} \cup 0 .. MaxTime /\ (due'[t] = Never <=> due[t] = Never)
  <2>1. due[t] \in {Never} \cup 0 .. MaxTime /\ due'[t] = Down(due[t])
    BY <1>1, <1>3
  <2> DEFINE x == due[t]
             m == MaxTime
  <2>2. x \in {Never} \cup 0 .. m /\ m \in Nat /\ due'[t] = Down(x)
    BY <1>3, <2>1
  <2> HIDE DEF x, m
  <2>3. Down(x) \in {Never} \cup 0 .. m /\ (Down(x) = Never <=> x = Never)
    BY <1>2, <2>2
  <2> QED BY <2>2, <2>3, Zenon DEF x, m
<1>6. gpt' \in {Never} \cup 0 .. GPT_MAX_TIMEOUT /\ (gpt' = Never <=> gpt = Never)
  BY <1>1, <1>2, <1>3
<1>7. due' \in [Tids -> {Never} \cup 0 .. MaxTime]
  <2>1. due' = [t \in Tids |-> due'[t]]
    BY <1>1
  <2> QED BY <1>5, <2>1
<1>8. TypeOK'
  BY <1>1, <1>4, <1>6, <1>7 DEF IInv, TypeOK
<1>9. QueueIsScheduled'
  <2>1. {t \in Tids : due'[t] # Never} = {t \in Tids : due[t] # Never}
    BY <1>5
  <2> QED BY <1>1, <2>1 DEF IInv, QueueIsScheduled
<1>10. (BhSide => BhSide') /\ (IrqSide => IrqSide')
  BY <1>1 DEF BhSide, IrqSide
<1>11. gpt' = Never => Shots(orders, timeouts) = {} \/ BhSide'
  BY <1>6, <1>10 DEF IInv, Armed
<1> QED BY <1>1, <1>6, <1>8, <1>9, <1>10, <1>11, CalmInv

-----------------------------------------------------------------------------
LEMMA StepInv ==
    ASSUME ShortTouts, IInv, [Next]_vars
    PROVE  IInv'
<1>1. CASE tick_handler
  BY <1>1, TickHandlerInv
<1>2. CASE timer_bh_handler
  BY <1>2, BhHandlerInv
<1>3. CASE HandlerEnd
  BY <1>3, HandlerEndInv
<1>4. CASE RunEnd
  BY <1>4, RunEndInv
<1>5. ASSUME NEW tid \in Tids, timer_run(tid) PROVE IInv'
  BY <1>5, RunInv
<1>6. CASE Tick
  BY <1>6, TickInv
<1>7. ASSUME NEW tid \in Tids, NEW k \in Kinds, timer_register(tid, k) PROVE IInv'
  BY <1>7, RegisterInv
<1>8. ASSUME NEW tid \in Tids, timer_unregister(tid) PROVE IInv'
  BY <1>8, UnregisterInv
<1>9. ASSUME NEW tid \in Tids, NEW t \in Touts, timer_schedule_shot(tid, t) PROVE IInv'
  BY <1>9, ScheduleInv
<1>10. CASE UNCHANGED vars
  <2>1. /\ kind' = kind /\ timeouts' = timeouts /\ orders' = orders /\ timeout' = timeout
        /\ unshot' = unshot /\ since' = since /\ gpt' = gpt /\ awake' = awake
        /\ running' = running /\ pc' = pc /\ due' = due
    BY <1>10 DEF vars
  <2>2. TypeOK'
    BY <2>1 DEF IInv, TypeOK
  <2>3. QueueIsScheduled'
    BY <2>1 DEF IInv, QueueIsScheduled
  <2>4. (BhSide => BhSide') /\ (IrqSide => IrqSide')
    BY <2>1 DEF BhSide, IrqSide
  <2>5. gpt' = Never => Shots(orders, timeouts) = {} \/ BhSide'
    BY <2>1, <2>4 DEF IInv, Armed
  <2> QED BY <2>1, <2>2, <2>3, <2>4, <2>5, CalmInv
<1> QED BY <1>1, <1>2, <1>3, <1>4, <1>5, <1>6, <1>7, <1>8, <1>9, <1>10 DEF Next, Step

LEMMA Invariance == ASSUME ShortTouts PROVE Spec => []IInv
<1>1. Init => IInv
  BY InitIInv
<1>2. IInv /\ [Next]_vars => IInv'
  BY StepInv
<1> QED BY <1>1, <1>2, PTL DEF Spec

-----------------------------------------------------------------------------
(* Every timeout_t the code stores, the ones it has subtracted from        *)
(* included, is in range, and timer_shot_timeout never gives the GPT more  *)
(* than it can count.                                                      *)
THEOREM TypeCorrect == ASSUME ShortTouts PROVE Spec => []TypeOK
<1>1. IInv => TypeOK
  BY DEF IInv
<1> QED BY <1>1, Invariance, PTL

(* timer_orders stays packed and in order through timer_schedule_shot,     *)
(* timer_irq_timeout, timer_run_timeout and timer_unregister, in whatever  *)
(* order interrupts, bottom halves and handlers call them.                 *)
THEOREM OrderKept == ASSUME ShortTouts PROVE Spec => []QueueOrdered
<1>1. IInv => QueueOrdered
  <2> SUFFICES ASSUME IInv PROVE QueueOrdered
    OBVIOUS
  <2>1. /\ Packed(orders) /\ Ordered(orders, timeouts)
        /\ Queued(orders) \subseteq Registered /\ DOMAIN orders = Slots
    BY DEF IInv, QInv, TypeOK, Slots
  <2>2. ASSUME NEW j \in Slots, NEW i \in Slots, i < j, orders[j] # INVALID_TID
        PROVE  orders[i] \notin {orders[j], INVALID_TID}
    BY <2>1, <2>2 DEF Packed
  <2> QED BY <2>1, <2>2 DEF QueueOrdered, Ordered
<1> QED BY <1>1, Invariance, PTL

(* timer_del, timer_add and timer_run_timeout lose no shot and run none    *)
(* twice.                                                                  *)
THEOREM NoShotLost == ASSUME ShortTouts PROVE Spec => []QueueIsScheduled
<1>1. IInv => QueueIsScheduled
  BY DEF IInv
<1> QED BY <1>1, Invariance, PTL

(* tick_handler and the bottom half never both leave the GPT stopped with  *)
(* a timer waiting.                                                        *)
THEOREM AlwaysArmed == ASSUME ShortTouts PROVE Spec => []NeverUnarmed
<1>1. IInv => NeverUnarmed
  <2> SUFFICES ASSUME IInv, pc = "idle", orders[0] # INVALID_TID, gpt = Never
               PROVE  awake
    BY DEF NeverUnarmed
  <2>1. (BhSide => awake) /\ ~ IrqSide
    BY DEF BhSide, IrqSide
  <2>2. orders[0] \in Queued(orders)
    <3>1. 0 \in Slots
      BY TimersAssumption, SMT DEF Slots
    <3>2. orders[0] \in Tids
      BY <3>1 DEF IInv, QInv, Packed, Queues
    <3> QED BY <3>1, <3>2, QueuedIs DEF IInv, QInv
  <2>3. CASE timeouts[orders[0]] = TIMER_IDLE
    BY <2>1, <2>2, <2>3 DEF IInv, DueInv
  <2>4. CASE timeouts[orders[0]] # TIMER_IDLE
    <3>1. orders[0] \in Shots(orders, timeouts)
      BY <2>2, <2>4 DEF IInv, QInv, Valued, Shots
    <3> QED BY <2>1, <3>1 DEF IInv, Armed
  <2> QED BY <2>3, <2>4
<1> QED BY <1>1, Invariance, PTL

(* The BUG_ONs of timer_run_timeout and of __timer_add do not fire.        *)
THEOREM AssertionsHold == ASSUME ShortTouts PROVE Spec => []NoBug
<1>1. IInv => NoBug
  <2> SUFFICES ASSUME IInv PROVE NoBug
    OBVIOUS
  <2>1. Packed(orders)
    BY DEF IInv, QInv
  <2>2. ASSUME pc = "bh", HeadDue PROVE kind[orders[0]] = "BH"
    <3>1. 0 \in Slots /\ ~ IrqSide
      BY <2>2, TimersAssumption, SMT DEF Slots, IrqSide
    <3>2. orders[0] \in Tids
      BY <2>1, <2>2, <3>1 DEF Packed, Queues, HeadDue
    <3>3. orders[0] \in Queued(orders)
      BY <2>1, <3>1, <3>2, QueuedIs
    <3> QED BY <2>2, <3>1, <3>3 DEF IInv, DueInv, HeadDue
  <2>3. ASSUME NEW tid \in Registered
        PROVE  LET rest == timer_del(orders, tid)
               IN rest[NR_TIMERS - 1] = INVALID_TID /\ \A i \in Tids : rest[i] # tid
    <3>1. tid \in Tids
      BY DEF Registered
    <3>2. Tids \subseteq Slots
      BY TimersAssumption, SMT DEF Tids, Slots
    <3> QED BY <2>1, <3>1, <3>2, DelRemoves
  <2> QED BY <2>2, <2>3 DEF NoBug
<1> QED BY <1>1, Invariance, PTL
=============================================================================
