----------------------------- MODULE TimerQueue -----------------------------
(***************************************************************************)
(* The array timer_orders of kernel/timer.c: NR_TIMERS + 1 slots, the      *)
(* timers by increasing timeout, then INVALID_TID; and the loops of         *)
(* __timer_del and __timer_add over it.                                    *)
(***************************************************************************)
EXTENDS Integers, FiniteSetsExt

CONSTANT NR_TIMERS

ASSUME TimersAssumption == NR_TIMERS \in Nat \ {0}

Tids == 0 .. NR_TIMERS - 1
INVALID_TID == NR_TIMERS

-----------------------------------------------------------------------------
(* __timer_del: find tid, or the end of the queue; then move tid to the    *)
(* last slot, one swap at a time.                                          *)
Swap(o, i) == [o EXCEPT ![i] = o[i + 1], ![i + 1] = o[i]]

Bubble(o, i) == IF o[i] # INVALID_TID THEN Swap(o, i) ELSE o

(* timer_orders when the second loop has reached i.                        *)
Bubbled(orders, first) ==
    LET loop[i \in 0 .. NR_TIMERS] ==
            IF i <= first THEN orders ELSE Bubble(loop[i - 1], i - 1)
    IN loop

timer_del(orders, tid) ==
    LET stops == {i \in Tids : orders[i] \in {tid, INVALID_TID}}
        first == IF stops = {} THEN NR_TIMERS ELSE Min(stops)
        last  == IF first < NR_TIMERS THEN NR_TIMERS - 1 ELSE NR_TIMERS
    IN IF first < NR_TIMERS /\ orders[first] = INVALID_TID THEN orders
       ELSE [Bubbled(orders, first)[NR_TIMERS - 1] EXCEPT ![last] = INVALID_TID]

(* __timer_add: from the last slot down, move the timers that are due      *)
(* later than tid up by one, and put tid above the first that is not.      *)
(* mutant of Moved: the comparison is the wrong way round. *)
MovedReversed(acc, slot, tid, time) ==
    LET o == acc.orders
        t == o[slot]
    IN IF acc.done \/ t = INVALID_TID THEN acc
       ELSE IF time[t] < time[tid]
       THEN [orders |-> [o EXCEPT ![slot + 1] = t, ![slot] = INVALID_TID], done |-> FALSE]
       ELSE [orders |-> [o EXCEPT ![slot + 1] = tid], done |-> TRUE]

Moved(acc, slot, tid, time) ==
    LET o == acc.orders
        t == o[slot]
    IN IF acc.done \/ t = INVALID_TID THEN acc
       ELSE IF time[t] > time[tid]
       THEN [orders |-> [o EXCEPT ![slot + 1] = t, ![slot] = INVALID_TID], done |-> FALSE]
       ELSE [orders |-> [o EXCEPT ![slot + 1] = tid], done |-> TRUE]

(* timer_orders, and whether the loop has returned, when it has reached i. *)
MovedUp(orders, tid, time) ==
    LET loop[i \in 0 .. NR_TIMERS] ==
            IF i = 0 THEN [orders |-> orders, done |-> FALSE]
            ELSE Moved(loop[i - 1], NR_TIMERS - i, tid, time)
    IN loop

timer_add(orders, tid, time) ==
    LET end == MovedUp(orders, tid, time)[NR_TIMERS]
    IN IF end.done THEN end.orders ELSE [end.orders EXCEPT ![0] = tid]

(* The timers a loop over timer_orders sees: it stops at INVALID_TID.      *)
Seen(orders) == {i \in Tids : \A j \in 0 .. i : orders[j] # INVALID_TID}
Queued(orders) == {orders[i] : i \in Seen(orders)}
=============================================================================
