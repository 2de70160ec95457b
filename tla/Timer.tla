-------------------------------- MODULE Timer -------------------------------
(***************************************************************************)
(* The timers of one CPU, kernel/timer.c without CONFIG_TICK: timeouts are *)
(* kept in order, the GPT is shot for the first of them, its interrupt     *)
(* (tick_handler) subtracts what has elapsed and runs the TIMER_IRQ timers *)
(* that are due, and the timer bottom half runs the TIMER_BH ones.         *)
(*                                                                         *)
(* Bottom halves and interrupts run with interrupts masked (SYS_IRQ), so a *)
(* function of the code is one step; but a timer handler may itself        *)
(* schedule, and is a sequence of steps.  Time passes between any two      *)
(* steps.  Only differences of the tick counter matter: since is the time  *)
(* since timer_last_tick, gpt what the GPT has left to count.              *)
(***************************************************************************)
EXTENDS TimerQueue

CONSTANTS MAX_TIMEOUT,      \* the largest timeout_t
          GPT_MAX_TIMEOUT,
          Touts,            \* the timeouts that are scheduled
          Kinds             \* the timer types in use, of {"BH", "IRQ"}

MaxTime == MAX_TIMEOUT + 1
MaxSpan == MaxTime \div 2    \* no TIMER_TIME reaches it: a longer span does the same

ASSUME MaxAssumption == MAX_TIMEOUT \in Nat /\ MAX_TIMEOUT % 2 = 1
ASSUME ToutsAssumption == Touts \subseteq 0 .. MaxTime - 1
ASSUME GptAssumption == GPT_MAX_TIMEOUT \in Nat \ {0}
ASSUME KindsAssumption == Kinds \subseteq {"BH", "IRQ"}

Never == -1

VARIABLES kind,      \* timer_descs[tid]->type; "none" if tid is not in timer_regs
          timeouts,  \* timer_timeouts
          orders,    \* timer_orders
          timeout,   \* timer_timeout
          unshot,    \* timer_unshot_timeout
          since,     \* tick_get_counter() - timer_last_tick, at most MaxSpan
          gpt,       \* ms left to the GPT interrupt, or Never
          awake,     \* bh_awakes has timer_bh
          running,   \* timer_running_tid
          pc,
          due        \* history: ms each scheduled timer has yet to wait, or Never

vars == <<kind, timeouts, orders, timeout, unshot, since, gpt, awake, running, pc, due>>

-----------------------------------------------------------------------------
(* timeout_t: a signed integer from -MAX_TIMEOUT - 1 to MAX_TIMEOUT; its   *)
(* lowest bit says that the timer is shot.                                 *)
Wrapped(x) == ((x + MaxTime) % (2 * MaxTime)) - MaxTime

TIMER_IDLE == 0
TIMER_SHOT(t) == t % 2 = 1
TIMER_TIME(t) == t \div 2
TIMER_MAKE(t) == Wrapped(2 * t + 1)

Timeouts == -MaxTime .. MaxTime - 1

TypeOK == /\ kind \in [Tids -> {"none", "BH", "IRQ"}]
          /\ timeouts \in [Tids -> Timeouts]
          /\ orders \in [0 .. NR_TIMERS -> Tids \cup {INVALID_TID}]
          /\ timeout \in Timeouts
          /\ unshot \in 0 .. MaxTime
          /\ since \in 0 .. MaxSpan
          /\ gpt \in {Never} \cup 0 .. GPT_MAX_TIMEOUT
          /\ awake \in BOOLEAN
          /\ running \in Tids \cup {INVALID_TID}
          /\ pc \in {"idle", "bh", "irq", "bhHandler", "irqHandler"}
          /\ due \in [Tids -> {Never} \cup 0 .. MaxTime]

(* timer_init and timer_start: the bottom half is resumed once.            *)
Init == /\ kind = [t \in Tids |-> "none"]
        /\ timeouts = [t \in Tids |-> TIMER_IDLE]
        /\ orders = [i \in 0 .. NR_TIMERS |-> INVALID_TID]
        /\ timeout = TIMER_IDLE
        /\ unshot = 0
        /\ since = 0
        /\ gpt = Never
        /\ awake = TRUE
        /\ running = INVALID_TID
        /\ pc = "idle"
        /\ due = [t \in Tids |-> Never]

Registered == {t \in Tids : kind[t] # "none"}
Times(touts) == [t \in Tids |-> TIMER_TIME(touts[t])]

-----------------------------------------------------------------------------
(* gpt_hw_oneshot_timeout: a time that is past fires at once.              *)
gpt_oneshot_timeout(t) == gpt' = IF t < 0 THEN 0 ELSE t

(* mutant of timer_shot_timeout: GPT_MAX_TIMEOUT is ignored. *)
ShotWhole(t) == unshot' = 0 /\ gpt_oneshot_timeout(IF t = 0 THEN 1 ELSE t)

(* timer_shot_timeout: what the GPT cannot count is left for later.        *)
timer_shot_timeout(t) ==
    IF t < GPT_MAX_TIMEOUT
    THEN unshot' = 0 /\ gpt_oneshot_timeout(IF t = 0 THEN 1 ELSE t)
    ELSE unshot' = t - GPT_MAX_TIMEOUT /\ gpt_oneshot_timeout(GPT_MAX_TIMEOUT)

(* timer_restart, given the value of timer_timeout and what the GPT has    *)
(* left if it is not shot again.                                           *)
timer_restart(t, left) ==
    IF TIMER_SHOT(t) THEN timer_shot_timeout(TIMER_TIME(t))
                     ELSE gpt' = left /\ UNCHANGED unshot

(* __timer_recalc_timeout: take span off every shot timer in q; the next   *)
(* timeout is that of the first of them.                                   *)
Span(shot, t) == IF shot THEN TIMER_TIME(t) ELSE since

Recalc(o, touts, shot, span) ==
    [t \in Tids |->
        IF t \in Queued(o) /\ TIMER_SHOT(touts[t])
        THEN LET left == TIMER_TIME(touts[t]) - span
             IN TIMER_MAKE(IF ~shot /\ left <= 0 THEN 1 ELSE left)
        ELSE touts[t]]

FirstShot(o, touts) ==
    LET shots == {i \in Seen(o) : TIMER_SHOT(touts[o[i]])}
    IN IF shots = {} THEN TIMER_IDLE ELSE touts[o[Min(shots)]]

(* timer_recalc_timeout(true) on given timeouts, with the GPT restarted.   *)
timer_recalc_timeout(touts, left) ==
    LET new == Recalc(orders, touts, TRUE, TIMER_TIME(timeout))
    IN /\ timeouts' = new
       /\ timeout' = FirstShot(orders, new)
       /\ since' = 0
       /\ timer_restart(timeout', left)

-----------------------------------------------------------------------------
Handling == pc \in {"bhHandler", "irqHandler"}

timer_register(tid, k) ==
    /\ pc = "idle"
    /\ kind[tid] = "none" /\ \A t \in Tids : t < tid => kind[t] # "none"
    /\ kind' = [kind EXCEPT ![tid] = k]
    /\ timeouts' = [timeouts EXCEPT ![tid] = TIMER_IDLE]
    /\ running' = tid
    /\ UNCHANGED <<orders, timeout, unshot, since, gpt, awake, pc, due>>

(* Only the running timer, or the one just registered, may be removed.     *)
timer_unregister(tid) ==
    /\ pc = "idle" \/ Handling
    /\ tid = running /\ tid \in Registered
    /\ orders' = timer_del(orders, tid)
    /\ kind' = [kind EXCEPT ![tid] = "none"]
    /\ running' = INVALID_TID
    /\ due' = [due EXCEPT ![tid] = Never]
    /\ UNCHANGED <<timeouts, timeout, unshot, since, gpt, awake, pc>>

(* From a bottom half, or from the handler of a timer.                     *)
timer_schedule_shot(tid, tout_ms) ==
    LET rest  == timer_del(orders, tid)
        left  == Recalc(rest, timeouts, FALSE, Span(FALSE, timeout))
        first == FirstShot(rest, left)
        ms    == IF tout_ms <= 0 THEN 1 ELSE tout_ms
    IN /\ pc = "idle" \/ Handling
       /\ tid \in Registered
       /\ timeouts' = [left EXCEPT ![tid] = TIMER_MAKE(ms)]
       /\ orders' = timer_add(rest, tid, Times(timeouts'))
       /\ timeout' = IF ~TIMER_SHOT(first) \/ ms < TIMER_TIME(first)
                     THEN timeouts'[tid] ELSE first
       /\ since' = 0
       /\ timer_restart(timeout', gpt)
       /\ due' = [due EXCEPT ![tid] = ms]
       /\ UNCHANGED <<kind, awake, running, pc>>

-----------------------------------------------------------------------------
(* timer_irq_timeout, when timer_timeout is shot.                          *)
Expired(t) == /\ t \in Queued(orders) /\ TIMER_SHOT(timeouts[t])
              /\ TIMER_TIME(timeout) >= TIMER_TIME(timeouts[t])

(* mutant of timer_irq_timeout: TIMER_IRQ timers wait for the bottom half. *)
IrqTimeoutDeferred ==
    /\ timeouts' = [t \in Tids |-> IF Expired(t) THEN TIMER_IDLE ELSE timeouts[t]]
    /\ awake' = TRUE /\ gpt' = Never
    /\ UNCHANGED <<timeout, since, unshot, pc>>

timer_irq_timeout ==
    LET new == [t \in Tids |->
                   IF Expired(t) THEN TIMER_IDLE
                   ELSE IF t \in Queued(orders) /\ TIMER_SHOT(timeouts[t])
                   THEN TIMER_MAKE(TIMER_TIME(timeouts[t]) - TIMER_TIME(timeout))
                   ELSE timeouts[t]]
        run_bh  == \E t \in Tids : Expired(t) /\ kind[t] = "BH"
        run_irq == \E t \in Tids : Expired(t) /\ kind[t] = "IRQ"
    IN /\ awake' = (awake \/ run_bh)
       /\ pc' = IF run_irq THEN "irq" ELSE "idle"
       /\ IF run_bh
          THEN timeouts' = new /\ gpt' = Never /\ UNCHANGED <<timeout, since, unshot>>
          ELSE timer_recalc_timeout(new, Never)

(* mutant of tick_handler: the rest of a long timeout is forgotten. *)
TickOnce ==
    /\ pc = "idle" /\ gpt = 0
    /\ IF unshot # 0 \/ ~TIMER_SHOT(timeout)
       THEN gpt' = Never /\ unshot' = 0 /\ UNCHANGED <<timeouts, timeout, since, awake, pc>>
       ELSE timer_irq_timeout
    /\ UNCHANGED <<kind, orders, running, due>>

(* The GPT interrupts, unless interrupts are masked.                       *)
tick_handler ==
    /\ pc = "idle" /\ gpt = 0
    /\ IF unshot # 0
       THEN timer_shot_timeout(unshot) /\ UNCHANGED <<timeouts, timeout, since, awake, pc>>
       ELSE IF ~TIMER_SHOT(timeout)
       THEN gpt' = Never /\ UNCHANGED <<timeouts, timeout, since, unshot, awake, pc>>
       ELSE timer_irq_timeout
    /\ UNCHANGED <<kind, orders, running, due>>

(* timer_bh_handler: the bottom half is called.                            *)
timer_bh_handler ==
    /\ pc = "idle" /\ awake
    /\ awake' = FALSE
    /\ pc' = "bh"
    /\ UNCHANGED <<kind, timeouts, orders, timeout, unshot, since, gpt, running, due>>

(* timer_run_timeout: one turn of its loop, for the type in pc.  A due     *)
(* timer of the other type is left where it is, and the loop goes on.      *)
Running == pc \in {"bh", "irq"}
Type == IF pc = "bh" THEN "BH" ELSE "IRQ"
HeadDue == orders[0] # INVALID_TID /\ timeouts[orders[0]] = TIMER_IDLE

(* mutant of timer_run: the timer stays in the queue. *)
RunKeeping(tid) ==
    /\ Running /\ HeadDue /\ tid = orders[0]
    /\ kind[tid] = Type
    /\ running' = tid
    /\ pc' = IF pc = "bh" THEN "bhHandler" ELSE "irqHandler"
    /\ due' = [due EXCEPT ![tid] = Never]
    /\ UNCHANGED <<kind, timeouts, orders, timeout, unshot, since, gpt, awake>>

timer_run(tid) ==
    /\ Running /\ HeadDue /\ tid = orders[0]
    /\ kind[tid] = Type
    /\ running' = tid
    /\ orders' = timer_del(orders, tid)
    /\ pc' = IF pc = "bh" THEN "bhHandler" ELSE "irqHandler"
    /\ due' = [due EXCEPT ![tid] = Never]
    /\ UNCHANGED <<kind, timeouts, timeout, unshot, since, gpt, awake>>

HandlerEnd ==
    /\ Handling
    /\ running' = INVALID_TID
    /\ pc' = IF pc = "bhHandler" THEN "bh" ELSE "irq"
    /\ UNCHANGED <<kind, timeouts, orders, timeout, unshot, since, gpt, awake, due>>

(* mutant of RunEnd: the bottom half does not restart the GPT. *)
RunEndUnarmed ==
    /\ Running /\ ~HeadDue
    /\ pc' = "idle"
    /\ UNCHANGED <<timeouts, timeout, unshot, since, gpt, kind, orders, awake, running, due>>

(* The loop ends.  The bottom half then calls timer_recalc_timeout(true);  *)
(* its second timer_restart shoots the GPT for the same time again.        *)
RunEnd ==
    /\ Running /\ ~HeadDue
    /\ pc' = "idle"
    /\ IF pc = "bh" THEN timer_recalc_timeout(timeouts, gpt)
                    ELSE UNCHANGED <<timeouts, timeout, unshot, since, gpt>>
    /\ UNCHANGED <<kind, orders, awake, running, due>>

-----------------------------------------------------------------------------
(* One millisecond.                                                        *)
Down(t) == IF t = Never \/ t = 0 THEN t ELSE t - 1

Tick == /\ since' = IF since < MaxSpan THEN since + 1 ELSE since
        /\ gpt' = Down(gpt)
        /\ due' = [t \in Tids |-> Down(due[t])]
        /\ UNCHANGED <<kind, timeouts, orders, timeout, unshot, awake, running, pc>>

(* The steps the CPU takes on its own.                                     *)
Step == tick_handler \/ timer_bh_handler \/ HandlerEnd \/ RunEnd
        \/ \E tid \in Tids : timer_run(tid)

Next == \/ Step
        \/ Tick
        \/ \E tid \in Tids : \/ \E k \in Kinds : timer_register(tid, k)
                             \/ timer_unregister(tid)
                             \/ \E t \in Touts : timer_schedule_shot(tid, t)

Spec == Init /\ [][Next]_vars

(* Time passes, and the CPU takes interrupts and calls bottom halves.      *)
(* A pending GPT interrupt is taken as soon as no bottom half runs: it is  *)
(* not for ever overtaken by a schedule that shoots the GPT again.         *)
(* BottomHalf!EveryWakeupServed gives the fairness of the bottom half.     *)
FairSpec == /\ Spec /\ WF_vars(Tick) /\ WF_vars(Step)
            /\ SF_vars(tick_handler) /\ SF_vars(timer_bh_handler)

-----------------------------------------------------------------------------
(* timer_orders holds registered timers, none twice, those that are due    *)
(* first and the others by the time they have left, and then only          *)
(* INVALID_TID, whatever handlers do.                                      *)
QueueOrdered ==
    /\ Queued(orders) \subseteq Registered
    /\ \A j \in DOMAIN orders, i \in DOMAIN orders :
           i < j /\ orders[j] # INVALID_TID =>
               /\ orders[i] \notin {orders[j], INVALID_TID}
               /\ timeouts[orders[i]] # TIMER_IDLE =>
                     /\ timeouts[orders[j]] # TIMER_IDLE
                     /\ TIMER_TIME(timeouts[orders[i]]) <= TIMER_TIME(timeouts[orders[j]])

(* A timer that was scheduled and has not run is in the queue, and no      *)
(* other timer is: no shot is lost, and none runs twice.                   *)
QueueIsScheduled == Queued(orders) = {t \in Tids : due[t] # Never}

(* Whenever the CPU is idle and a timer waits, the GPT is running or the   *)
(* bottom half that will shoot it again has been resumed.                  *)
NeverUnarmed ==
    pc = "idle" /\ orders[0] # INVALID_TID => gpt # Never \/ awake

(* The assertions hold.  The bottom half never finds a due timer that      *)
(* should have run in the interrupt (BUG_ON, line 146); and when           *)
(* __timer_add is called for a timer, that timer is not in timer_orders    *)
(* (line 100) and there is room for it (line 103).                         *)
NoBug == /\ pc = "bh" /\ HeadDue => kind[orders[0]] = "BH"
         /\ \A tid \in Registered :
                LET rest == timer_del(orders, tid)
                IN rest[NR_TIMERS - 1] = INVALID_TID
                   /\ \A i \in Tids : rest[i] # tid

(* Every timer that is scheduled runs, or is unregistered, unless waiting  *)
(* timers are scheduled anew for ever.                                     *)
Rescheduled == \E t \in Tids, ms \in Touts :
                   due[t] # Never /\ timer_schedule_shot(t, ms)
EveryShotRuns == <>[][~Rescheduled]_vars =>
                     \A t \in Tids : due[t] # Never ~> due[t] = Never

(* The same unless the interrupt is caught in timer_run_timeout by a due   *)
(* TIMER_BH timer at the head of the queue: with timers of both types,     *)
(* nothing else keeps a timer that is scheduled from running.              *)
Stuck == pc = "irq" /\ HeadDue /\ kind[orders[0]] = "BH"
ShotsRunUnlessStuck == [](~Stuck) => EveryShotRuns
=============================================================================
