----------------------------- MODULE BottomHalf -----------------------------
(***************************************************************************)
(* The bottom halves of one CPU: kernel/bh.c with the pollers of           *)
(* kernel/irq.c and the bit operations of lib/bitops.c.                    *)
(*                                                                         *)
(* An interrupt handler (or a bottom half, or another CPU) marks a bottom  *)
(* half in the bitmap bh_awakes; bh_loop scans the bitmap, clears the bit  *)
(* it found and calls the handler.  A handler that must wait calls bh_sync *)
(* which scans the same bitmap again, nested in the handler.  pc, bh, sync *)
(* and word are the locals of the innermost scan, stack those of the scans *)
(* it is nested in; interrupts arrive between any two steps taken while    *)
(* they are enabled.                                                       *)
(***************************************************************************)
EXTENDS Integers, Sequences

CONSTANTS NR_BHS,      \* CONFIG_MAX_BHS
          ConsoleBh,   \* console_bh
          MaxDepth,    \* bound on the nesting of bh_sync
          Builds       \* the builds considered: with CONFIG_SMP, SYS_REALTIME

ASSUME BhsAssumption == NR_BHS \in Nat \ {0}
ASSUME DepthAssumption == MaxDepth \in Nat
ASSUME BuildsAssumption == Builds \subseteq {"up", "smp", "rt", "smp-rt"}

BHs == 0 .. NR_BHS - 1
INVALID_BH == NR_BHS

VARIABLES build,    \* chosen once and for all
          nr,       \* bh_nr_regs
          pollers,  \* irq_poll_regs; irq_is_polling is pollers # {}
          awakes,   \* bh_awakes
          irq,      \* interrupts are enabled on this CPU
          pc, bh, sync, word,
          stack,
          owed      \* history: wake-ups no handler call has answered yet

locals == <<bh, sync, word>>
vars == <<build, nr, pollers, awakes, irq, pc, bh, sync, word, stack, owed>>

Atomic == build \in {"smp", "smp-rt"}   \* set_bit and clear_bit are atomic
Realtime == build \in {"rt", "smp-rt"}  \* lock_bh and unlock_bh are empty

Handlers == {"handler", "polled"}
Labels == Handlers \cup {"init", "scan", "wrap", "suspend", "clear", "start",
                         "poll", "set"}
Frames == [pc : Handlers, bh : BHs, sync : BOOLEAN]

TypeOK == /\ build \in Builds
          /\ nr \in 0 .. NR_BHS
          /\ pollers \subseteq BHs
          /\ awakes \subseteq BHs
          /\ irq \in BOOLEAN
          /\ pc \in Labels
          /\ bh \in 0 .. INVALID_BH
          /\ sync \in BOOLEAN
          /\ word \subseteq BHs
          /\ stack \in Seq(Frames)
          /\ owed \subseteq BHs

Init == /\ build \in Builds
        /\ nr = 0
        /\ pollers = {}
        /\ awakes = {}
        /\ irq = FALSE
        /\ pc = "init"
        /\ bh = 0
        /\ sync = FALSE
        /\ word = {}
        /\ stack = <<>>
        /\ owed = {}

-----------------------------------------------------------------------------
(* lib/bitops.c: the first bit of set at or above off, or NR_BHS.          *)
find_next_set_bit(set, off) ==
    IF \E b \in set : b >= off
    THEN CHOOSE b \in set : b >= off /\ \A d \in set : d >= off => b <= d
    ELSE INVALID_BH

lock_bh == irq' = (Realtime /\ irq)
unlock_bh == irq' = (~Realtime \/ irq)

(* Somebody asks for b: the request is owed a call of b's handler.         *)
Owe(b) == owed' = owed \cup {b}

(* Before bh_loop, with interrupts disabled: the drivers register.         *)
bh_register_handler ==
    /\ pc = "init" /\ nr < NR_BHS
    /\ nr' = nr + 1
    /\ UNCHANGED <<pollers, awakes, irq, pc, locals, stack, owed>>

irq_register_poller(b) ==
    /\ pc = "init" /\ b < nr
    /\ pollers' = pollers \cup {b}
    /\ UNCHANGED <<nr, awakes, irq, pc, locals, stack, owed>>

bh_loop ==
    /\ pc = "init"
    /\ pc' = "scan"
    /\ irq' = TRUE
    /\ UNCHANGED <<nr, pollers, awakes, locals, stack, owed>>

(* A device interrupts; its handler runs to its end with interrupts off    *)
(* and calls bh_resume.                                                    *)
do_IRQ(b) ==
    /\ irq /\ b < nr
    /\ awakes' = awakes \cup {b}
    /\ Owe(b)
    /\ UNCHANGED <<nr, pollers, irq, pc, locals, stack>>

(* Another CPU marks b here; only SMP builds have it.                      *)
bh_resume_smp(b) ==
    /\ Atomic /\ pc # "init" /\ b < nr
    /\ awakes' = awakes \cup {b}
    /\ Owe(b)
    /\ UNCHANGED <<nr, pollers, irq, pc, locals, stack>>

-----------------------------------------------------------------------------
(* What the handler of bh may do, besides returning.                       *)

Call(label) == stack' = Append(stack, [pc |-> pc, bh |-> bh, sync |-> sync])
               /\ pc' = label

Caller == stack[Len(stack)]

Return == /\ stack' = SubSeq(stack, 1, Len(stack) - 1)
          /\ pc' = Caller.pc
          /\ bh' = Caller.bh
          /\ sync' = Caller.sync

(* set_bit is one step if it is atomic or nothing can interrupt it.        *)
bh_resume(b) ==
    /\ pc \in Handlers /\ b < nr
    /\ Atomic \/ ~irq
    /\ awakes' = awakes \cup {b}
    /\ Owe(b)
    /\ UNCHANGED <<nr, pollers, irq, pc, locals, stack>>

(* Otherwise it loads the word, and stores it in another step.             *)
SetLoad(b) ==
    /\ pc \in Handlers /\ b < nr
    /\ ~Atomic /\ irq
    /\ Call("set")
    /\ word' = awakes \cup {b}
    /\ bh' = b
    /\ UNCHANGED <<nr, pollers, awakes, irq, sync, owed>>

SetStore ==
    /\ pc = "set"
    /\ awakes' = word
    /\ Owe(bh)
    /\ Return
    /\ word' = {}
    /\ UNCHANGED <<nr, pollers, irq>>

bh_sync ==
    /\ pc \in Handlers /\ Len(stack) < MaxDepth
    /\ Call("scan")
    /\ irq' = TRUE
    /\ bh' = 0
    /\ sync' = TRUE
    /\ UNCHANGED <<nr, pollers, awakes, word, owed>>

-----------------------------------------------------------------------------
(* The scan: __bh_sync, bh_run_once, bh_resumed.                           *)

(* bh_run_once found b, or nothing: then __bh_sync is over.                *)
Found(b) == IF b # INVALID_BH
            THEN pc' = "suspend" /\ bh' = b
            ELSE pc' = "poll" /\ bh' = 0

(* mutant of Scan: bh_loop skips the console as bh_sync does. *)
ScanSkipping ==
    /\ pc = "scan"
    /\ IF bh = INVALID_BH THEN Found(INVALID_BH)
       ELSE IF bh = ConsoleBh THEN bh' = bh + 1 /\ pc' = pc
       ELSE LET b == find_next_set_bit(awakes \ {ConsoleBh}, bh)
            IN IF bh = 0 \/ b # INVALID_BH \/ ~sync
               THEN Found(b)
               ELSE pc' = "wrap" /\ bh' = bh
    /\ UNCHANGED <<nr, pollers, awakes, irq, sync, word, stack, owed>>

Scan ==
    /\ pc = "scan"
    /\ IF bh = INVALID_BH THEN Found(INVALID_BH)
       ELSE IF sync /\ bh = ConsoleBh THEN bh' = bh + 1 /\ pc' = pc
       ELSE LET b == find_next_set_bit(awakes, bh)
            IN IF bh = 0 \/ b # INVALID_BH \/ ~sync
               THEN Found(b)
               ELSE pc' = "wrap" /\ bh' = bh
    /\ UNCHANGED <<nr, pollers, awakes, irq, sync, word, stack, owed>>

Wrap ==
    /\ pc = "wrap"
    /\ Found(find_next_set_bit(awakes, 0))
    /\ UNCHANGED <<nr, pollers, awakes, irq, sync, word, stack, owed>>

(* bh_suspend: clear_bit, in one step or as a load and a store.            *)
bh_suspend ==
    /\ pc = "suspend"
    /\ IF Atomic
       THEN pc' = "start" /\ awakes' = awakes \ {bh} /\ UNCHANGED word
       ELSE pc' = "clear" /\ word' = awakes \ {bh} /\ UNCHANGED awakes
    /\ UNCHANGED <<nr, pollers, irq, bh, sync, stack, owed>>

ClearStore ==
    /\ pc = "clear"
    /\ awakes' = word
    /\ word' = {}
    /\ pc' = "start"
    /\ UNCHANGED <<nr, pollers, irq, bh, sync, stack, owed>>

(* mutant of bh_run: the call of one handler clears the whole bitmap. *)
RunClearing ==
    /\ pc = "start"
    /\ pc' = "handler"
    /\ lock_bh
    /\ awakes' = {}
    /\ owed' = owed \ {bh}
    /\ UNCHANGED <<nr, pollers, locals, stack>>

(* bh_run up to the call of the handler, which answers what was owed.      *)
bh_run ==
    /\ pc = "start"
    /\ pc' = "handler"
    /\ lock_bh
    /\ owed' = owed \ {bh}
    /\ UNCHANGED <<nr, pollers, awakes, locals, stack>>

(* mutant of RunEnd: the next pass always starts at bit 0. *)
RunEndRestart ==
    /\ pc = "handler"
    /\ pc' = "scan"
    /\ unlock_bh
    /\ bh' = 0
    /\ UNCHANGED <<nr, pollers, awakes, sync, word, stack, owed>>

(* The handler returns: the end of bh_run and of bh_run_once.              *)
RunEnd ==
    /\ pc = "handler"
    /\ pc' = "scan"
    /\ unlock_bh
    /\ bh' = IF sync /\ bh + 1 = INVALID_BH THEN 0 ELSE bh + 1
    /\ UNCHANGED <<nr, pollers, awakes, sync, word, stack, owed>>

-----------------------------------------------------------------------------
(* irq_poll_bh: call the handler of every poller, bh counting up.          *)

(* mutant of Polling: the loop runs to NR_BHS included. *)
PollingPastEnd == pollers # {} /\ bh <= INVALID_BH

Polling == pollers # {} /\ bh # INVALID_BH

Poll ==
    /\ pc = "poll" /\ Polling
    /\ IF bh \in pollers /\ (~sync \/ bh # ConsoleBh)
       THEN pc' = "polled" /\ lock_bh /\ UNCHANGED bh
       ELSE bh' = bh + 1 /\ UNCHANGED <<pc, irq>>
    /\ UNCHANGED <<nr, pollers, awakes, sync, word, stack, owed>>

PollEnd ==
    /\ pc = "polled"
    /\ pc' = "poll"
    /\ unlock_bh
    /\ bh' = bh + 1
    /\ UNCHANGED <<nr, pollers, awakes, sync, word, stack, owed>>

(* The next turn of bh_loop.  CONFIG_IDEL is no configuration symbol, so   *)
(* bh_irq_wait is empty and the loop never sleeps.                         *)
LoopEnd ==
    /\ pc = "poll" /\ ~Polling /\ ~sync
    /\ pc' = "scan"
    /\ bh' = 0
    /\ UNCHANGED <<nr, pollers, awakes, irq, sync, word, stack, owed>>

(* mutant of SyncEnd: bh_sync returns with interrupts enabled. *)
SyncEndEnabled ==
    /\ pc = "poll" /\ ~Polling /\ sync
    /\ Return
    /\ UNCHANGED <<nr, pollers, awakes, irq, word, owed>>

(* bh_sync returns to the handler that called it.                          *)
SyncEnd ==
    /\ pc = "poll" /\ ~Polling /\ sync
    /\ irq' = FALSE
    /\ Return
    /\ UNCHANGED <<nr, pollers, awakes, word, owed>>

-----------------------------------------------------------------------------
(* The scheduler's own steps, which it takes whenever it can.              *)
Step == /\ \/ Scan \/ Wrap \/ bh_suspend \/ ClearStore \/ bh_run \/ RunEnd
           \/ Poll \/ PollEnd \/ LoopEnd \/ SyncEnd \/ SetStore
        /\ UNCHANGED build

Next == \/ Step
        \/ /\ \/ bh_register_handler \/ bh_loop \/ bh_sync
              \/ \E b \in BHs : \/ irq_register_poller(b)
                                \/ do_IRQ(b) \/ bh_resume_smp(b)
                                \/ bh_resume(b) \/ SetLoad(b)
           /\ UNCHANGED build

Spec == Init /\ [][Next]_vars

(* The CPU keeps executing and every handler returns.                      *)
FairSpec == Spec /\ WF_vars(Step)

-----------------------------------------------------------------------------
(* Every wake-up is kept: until the handler is called for it, its bit is   *)
(* set or bh_run_once has just taken the bit and is about to call.         *)
NoLostWakeup ==
    owed \subseteq awakes \cup (IF pc \in {"clear", "start"} THEN {bh} ELSE {})

(* An SMP build never loses a wake-up.  It rests on bh_suspend coming      *)
(* before bh_run and on clear_bit being atomic; without the second it is   *)
(* false (Documentation/kernel/idle.txt: the F-STM "handles software       *)
(* events triggered by another B-STM").                                    *)
SmpKeepsWakeups == Atomic => NoLostWakeup

(* Handlers, and the code they return to after bh_sync, run with           *)
(* interrupts masked, and everything else in bh_loop with interrupts       *)
(* enabled, whatever the nesting of bh_run and bh_sync, unless the build   *)
(* is SYS_REALTIME.                                                        *)
MaskedExactlyInHandlers ==
    ~Realtime /\ pc # "init" => (irq <=> pc \notin Handlers)

(* Every bottom half that is resumed is called: bh_loop and the nested     *)
(* scans of bh_sync starve nobody but the console, which bh_sync skips.    *)
EveryWakeupServed ==
    \A b \in BHs \ {ConsoleBh} : Atomic /\ b \in owed ~> b \notin owed

(* In bh_loop itself, not even the console is starved.                     *)
ConsoleServed ==
    Atomic /\ ConsoleBh \in owed ~> ConsoleBh \notin owed \/ sync
=============================================================================
