----------------------------- MODULE HartStart ------------------------------
(***************************************************************************)
(* The boot of the harts and the hart state machine of the SBI firmware,   *)
(* arch/riscv/sbi/sbi_init.c and sbi_hsm.c, composed with the interrupts   *)
(* and fences of RemoteFence.  Platforms without hart hotplug and without  *)
(* secondary boot, which are all that the repository has: a hart is        *)
(* started by an interrupt.                                                *)
(*                                                                         *)
(* All harts come out of reset into sbi_init.  One wins the lottery and    *)
(* boots cold; the others wait for it and then, in sbi_hsm_hart_wait, for  *)
(* somebody to start them.  Until it enters the supervisor a hart runs     *)
(* with interrupts off, and the software interrupt only ends its wfi.      *)
(* What is done under coldboot_lock or avail_hart_mask_lock is one step.   *)
(***************************************************************************)
EXTENDS RemoteFence

CONSTANTS ColdAllowed,   \* the harts sbi_platform_cold_boot_allowed lets boot cold
          Addresses,     \* the addresses harts are started at,
          Refused,       \*   and those sbi_hart_pmp_check_addr refuses
          HartShift,     \* hart id less cpu number: 0 or, on a U54 of unleashed, 1
          MaxCalls       \* bound: the calls that send interrupts

ASSUME BootAssumption ==
    /\ ColdAllowed \subseteq Harts /\ Refused \subseteq Addresses
    /\ HartShift \in Nat /\ MaxCalls \in Nat /\ "payload" \notin Addresses

VARIABLES hsm,            \* hsm[h]: sbi_hsm_data.state of h
          lottery,        \* coldboot_lottery
          coldboot_done,
          coldboot_wait,  \* coldboot_wait_bitmap
          available,      \* avail_hart_mask
          next_addr,      \* next_addr[h], in the scratch area of h
          start,          \* start[h]: the hart h is starting, and where
          told,           \* history: where the call that started h wants it,
          entered,        \*   and where h entered its supervisor
          ncalls

boot == <<lottery, coldboot_done, coldboot_wait>>
calling == <<start, told, ncalls>>
hart == <<hsm, available, next_addr, entered>>
ipis == <<fifo, tlb_sync, ipi_type, ssip, event, todo, pend, back, deq, cur, set, fenced>>
hartvars == <<vars, boot, calling, hart>>

Nowhere == "nowhere"
NoStart == <<Nobody, Nowhere>>

HartInit == /\ Quiescent
            /\ pc = [h \in Harts |-> "reset"]
            /\ hsm = [h \in Harts |-> "STOPPED"]
            /\ lottery = 0 /\ coldboot_done = FALSE /\ coldboot_wait = {} /\ available = {}
            /\ next_addr = [h \in Harts |-> "payload"]
            /\ start = [h \in Harts |-> NoStart]
            /\ told = [h \in Harts |-> Nowhere]
            /\ entered = [h \in Harts |-> Nowhere]
            /\ ncalls = 0

-----------------------------------------------------------------------------
(* sbi_init.c                                                              *)

Step(h, from, to) == pc[h] = from /\ Goto(h, to)

smp_hw_cpu_hart(cpu) == cpu + HartShift

sbi_init(h) ==
    /\ pc[h] = "reset"
    /\ IF h \in Disabled THEN Goto(h, "panic") /\ UNCHANGED lottery
       ELSE /\ lottery' = 1
            /\ Goto(h, IF lottery = 0 /\ h \in ColdAllowed THEN "coldinit" ELSE "coldwait")
    /\ UNCHANGED <<ipis, msip, coldboot_done, coldboot_wait, calling, hart>>

\* Mutant: every hart is initialised as the cold one is
AllStarting(h) == [i \in Harts |-> "STARTING"]

(* init_coldboot, up to wake_coldboot_harts; sbi_hsm_init(true).           *)
ColdStates(h) == [i \in Harts |-> IF i = h THEN "STARTING" ELSE "STOPPED"]

init_coldboot(h) ==
    /\ Step(h, "coldinit", "wake")
    /\ hsm' = ColdStates(h)
    /\ told' = [told EXCEPT ![h] = next_addr[h]]
    /\ UNCHANGED <<ipis, msip, boot, start, ncalls, available, next_addr, entered>>

wake_coldboot_harts(h) ==
    /\ Step(h, "wake", "mark")
    /\ coldboot_done' = TRUE
    /\ msip' = [t \in Harts |-> msip[t] \/ t \in coldboot_wait \ {h}]
    /\ UNCHANGED <<ipis, lottery, coldboot_wait, calling, hart>>

\* Mutant: the hart does not put itself into the bitmap
WaitUnmarked(h) ==
    /\ pc[h] = "coldwait"
    /\ Goto(h, IF coldboot_done THEN "coldclear" ELSE "coldwfi")
    /\ UNCHANGED <<ipis, msip, boot, calling, hart>>

(* wait_for_coldboot: from one wfi to the next.                            *)
wait_for_coldboot(h) ==
    /\ pc[h] = "coldwait"
    /\ Goto(h, IF coldboot_done THEN "coldclear" ELSE "coldwfi")
    /\ coldboot_wait' = IF coldboot_done THEN coldboot_wait \ {h} ELSE coldboot_wait \cup {h}
    /\ UNCHANGED <<ipis, msip, lottery, coldboot_done, calling, hart>>

(* wfi may return for no reason, and does when the interrupt is pending.   *)
wfi(h) ==
    /\ Step(h, "coldwfi", "coldwait") \/ Step(h, "hsmwfi", "hsmwait")
    /\ UNCHANGED <<ipis, msip, boot, calling, hart>>

(* Whose interrupt h clears.  sbi_platform_ipi_clear takes a cpu number;   *)
(* sbi_hsm_hart_wait gives it a hart id.                                   *)
Cleared(h) == IF pc[h] = "hsmclear" THEN smp_hw_cpu_hart(h) ELSE h

\* Mutant: sbi_hsm_hart_wait waits before it looks at the state
WaitFirst(h) ==
    /\ \/ Step(h, "coldclear", "hsmwfi") \/ Step(h, "hsmclear", "ipiinit")
       \/ Step(h, "ipiclear", "mark")
    /\ msip' = [t \in Harts |-> msip[t] /\ t # Cleared(h)]
    /\ UNCHANGED <<ipis, boot, calling, hart>>

\* Mutant: the hart is marked available before sbi_ipi_init
MarkedEarly(h) ==
    /\ \/ Step(h, "coldclear", "hsmwait") /\ UNCHANGED available
       \/ Step(h, "hsmclear", "ipiinit") /\ available' = available \cup {h}
       \/ Step(h, "ipiclear", "mark") /\ UNCHANGED available
    /\ msip' = [t \in Harts |-> msip[t] /\ t # Cleared(h)]
    /\ UNCHANGED <<ipis, boot, calling, hsm, next_addr, entered>>

(* The interrupt is cleared at the end of both waits, and by the platform  *)
(* at the end of sbi_ipi_init.                                             *)
ClearIpi(h) ==
    /\ \/ Step(h, "coldclear", "hsmwait") \/ Step(h, "hsmclear", "ipiinit")
       \/ Step(h, "ipiclear", "mark")
    /\ msip' = [t \in Harts |-> msip[t] /\ t # Cleared(h)]
    /\ UNCHANGED <<ipis, boot, calling, hart>>

sbi_hsm_hart_wait(h) ==
    /\ pc[h] = "hsmwait"
    /\ Goto(h, IF hsm[h] = "STARTING" THEN "hsmclear" ELSE "hsmwfi")
    /\ UNCHANGED <<ipis, msip, boot, calling, hart>>

(* sbi_ipi_init(false): the events, sbi_tlb_fifo_init, the interrupt.      *)
sbi_ipi_init(h) ==
    /\ Step(h, "ipiinit", "fifoinit")
    /\ ipi_type' = [ipi_type EXCEPT ![h] = {}]
    /\ UNCHANGED <<fifo, tlb_sync, msip, ssip, calls, pend, serving, fenced, boot, calling, hart>>

sbi_tlb_fifo_init(h) ==
    /\ Step(h, "fifoinit", "ipiclear")
    /\ tlb_sync' = [tlb_sync EXCEPT ![h] = 0]
    /\ fifo' = [fifo EXCEPT ![h] = EmptyFifo]
    /\ UNCHANGED <<ipi_type, msip, ssip, calls, pend, serving, fenced, boot, calling, hart>>

sbi_hart_mark_available(h) ==
    /\ Step(h, "mark", "ready")
    /\ available' = available \cup {h}
    /\ UNCHANGED <<ipis, msip, boot, calling, hsm, next_addr, entered>>

sbi_hsm_prepare_next_jump(h) ==
    /\ pc[h] = "ready"
    /\ Goto(h, IF hsm[h] = "STARTING" THEN "jump" ELSE "panic")
    /\ hsm' = [hsm EXCEPT ![h] = IF @ = "STARTING" THEN "STARTED" ELSE @]
    /\ UNCHANGED <<ipis, msip, boot, calling, available, next_addr, entered>>

sbi_hart_switch_mode(h) ==
    /\ Step(h, "jump", "run")
    /\ entered' = [entered EXCEPT ![h] = next_addr[h]]
    /\ UNCHANGED <<ipis, msip, boot, calling, hsm, available, next_addr>>

-----------------------------------------------------------------------------
(* sbi_hsm.c: the calls of the supervisor.                                 *)

(* sbi_hsm_hart_start: the state first, then the check of the address, the *)
(* address, and the interrupt.  A hart that is not STOPPED is an error.    *)
sbi_hsm_hart_start(h, t, addr) ==
    /\ t \notin Disabled /\ hsm[t] = "STOPPED"
    /\ Step(h, "run", "check")
    /\ hsm' = [hsm EXCEPT ![t] = "STARTING"]
    /\ start' = [start EXCEPT ![h] = <<t, addr>>]
    /\ told' = [told EXCEPT ![t] = addr]
    /\ UNCHANGED <<ipis, msip, boot, ncalls, available, next_addr, entered>>

StartCheck(h) ==
    /\ pc[h] = "check"
    /\ LET t == start[h][1]
           addr == start[h][2]
       IN IF addr \in Refused
          THEN /\ Goto(h, "run")
               /\ start' = [start EXCEPT ![h] = NoStart]
               /\ UNCHANGED next_addr
          ELSE /\ Goto(h, "startkick")
               /\ next_addr' = [next_addr EXCEPT ![t] = addr]
               /\ UNCHANGED start
    /\ UNCHANGED <<ipis, msip, boot, told, ncalls, hsm, available, entered>>

StartKick(h) ==
    /\ Step(h, "startkick", "run")
    /\ msip' = [msip EXCEPT ![start[h][1]] = TRUE]
    /\ start' = [start EXCEPT ![h] = NoStart]
    /\ UNCHANGED <<ipis, boot, told, ncalls, hart>>

(* sbi_hsm_hart_stop.  sbi_exit is commented out: the call returns, and    *)
(* the hart goes on.                                                       *)
sbi_hsm_hart_stop(h) ==
    /\ pc[h] = "run" /\ hsm[h] = "STARTED"
    /\ hsm' = [hsm EXCEPT ![h] = "STOPPING"]
    /\ UNCHANGED <<ipis, msip, pc, boot, calling, available, next_addr, entered>>

-----------------------------------------------------------------------------
(* The interrupts and fences.  A supervisor names harts that are in        *)
(* avail_hart_mask, as sbi_ecall_legacy.c does by default; the shutdown    *)
(* takes that mask itself.                                                 *)
Calls(h) ==
    /\ ncalls < MaxCalls
    /\ ncalls' = ncalls + 1
    /\ Call(h, available) /\ set'[h] \subseteq available
    /\ UNCHANGED <<boot, start, told, hart>>

(* The supervisor takes its interrupt: sbi_ipi_clear_smode.                *)
sbi_ipi_clear_smode(h) ==
    /\ pc[h] = "run" /\ ssip[h]
    /\ ssip' = [ssip EXCEPT ![h] = FALSE]
    /\ UNCHANGED <<fifo, tlb_sync, ipi_type, msip, pc, calls, pend, serving, fenced>>

Interrupts(h) ==
    /\ Clear(h) \/ sbi_ipi_clear_smode(h) \/ Firmware(h)
    /\ UNCHANGED <<boot, calling, hart>>

Boot(h) ==
    \/ sbi_init(h) \/ init_coldboot(h) \/ wake_coldboot_harts(h) \/ wait_for_coldboot(h)
    \/ ClearIpi(h) \/ sbi_hsm_hart_wait(h)
    \/ sbi_ipi_init(h) \/ sbi_tlb_fifo_init(h) \/ sbi_hart_mark_available(h)
    \/ sbi_hsm_prepare_next_jump(h) \/ sbi_hart_switch_mode(h)
    \/ StartCheck(h) \/ StartKick(h)

HartNext == \E h \in Harts :
    \/ Boot(h) \/ wfi(h)
    \/ \E t \in Harts, addr \in Addresses : sbi_hsm_hart_start(h, t, addr)
    \/ sbi_hsm_hart_stop(h)
    \/ Calls(h) \/ Interrupts(h)

HartSpec == HartInit /\ [][HartNext]_hartvars

(* A hart runs its code; wfi returns, and a supervisor is interrupted,     *)
(* when the interrupt is pending.  Busy is when a hart can take such a     *)
(* step, so that this is weak fairness of Runs.  Strong fairness of Clear, *)
(* as in RemoteFence, is not needed: the calls are bounded.                *)
Busy(h) ==
    CASE pc[h] \in {"run", "coldwfi", "hsmwfi"} -> msip[h]
      [] pc[h] = "panic" -> FALSE
      [] pc[h] = "ack" -> tlb_sync[cur[h]] = 0
      [] OTHER -> TRUE

Runs(h) == Boot(h) \/ wfi(h) \/ ((Clear(h) \/ Firmware(h)) /\ UNCHANGED <<boot, calling, hart>>)

HartFairness == \A h \in Harts : <>[]Busy(h) => []<><<Runs(h)>>_hartvars

FairHartSpec == HartSpec /\ HartFairness

-----------------------------------------------------------------------------
(* A hart enters its supervisor at the address given by the one call that  *)
(* has started it (the cold hart at the payload).  Two cases are excepted, *)
(* for sbi_hsm_hart_start makes STARTING visible before it has checked and *)
(* stored the address: the hart comes first, between the two; or the       *)
(* address is refused, which leaves the hart STARTING.                     *)
EntersWhereTold ==
    [][\A t \in Harts : entered'[t] # entered[t] =>
          \/ entered'[t] = told[t] \/ told[t] \in Refused
          \/ \E h \in Harts : pc[h] = "check" /\ start[h][1] = t]_hartvars

(* No wake-up of the boot is lost: every hart leaves wait_for_coldboot,    *)
(* whether it comes before, during or after wake_coldboot_harts.           *)
Waiting == {"reset", "coldinit", "wake", "coldwait", "coldwfi", "coldclear"}
HartsWoken == <>(\A h \in Enabled : pc[h] \notin Waiting)

(* A hart that sbi_hsm_hart_start has accepted is started, wherever in its *)
(* boot the call and its interrupt find it: again and again there is a     *)
(* time when none is left STARTING, which a hart is only once.             *)
StartCompletes ==
    []<>(\A t \in Harts : hsm[t] = "STARTING" => told[t] \in Refused)

(* A software interrupt that sbi_ipi_send has recorded for a hart reaches  *)
(* its supervisor, whatever sbi_ipi_process is doing when it comes in.     *)
SoftDelivered == Quiet => \A t \in Enabled : SOFT \in ipi_type[t] ~> ssip[t]
=============================================================================
