---------------------------- MODULE RemoteFence -----------------------------
(***************************************************************************)
(* Inter-processor interrupts and remote fences of the SBI firmware:       *)
(* arch/riscv/sbi/sbi_ipi.c, sbi_tlb.c and sbi_fifo.c.                     *)
(*                                                                         *)
(* A hart that asks others to flush puts an entry into the FIFO of each of *)
(* them in turn, raises their software interrupt and spins until its own   *)
(* tlb_sync is set; while it spins it serves the entries in its own FIFO.  *)
(* The firmware runs with interrupts off, so that a hart is either out of  *)
(* it ("run") or at a label of the functions below.  Each access to memory *)
(* other harts see is one step; what sbi_fifo.c does under qlock is one    *)
(* access.  An entry is the hart that made it: the address range is copied *)
(* from the caller's sbi_tlb_info, of which every hart has one at a time,  *)
(* and so is shart_mask, which has the bit of that hart only.              *)
(***************************************************************************)
EXTENDS Integers, FiniteSetsExt

CONSTANTS Harts,        \* the hart ids
          Disabled,     \* those of sbi_platform_hart_disabled, which never run;
                        \*   the others have been started and run
          NumEntries,   \* SBI_TLB_FIFO_NUM_ENTRIES, 8 in the code
          Events,       \* the events in use, of SOFT, RFENCE and HALT
          Bases,        \* the values of hbase that are passed
          Callers,      \* bound: the harts whose supervisors make calls,
          HMasks        \*   and the values of hmask, as sets of bits

SOFT == 1
RFENCE == 2
HALT == 16
NONE == 0
Nobody == -1

ASSUME HartsAssumption ==
    /\ Harts \subseteq Nat /\ Disabled \subseteq Harts /\ Callers \subseteq Harts \ Disabled
    /\ Bases \subseteq Nat /\ HMasks \subseteq SUBSET Nat
ASSUME EntriesAssumption == NumEntries \in Nat \ {0}
ASSUME EventsAssumption == Events \subseteq {SOFT, RFENCE, HALT}

VARIABLES fifo,      \* fifo[h]: tail, avail and queue of the FIFO of h
          tlb_sync,  \* tlb_sync[h]
          ipi_type,  \* ipi_type[h]: the events whose bit is set
          msip,      \* msip[h]: the software interrupt of h is pending
          ssip,      \* ssip[h]: that of its supervisor is
          pc,
          event,     \* event[h], todo[h]: the event h is sending, and to whom
          todo,      \*   it has yet to send it
          pend,      \* pend[h]: ipi_type in sbi_ipi_process
          back,      \* back[h], deq[h], cur[h]: the loop that h serves its FIFO
          deq,       \*   in, its deq_count, and the entry it is serving
          cur,
          set,       \* history: the harts the request of h names, and those
          fenced     \*   that have flushed for it

calls == <<event, todo, set>>
serving == <<back, deq, cur>>
vars == <<fifo, tlb_sync, ipi_type, msip, ssip, pc, event, todo, pend, back, deq, cur, set, fenced>>

Enabled == Harts \ Disabled
Labels == {"run", "send", "raise", "kick", "sync", "serve", "ack", "xchg", "events", "panic"}

TypeOK == /\ fifo \in [Harts -> [tail : 0 .. NumEntries - 1, avail : 0 .. NumEntries,
                                 queue : [0 .. NumEntries - 1 -> Harts \cup {Nobody}]]]
          /\ tlb_sync \in [Harts -> {0, 1}]
          /\ ipi_type \in [Harts -> SUBSET Events]
          /\ msip \in [Harts -> BOOLEAN]
          /\ ssip \in [Harts -> BOOLEAN]
          /\ pc \in [Harts -> Labels]
          /\ event \in [Harts -> Events \cup {NONE}]
          /\ todo \in [Harts -> SUBSET Harts]
          /\ pend \in [Harts -> SUBSET Events]
          /\ back \in [Harts -> {"send", "sync", "events"}]
          /\ deq \in [Harts -> 0 .. 1]
          /\ cur \in [Harts -> Harts \cup {Nobody}]
          /\ set \in [Harts -> SUBSET Harts]
          /\ fenced \in [Harts -> SUBSET Harts]

(* sbi_fifo_init                                                           *)
EmptyFifo == [tail |-> 0, avail |-> 0, queue |-> [i \in 0 .. NumEntries - 1 |-> Nobody]]

(* sbi_ipi_init and sbi_tlb_fifo_init, on every hart.                      *)
Quiescent == /\ fifo = [h \in Harts |-> EmptyFifo]
             /\ tlb_sync = [h \in Harts |-> 0]
             /\ ipi_type = [h \in Harts |-> {}]
             /\ msip = [h \in Harts |-> FALSE]
             /\ ssip = [h \in Harts |-> FALSE]
             /\ event = [h \in Harts |-> NONE]
             /\ todo = [h \in Harts |-> {}]
             /\ pend = [h \in Harts |-> {}]
             /\ back = [h \in Harts |-> "send"]
             /\ deq = [h \in Harts |-> 0]
             /\ cur = [h \in Harts |-> Nobody]
             /\ set = [h \in Harts |-> {}]
             /\ fenced = [h \in Harts |-> {}]

Init == Quiescent /\ pc = [h \in Harts |-> "run"]

Goto(h, label) == pc' = [pc EXCEPT ![h] = label]

-----------------------------------------------------------------------------
(* sbi_fifo.c                                                              *)

is_full(f) == f.avail = NumEntries
is_empty(f) == f.avail = 0

Slot(n) == IF n >= NumEntries THEN n - NumEntries ELSE n

sbi_fifo_enqueue(f, entry) ==
    [tail |-> f.tail, avail |-> f.avail + 1,
     queue |-> [f.queue EXCEPT ![Slot(f.tail + f.avail)] = entry]]

(* The entry is left in its slot, which sets no state apart: cleared here. *)
sbi_fifo_dequeue(f) ==
    [tail |-> Slot(f.tail + 1), avail |-> f.avail - 1,
     queue |-> [f.queue EXCEPT ![f.tail] = Nobody]]

-----------------------------------------------------------------------------
(* sbi_ipi_send_many: the harts of the set, and the caller, whose own bit  *)
(* is looked for at hartid, wherever hbase is.                             *)
\* Mutant: the caller is forgotten
TargetsOthers(h, hmask, hbase) == {hbase + b : b \in hmask} \ ({h} \cup Disabled)

Targets(h, hmask, hbase) ==
    ({hbase + b : b \in hmask} \ ({h} \cup Disabled)) \cup ({h} \cap hmask)

Request(h, e, hmask, hbase) ==
    /\ pc[h] = "run" /\ h \in Callers
    /\ Goto(h, "send")
    /\ event' = [event EXCEPT ![h] = e]
    /\ todo' = [todo EXCEPT ![h] = Targets(h, hmask, hbase)]
    /\ set' = [set EXCEPT ![h] = {hbase + b : b \in hmask} \ Disabled]
    /\ UNCHANGED <<fifo, tlb_sync, ipi_type, msip, ssip, pend, serving, fenced>>

(* The calls: a software interrupt (sbi_ecall_ipi_handler) or a fence      *)
(* (sbi_ecall_rfence_handler, sbi_tlb_request), to harts that exist, from  *)
(* hbase up; or the end of sbi_system_shutdown and sbi_system_finish, when *)
(* the platform's own method has returned, to sbi_hart_available_mask.     *)
Masks(e, hbase, available_mask) ==
    IF e = HALT THEN {m \in {available_mask} : hbase = 0}
    ELSE {m \in HMasks : \A b \in m : hbase + b \in Harts}

Call(h, available_mask) == \E e \in Events, hbase \in Bases :
    \E m \in Masks(e, hbase, available_mask) : Request(h, e, m, hbase)

(* The loop of sbi_ipi_send_many comes to its end.                         *)
Return(h) ==
    /\ pc[h] = "send" /\ todo[h] = {}
    /\ Goto(h, IF event[h] = HALT THEN "panic" ELSE "run")
    /\ event' = [event EXCEPT ![h] = NONE]
    /\ set' = [set EXCEPT ![h] = {}]
    /\ fenced' = [fenced EXCEPT ![h] = {}]
    /\ UNCHANGED <<fifo, tlb_sync, ipi_type, msip, ssip, todo, pend, serving>>

(* The other harts in ascending order, then the caller.                    *)
Target(h) == IF todo[h] \subseteq {h} THEN h ELSE Min(todo[h] \ {h})

Advance(h) == todo' = [todo EXCEPT ![h] = @ \ {Target(h)}]

(* h serves its own FIFO, and goes to `label` afterwards.                  *)
Serve(h, label) ==
    /\ Goto(h, "serve")
    /\ back' = [back EXCEPT ![h] = label]
    /\ deq' = [deq EXCEPT ![h] = 0]

(* sbi_ipi_send and, for a fence, sbi_tlb_fifo_update.  The callback given *)
(* to sbi_fifo_inplace_update returns at once for every entry there is     *)
(* (`!!data`), so that no entry is ever merged into another.               *)
\* Mutant: the entry is written over the oldest one
FullNever(h, t) == FALSE

Full(h, t) == is_full(fifo[t])

sbi_tlb_fifo_update(h) ==
    /\ pc[h] = "send" /\ todo[h] # {} /\ event[h] = RFENCE
    /\ LET t == Target(h) IN
       \/ /\ t = h
          /\ fenced' = [fenced EXCEPT ![h] = @ \cup {h}]
          /\ Advance(h)
          /\ UNCHANGED <<fifo, pc, serving>>
       \/ /\ t # h /\ Full(h, t)
          /\ Serve(h, "send")
          /\ UNCHANGED <<fifo, todo, cur, fenced>>
       \/ /\ t # h /\ ~Full(h, t)
          /\ fifo' = [fifo EXCEPT ![t] = sbi_fifo_enqueue(@, h)]
          /\ Goto(h, "raise")
          /\ UNCHANGED <<todo, serving, fenced>>
    /\ UNCHANGED <<tlb_sync, ipi_type, msip, ssip, event, pend, set>>

(* atomic_or(_BV(event), &ipi_type)                                        *)
Raise(h) ==
    /\ \/ pc[h] = "raise"
       \/ pc[h] = "send" /\ todo[h] # {} /\ event[h] # RFENCE
    /\ ipi_type' = [ipi_type EXCEPT ![Target(h)] = @ \cup {event[h]}]
    /\ Goto(h, "kick")
    /\ UNCHANGED <<fifo, tlb_sync, msip, ssip, calls, pend, serving, fenced>>

(* sbi_platform_ipi_send; a fence then waits in sbi_tlb_fifo_sync.         *)
Kick(h) ==
    /\ pc[h] = "kick"
    /\ msip' = [msip EXCEPT ![Target(h)] = TRUE]
    /\ IF event[h] = RFENCE
       THEN Goto(h, "sync") /\ UNCHANGED todo
       ELSE Goto(h, "send") /\ Advance(h)
    /\ UNCHANGED <<fifo, tlb_sync, ipi_type, ssip, event, set, pend, serving, fenced>>

\* Mutant: tlb_sync is read and not exchanged
SyncReads(h) ==
    /\ pc[h] = "sync" /\ tlb_sync[h] = 1
    /\ Advance(h)
    /\ Goto(h, "send")
    /\ UNCHANGED <<fifo, tlb_sync, ipi_type, msip, ssip, event, set, pend, serving, fenced>>

\* Mutant: it spins, and leaves its own FIFO alone
SyncSpins(h) ==
    /\ pc[h] = "sync" /\ tlb_sync[h] = 1
    /\ tlb_sync' = [tlb_sync EXCEPT ![h] = 0]
    /\ Advance(h)
    /\ Goto(h, "send")
    /\ UNCHANGED <<fifo, ipi_type, msip, ssip, event, set, pend, serving, fenced>>

(* while (!xchg(tlb_sync, 0)) sbi_tlb_fifo_process_count(scratch, 1)       *)
sbi_tlb_fifo_sync(h) ==
    /\ pc[h] = "sync"
    /\ \/ /\ tlb_sync[h] = 1
          /\ tlb_sync' = [tlb_sync EXCEPT ![h] = 0]
          /\ Advance(h)
          /\ Goto(h, "send")
          /\ UNCHANGED serving
       \/ /\ tlb_sync[h] = 0
          /\ Serve(h, "sync")
          /\ UNCHANGED <<tlb_sync, todo, cur>>
    /\ UNCHANGED <<fifo, ipi_type, msip, ssip, event, set, pend, fenced>>

-----------------------------------------------------------------------------
(* sbi_tlb_fifo_process and sbi_tlb_fifo_process_count: take an entry and  *)
(* flush, which nobody else sees, then acknowledge; or find the FIFO empty.*)
Dequeue(h) ==
    /\ pc[h] = "serve" /\ ~is_empty(fifo[h])
    /\ LET source == fifo[h].queue[fifo[h].tail] IN
       /\ cur' = [cur EXCEPT ![h] = source]
       /\ fenced' = [fenced EXCEPT ![source] = @ \cup {h}]
    /\ fifo' = [fifo EXCEPT ![h] = sbi_fifo_dequeue(@)]
    /\ Goto(h, "ack")
    /\ UNCHANGED <<tlb_sync, ipi_type, msip, ssip, calls, pend, back, deq>>

Served(h) ==
    /\ pc[h] = "serve" /\ is_empty(fifo[h])
    /\ Goto(h, back[h])
    /\ deq' = [deq EXCEPT ![h] = 0]
    /\ back' = [back EXCEPT ![h] = "send"]
    /\ UNCHANGED <<fifo, tlb_sync, ipi_type, msip, ssip, calls, pend, cur, fenced>>

(* while (xchg(rtlb_sync, 1)): goes round for as long as it is set.  The   *)
(* count of 1 of process_count lets a second entry through.                *)
Acknowledge(h) ==
    /\ pc[h] = "ack" /\ tlb_sync[cur[h]] = 0
    /\ tlb_sync' = [tlb_sync EXCEPT ![cur[h]] = 1]
    /\ cur' = [cur EXCEPT ![h] = Nobody]
    /\ IF back[h] # "events" /\ deq[h] + 1 > 1
       THEN /\ Goto(h, back[h])
            /\ deq' = [deq EXCEPT ![h] = 0]
            /\ back' = [back EXCEPT ![h] = "send"]
       ELSE /\ Goto(h, "serve")
            /\ deq' = [deq EXCEPT ![h] = IF back[h] = "events" THEN 0 ELSE @ + 1]
            /\ UNCHANGED back
    /\ UNCHANGED <<fifo, ipi_type, msip, ssip, calls, pend, fenced>>

-----------------------------------------------------------------------------
(* sbi_ipi_process: clear the interrupt, take the events, serve them from  *)
(* the lowest bit up.                                                      *)
Clear(h) ==
    /\ pc[h] = "run" /\ msip[h] /\ h \in Enabled
    /\ msip' = [msip EXCEPT ![h] = FALSE]
    /\ Goto(h, "xchg")
    /\ UNCHANGED <<fifo, tlb_sync, ipi_type, ssip, calls, pend, serving, fenced>>

Take(h) ==
    /\ pc[h] = "xchg"
    /\ pend' = [pend EXCEPT ![h] = ipi_type[h]]
    /\ ipi_type' = [ipi_type EXCEPT ![h] = {}]
    /\ Goto(h, "events")
    /\ UNCHANGED <<fifo, tlb_sync, msip, ssip, calls, serving, fenced>>

Lowest(events) == IF events = {} THEN NONE ELSE Min(events)

Handle(h, e) ==
    /\ pend' = [pend EXCEPT ![h] = @ \ {e}]
    /\ ssip' = IF e = SOFT THEN [ssip EXCEPT ![h] = TRUE] ELSE ssip
    /\ CASE e = NONE -> Goto(h, "run") /\ UNCHANGED serving
         [] e = SOFT -> UNCHANGED <<pc, serving>>
         [] e = RFENCE -> Serve(h, "events") /\ UNCHANGED cur
         [] e = HALT -> Goto(h, "panic") /\ UNCHANGED serving
    /\ UNCHANGED <<fifo, tlb_sync, ipi_type, calls, fenced>>

\* Mutant: the interrupt is cleared when the events have been served
ProcessClearing(h) ==
    /\ pc[h] = "events"
    /\ Handle(h, Lowest(pend[h]))
    /\ msip' = IF pend[h] = {} THEN [msip EXCEPT ![h] = FALSE] ELSE msip

Process(h) ==
    /\ pc[h] = "events"
    /\ Handle(h, Lowest(pend[h]))
    /\ UNCHANGED msip

Firmware(h) ==
    \/ Return(h) \/ sbi_tlb_fifo_update(h) \/ Raise(h) \/ Kick(h) \/ sbi_tlb_fifo_sync(h)
    \/ Dequeue(h) \/ Served(h) \/ Acknowledge(h)
    \/ Take(h) \/ Process(h)

Next == \E h \in Harts :
    \/ Call(h, Enabled)
    \/ Clear(h)
    \/ Firmware(h)

Spec == Init /\ [][Next]_vars

(* A hart in the firmware keeps running its code.  A pending interrupt is  *)
(* taken between two calls even if there is always another one to make, so *)
(* that Clear, enabled again and again, is taken: strong fairness.         *)
Fairness == \A h \in Harts : WF_vars(Firmware(h)) /\ SF_vars(Clear(h))

FairSpec == Spec /\ Fairness

-----------------------------------------------------------------------------
(* When a fence returns to the supervisor, every hart it names has flushed *)
(* for it (what the waiting in sbi_tlb_fifo_sync is for).  With an hbase   *)
(* other than 0 the caller's own flush is left out of the claim: the test  *)
(* `hmask & (1UL << hartid)` does not look at the caller's bit then.       *)
FencedOnReturn ==
    [][\A h \in Harts : Return(h) /\ event[h] = RFENCE
           => set[h] \ fenced[h] \subseteq (IF Bases = {0} THEN {} ELSE {h})]_vars

(* An event is never left behind: as long as the bit of an event is set in *)
(* ipi_type of a hart, its interrupt is pending, or it is about to read    *)
(* the word, or a hart that has set a bit is about to interrupt it.        *)
EventsNotLost ==
    \A t \in Harts : ipi_type[t] # {} =>
        \/ msip[t] \/ pc[t] = "xchg"
        \/ \E h \in Harts : pc[h] = "kick" /\ Target(h) = t

(* The flushes that are due for s: its entries in the FIFOs, by hart and   *)
(* slot, and those not acknowledged yet, as if in a slot NumEntries.       *)
Due(s) == {p \in Harts \X (0 .. NumEntries) :
    IF p[2] < NumEntries THEN fifo[p[1]].queue[p[2]] = s ELSE pc[p[1]] = "ack" /\ cur[p[1]] = s}

Awaits(s, t) == event[s] = RFENCE /\ todo[s] # {} /\ Target(s) = t

(* A hart waits for one flush at a time: an entry, or a flush not yet      *)
(* acknowledged, is of a hart that still waits for it at that target, it   *)
(* is the only one of that hart, and its tlb_sync is clear; so the loop    *)
(* that acknowledges, while (xchg(rtlb_sync, 1)), never goes round.        *)
OneFlushAwaited ==
    \A s \in Harts : \A p, q \in Due(s) : p = q /\ tlb_sync[s] = 0 /\ Awaits(s, p[1])

(* The premise of what must happen: no hart is halted, for a halted hart   *)
(* acknowledges nothing, and from some time on no new call is made.  The   *)
(* second part is needed: a hart that finds a FIFO full may find it full   *)
(* again each time it looks, and sbi_tlb_fifo_process goes on for as long  *)
(* as there is an entry, ahead of the events that came in meanwhile.       *)
Quiet == /\ [](\A h \in Enabled : pc[h] # "panic")
         /\ <>[][\A h \in Harts : event[h] = NONE => event'[h] = NONE]_vars

(* Nobody waits for ever, whoever waits for whom and however full the      *)
(* FIFOs are: every call of sbi_ipi_send_many returns.  It is what serving *)
(* one's own FIFO is for in sbi_tlb_fifo_update and sbi_tlb_fifo_sync      *)
(* ("consume fifo requests to avoid deadlock").                            *)
EveryCallReturns == Quiet => \A h \in Harts : event[h] # NONE ~> event[h] = NONE
=============================================================================
