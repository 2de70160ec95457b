-------------------------- MODULE HartStartProofs ---------------------------
(***************************************************************************)
(* What a remote fence guarantees for any number of harts and any size of  *)
(* the FIFOs: when it returns every hart it names has flushed, a hart      *)
(* waits for one flush at a time, and no event is left behind.  And what   *)
(* the fences and interrupts guarantee holds while harts boot and are      *)
(* started; and a hart enters its supervisor where the call that started   *)
(* it says.                                                                *)
(***************************************************************************)
EXTENDS HartStart, TLAPS, WellFoundedInduction

(* Most steps are first-order; the others name the SMT solver.             *)
USE Zenon

Slots == 0 .. NumEntries - 1

(* Where a hart is in one of the loops that serve its own FIFO, and where  *)
(* it has an entry out or waits for the acknowledgement.                   *)
Serves(h, label) == pc[h] \in {"serve", "ack"} /\ back[h] = label
Waits(h) == pc[h] \in {"raise", "kick", "sync"} \/ Serves(h, "sync")
Sends(h) == pc[h] = "send" \/ Serves(h, "send")

(* The locals of sbi_ipi_send_many are valid while it runs.                *)
Placed ==
    \A h \in Harts :
        /\ Sends(h) \/ Waits(h) => event[h] # NONE
        /\ Waits(h) => todo[h] # {}
        /\ Waits(h) /\ pc[h] # "kick" => event[h] = RFENCE

(* The slots in use are the avail slots from tail on, around the end.      *)
InUse(f, i) == (IF i >= f.tail THEN i - f.tail ELSE i - f.tail + NumEntries) < f.avail
Window(f) == \A i \in Slots : f.queue[i] # Nobody <=> InUse(f, i)
Windows == \A t \in Harts : Window(fifo[t])

(* The one place where the request of a hart can be: an entry, a flush     *)
(* about to be acknowledged, or tlb_sync.                                  *)
Entry(t, i) == fifo[t].queue[i]
Queued == \A s, t \in Harts : \A i \in Slots :
    Entry(t, i) = s =>
        /\ tlb_sync[s] = 0 /\ Awaits(s, t) /\ Waits(s)
        /\ ~ (pc[t] = "ack" /\ cur[t] = s)
        /\ \A j \in Slots : Entry(t, j) = s => j = i

Acking == \A t \in Harts : pc[t] = "ack" =>
    /\ cur[t] \in Harts /\ tlb_sync[cur[t]] = 0
    /\ Awaits(cur[t], t) /\ Waits(cur[t]) /\ t \in fenced[cur[t]]

Synced == \A s \in Harts : tlb_sync[s] = 1 =>
    event[s] = RFENCE /\ Waits(s) /\ Target(s) \in fenced[s]

(* Where the request of a hart is: in one entry of one FIFO, with the hart *)
(* that is about to acknowledge it, or in its own tlb_sync, and nowhere    *)
(* when it does not wait.                                                  *)
Flow == Windows /\ Queued /\ Acking /\ Synced

(* Who has not flushed is yet to be asked.                                 *)
Excepted(h) == IF Bases = {0} THEN {} ELSE {h}
Covered == \A h \in Harts : event[h] = RFENCE =>
    set[h] \ fenced[h] \subseteq todo[h] \cup Excepted(h)

IInv == TypeOK /\ Placed /\ Flow /\ Covered

(* The same of harts that have more labels: those of HartStart.            *)
Fifos == [tail : 0 .. NumEntries - 1, avail : 0 .. NumEntries,
          queue : [0 .. NumEntries - 1 -> Harts \cup {Nobody}]]

Typed(L) ==
    /\ fifo \in [Harts -> Fifos]
    /\ tlb_sync \in [Harts -> {0, 1}]
    /\ ipi_type \in [Harts -> SUBSET Events]
    /\ msip \in [Harts -> BOOLEAN]
    /\ ssip \in [Harts -> BOOLEAN]
    /\ pc \in [Harts -> L]
    /\ event \in [Harts -> Events \cup {NONE}]
    /\ todo \in [Harts -> SUBSET Harts]
    /\ pend \in [Harts -> SUBSET Events]
    /\ back \in [Harts -> {"send", "sync", "events"}]
    /\ deq \in [Harts -> 0 .. 1]
    /\ cur \in [Harts -> Harts \cup {Nobody}]
    /\ set \in [Harts -> SUBSET Harts]
    /\ fenced \in [Harts -> SUBSET Harts]

LEMMA TypedIs == TypeOK <=> Typed(Labels)
BY Zenon DEF TypeOK, Typed, Fifos

Acts(h, mask) == Call(h, mask) \/ Clear(h) \/ Firmware(h)

-----------------------------------------------------------------------------
(* Min returns a member of any set of numbers that has one.                *)
LEMMA MinIn ==
    ASSUME NEW S \in SUBSET Nat, S # {}
    PROVE  Min(S) \in S
<1>1. PICK m \in S : \A n \in S : ~ (<<n, m>> \in OpToRel(<, Nat))
  BY WFMin, NatLessThanWellFounded
<1>2. ASSUME NEW n \in S PROVE ~ (n < m)
  <2> SUFFICES ASSUME n < m PROVE FALSE
    OBVIOUS
  <2>1. <<n, m>> \in Nat \X Nat /\ <<n, m>>[1] < <<n, m>>[2]
    OBVIOUS
  <2>2. <<n, m>> \in OpToRel(<, Nat)
    BY <2>1 DEF OpToRel
  <2> QED BY <1>1, <2>2
<1>3. \A n \in S : m =< n
  BY <1>2, SMT
<1> QED BY <1>3 DEF Min

(* As long as there is somebody to send to, Target is one of them.         *)
LEMMA TargetIn ==
    ASSUME NEW h \in Harts, todo \in [Harts -> SUBSET Harts], todo[h] # {}
    PROVE  Target(h) \in todo[h] /\ Target(h) \in Harts
<1>1. CASE todo[h] \subseteq {h}
  BY <1>1 DEF Target
<1>2. CASE ~ (todo[h] \subseteq {h})
  <2>1. todo[h] \ {h} \in SUBSET Nat /\ todo[h] \ {h} # {}
    BY <1>2, HartsAssumption
  <2>2. Min(todo[h] \ {h}) \in todo[h] \ {h}
    BY <2>1, MinIn
  <2> QED BY <1>2, <2>2 DEF Target
<1> QED BY <1>1, <1>2

LEMMA LowestIn ==
    ASSUME NEW events \in SUBSET Events
    PROVE  Lowest(events) \in {NONE} \cup events
<1>1. events \in SUBSET Nat
  BY EventsAssumption, SMT DEF SOFT, RFENCE, HALT
<1>2. CASE events # {}
  BY <1>1, <1>2, MinIn DEF Lowest
<1> QED BY <1>2 DEF Lowest

LEMMA NobodyIsNoHart == Nobody \notin Harts
BY HartsAssumption, SMT DEF Nobody

(* sbi_fifo_enqueue puts the entry into a slot that was free, and into no  *)
(* other.                                                                  *)
LEMMA Enqueues ==
    ASSUME NEW f \in Fifos, NEW e \in Harts, ~ is_full(f), Window(f)
    PROVE  LET g == sbi_fifo_enqueue(f, e)
           IN /\ g \in Fifos /\ Window(g)
              /\ \E j \in Slots : f.queue[j] = Nobody /\ g.queue = [f.queue EXCEPT ![j] = e]
<1> DEFINE j == Slot(f.tail + f.avail)
           g == sbi_fifo_enqueue(f, e)
<1>1. NumEntries \in Nat /\ NumEntries >= 1
  BY EntriesAssumption, SMT
<1>2. /\ f.tail \in 0 .. NumEntries - 1 /\ f.avail \in 0 .. NumEntries - 1
      /\ f.queue \in [Slots -> Harts \cup {Nobody}]
  BY <1>1, SMT DEF Fifos, is_full, Slots
<1>3. j \in Slots
  BY <1>1, <1>2, SMT DEF Slot, Slots
<1>4. /\ g \in Fifos
      /\ g.tail = f.tail /\ g.avail = f.avail + 1
      /\ g.queue = [f.queue EXCEPT ![j] = e]
  BY <1>1, <1>2, <1>3, SMT DEF sbi_fifo_enqueue, Fifos, Slots
<1> HIDE DEF g
<1>5. ~ InUse(f, j) /\ InUse(g, j)
  BY <1>1, <1>2, <1>4, SMT DEF InUse, Slot
<1>6. \A i \in Slots : i # j => (InUse(g, i) <=> InUse(f, i))
  BY <1>1, <1>2, <1>4, SMTT(30) DEF InUse, Slot, Slots
<1> HIDE DEF j
<1>7. f.queue[j] = Nobody
  BY <1>3, <1>5 DEF Window
<1>8. Window(g)
  BY <1>2, <1>3, <1>4, <1>5, <1>6, NobodyIsNoHart DEF Window
<1> QED BY <1>3, <1>4, <1>7, <1>8 DEF g

(* sbi_fifo_dequeue frees the slot at tail, which holds an entry, and no   *)
(* other.                                                                  *)
LEMMA Dequeues ==
    ASSUME NEW f \in Fifos, ~ is_empty(f), Window(f)
    PROVE  LET g == sbi_fifo_dequeue(f)
           IN /\ g \in Fifos /\ Window(g)
              /\ f.tail \in Slots /\ f.queue[f.tail] \in Harts
              /\ g.queue = [f.queue EXCEPT ![f.tail] = Nobody]
<1> DEFINE g == sbi_fifo_dequeue(f)
<1>1. NumEntries \in Nat /\ NumEntries >= 1
  BY EntriesAssumption, SMT
<1>2. /\ f.tail \in Slots /\ f.avail \in 1 .. NumEntries
      /\ f.queue \in [Slots -> Harts \cup {Nobody}]
  BY <1>1, SMT DEF Fifos, is_empty, Slots
<1>3. /\ g \in Fifos
      /\ g.tail = Slot(f.tail + 1) /\ g.avail = f.avail - 1
      /\ g.queue = [f.queue EXCEPT ![f.tail] = Nobody]
  BY <1>1, <1>2, SMT DEF sbi_fifo_dequeue, Fifos, Slots, Slot
<1> HIDE DEF g
<1> DEFINE t == f.tail
           a == f.avail
           u == g.tail
<1>0. /\ t \in 0 .. NumEntries - 1 /\ a \in 1 .. NumEntries /\ g.avail = a - 1
      /\ u = IF t + 1 >= NumEntries THEN t + 1 - NumEntries ELSE t + 1
  BY <1>1, <1>2, <1>3, SMT DEF Slot, Slots
<1>4. InUse(f, f.tail) /\ ~ InUse(g, f.tail)
  <2> HIDE DEF t, a, u
  <2>1. /\ (IF t >= t THEN t - t ELSE t - t + NumEntries) < a
        /\ ~ ((IF t >= u THEN t - u ELSE t - u + NumEntries) < a - 1)
    BY <1>0, <1>1, SMT
  <2> QED BY <2>1, <1>0 DEF InUse, t, a, u
<1>5. \A i \in Slots : i # f.tail => (InUse(g, i) <=> InUse(f, i))
  <2> SUFFICES ASSUME NEW i \in Slots, i # t PROVE InUse(g, i) <=> InUse(f, i)
    BY DEF t
  <2> HIDE DEF t, a, u
  <2>1. (IF i >= u THEN i - u ELSE i - u + NumEntries) < a - 1
        <=> (IF i >= t THEN i - t ELSE i - t + NumEntries) < a
    BY <1>0, <1>1, SMT DEF Slots
  <2> QED BY <2>1, <1>0 DEF InUse, t, a, u
<1>6. f.queue[f.tail] \in Harts
  BY <1>2, <1>4 DEF Window
<1>7. Window(g)
  BY <1>2, <1>3, <1>4, <1>5 DEF Window
<1> QED BY <1>2, <1>3, <1>6, <1>7 DEF g

(* sbi_fifo_init leaves no slot in use.                                    *)
LEMMA EmptyIs == EmptyFifo \in Fifos /\ Window(EmptyFifo)
BY EntriesAssumption, SMT DEF EmptyFifo, Fifos, Window, InUse, Slots

-----------------------------------------------------------------------------
(* Harts that have sent nothing yet, wherever else they are.               *)
LEMMA QuiescentHolds ==
    ASSUME Quiescent, NEW L, NEW label \in L, pc = [h \in Harts |-> label],
           label \notin {"send", "raise", "kick", "sync", "serve", "ack"}
    PROVE  Typed(L) /\ Placed /\ Flow /\ Covered /\ EventsNotLost
<1> USE DEF Quiescent
<1>1. EmptyFifo \in Fifos /\ Window(EmptyFifo)
  BY EmptyIs
<1>2. Typed(L)
  <2>1. 0 \in 0 .. 1 /\ Nobody \in Harts \cup {Nobody}
    BY SMT
  <2> QED BY <1>1, <2>1 DEF Typed, NONE
<1>3. Placed
  BY DEF Placed, Sends, Waits, Serves
<1>4. Windows
  BY <1>1 DEF Windows, Window
<1>5. Queued
  BY NobodyIsNoHart DEF Queued, Entry, Slots, EmptyFifo
<1>6. Acking /\ Synced
  <2>1. Acking
    BY DEF Acking
  <2>2. Synced
    BY SMT DEF Synced
  <2> QED BY <2>1, <2>2
<1>7. Covered
  BY DEF Covered, NONE, RFENCE
<1>8. EventsNotLost
  BY DEF EventsNotLost
<1> QED BY <1>2, <1>3, <1>4, <1>5, <1>6, <1>7, <1>8 DEF Flow

LEMMA InitHolds == Init => IInv /\ EventsNotLost
<1>1. "run" \in Labels
  BY DEF Labels
<1> QED BY <1>1, QuiescentHolds, TypedIs DEF Init, IInv, Flow

(* What a request is made for exists, and the caller's own flush is left   *)
(* out only with an hbase other than 0.                                    *)
LEMMA MasksAreHarts ==
    ASSUME NEW h \in Harts, NEW e \in Events, NEW hbase \in Bases,
           NEW mask \in SUBSET Harts, NEW m \in Masks(e, hbase, mask)
    PROVE  LET named == {hbase + b : b \in m} \ Disabled
           IN /\ named \subseteq Harts
              /\ Targets(h, m, hbase) \subseteq Harts
              /\ named \subseteq Targets(h, m, hbase) \cup Excepted(h)
<1>1. m \subseteq Nat /\ hbase \in Nat /\ \A b \in m : hbase + b \in Harts
  BY HartsAssumption, SMT DEF Masks
<1>2. {hbase + b : b \in m} \ Disabled \subseteq Harts
  BY <1>1
<1>3. Targets(h, m, hbase) \subseteq Harts
  BY <1>1 DEF Targets
<1>4. ASSUME NEW x \in {hbase + b : b \in m} \ Disabled
      PROVE  x \in Targets(h, m, hbase) \cup Excepted(h)
  <2>1. CASE x # h
    BY <2>1 DEF Targets
  <2>2. CASE x = h /\ Bases = {0}
    <3>1. PICK b \in m : x = hbase + b
      OBVIOUS
    <3>2. hbase = 0 /\ b = h
      BY <2>2, <3>1, <1>1, SMT
    <3> QED BY <2>2, <3>2 DEF Targets
  <2>3. CASE x = h /\ Bases # {0}
    BY <2>3 DEF Excepted
  <2> QED BY <2>1, <2>2, <2>3
<1> QED BY <1>2, <1>3, <1>4

-----------------------------------------------------------------------------
(* Every step is typed.                                                    *)
LEMMA TypeStep ==
    ASSUME NEW L, Labels \subseteq L, Typed(L), Placed,
           NEW h \in Harts, NEW mask \in SUBSET Harts, Acts(h, mask)
    PROVE  Typed(L)'
<1> USE DEF calls, serving
<1>0. Call(h, mask) \/ Clear(h) \/ Firmware(h)
  BY DEF Acts
<1>fifo. fifo \in [Harts -> Fifos]
  BY DEF Typed, Fifos
<1>sync. tlb_sync \in [Harts -> {0, 1}]
  BY DEF Typed
<1>sip. msip \in [Harts -> BOOLEAN] /\ ssip \in [Harts -> BOOLEAN]
  BY Zenon DEF Typed
<1>goto. ASSUME NEW label \in Labels, Goto(h, label) PROVE pc' \in [Harts -> L]
  BY <1>goto DEF Typed, Goto
<1>todo. ASSUME Advance(h) PROVE todo' \in [Harts -> SUBSET Harts]
  BY <1>todo DEF Typed, Advance
<1>serve. ASSUME NEW label \in {"send", "sync", "events"}, Serve(h, label)
          PROVE  /\ pc' \in [Harts -> L] /\ deq' \in [Harts -> 0 .. 1]
                 /\ back' \in [Harts -> {"send", "sync", "events"}]
  BY <1>serve, SMT DEF Typed, Serve, Goto, Labels
<1>1. CASE Call(h, mask)
  <2>0. PICK e \in Events, hbase \in Bases :
            \E m \in Masks(e, hbase, mask) : Request(h, e, m, hbase)
    BY <1>1 DEF Call
  <2>1. PICK m \in Masks(e, hbase, mask) : Request(h, e, m, hbase)
    BY <2>0
  <2>2. Targets(h, m, hbase) \subseteq Harts /\ {hbase + b : b \in m} \ Disabled \subseteq Harts
    BY MasksAreHarts, SMT
  <2> QED BY <2>1, <2>2 DEF Request, Goto, Typed, Labels
<1>2. CASE Clear(h)
  BY <1>2 DEF Clear, Goto, Typed, Labels
<1>3. CASE Return(h)
  BY <1>3 DEF Return, Goto, Typed, Labels
<1>4. CASE sbi_tlb_fifo_update(h)
  <2> DEFINE t == Target(h)
  <2> USE <1>4 DEF sbi_tlb_fifo_update
  <2>1. CASE /\ t = h /\ fenced' = [fenced EXCEPT ![h] = @ \cup {h}] /\ Advance(h)
             /\ UNCHANGED <<fifo, pc, serving>>
    BY <2>1, <1>todo DEF Typed
  <2>2. CASE Serve(h, "send") /\ UNCHANGED <<fifo, todo, cur, fenced>>
    BY <2>2, <1>serve DEF Typed
  <2>3. CASE /\ ~ Full(h, t) /\ fifo' = [fifo EXCEPT ![t] = sbi_fifo_enqueue(@, h)]
             /\ Goto(h, "raise") /\ UNCHANGED <<todo, serving, fenced>>
    <3>1. t \in Harts /\ ~ is_full(fifo[t])
      BY <2>3, TargetIn DEF Typed, Full
    <3>2. sbi_fifo_enqueue(fifo[t], h) \in Fifos
      BY <3>1, <1>fifo, EntriesAssumption, SMT DEF is_full, sbi_fifo_enqueue, Fifos, Slot
    <3>3. fifo' \in [Harts -> Fifos]
      BY <2>3, <3>1, <3>2, <1>fifo
    <3>4. pc' \in [Harts -> L]
      BY <2>3, <1>goto DEF Labels
    <3> QED BY <2>3, <3>3, <3>4 DEF Typed, Fifos
  <2> QED BY <2>1, <2>2, <2>3
<1>5. CASE Raise(h)
  <2>1. event[h] \in Events
    BY <1>5 DEF Raise, Placed, Waits, Sends, Typed
  <2> QED BY <1>5, <2>1 DEF Raise, Goto, Typed, Labels
<1>6. CASE Kick(h)
  <2>1. msip' \in [Harts -> BOOLEAN]
    BY <1>6, <1>sip DEF Kick
  <2>2. pc' \in [Harts -> L]
    BY <1>6, <1>goto DEF Kick, Labels
  <2>3. todo' \in [Harts -> SUBSET Harts]
    BY <1>6, <1>todo DEF Kick, Typed
  <2> QED BY <1>6, <2>1, <2>2, <2>3 DEF Kick, Typed
<1>7. CASE sbi_tlb_fifo_sync(h)
  <2>1. CASE tlb_sync[h] = 1
    <3>1. pc' \in [Harts -> L]
      BY <1>7, <2>1, <1>goto, SMT DEF sbi_tlb_fifo_sync, Labels
    <3>2. tlb_sync' \in [Harts -> {0, 1}]
      BY <1>7, <2>1, <1>sync DEF sbi_tlb_fifo_sync
    <3> QED BY <1>7, <2>1, <3>1, <3>2, <1>todo, SMT DEF sbi_tlb_fifo_sync, Typed
  <2>2. CASE tlb_sync[h] = 0
    <3>1. Serve(h, "sync")
      BY <1>7, <2>2, SMT DEF sbi_tlb_fifo_sync
    <3> QED BY <1>7, <2>2, <3>1, <1>serve, SMT DEF sbi_tlb_fifo_sync, Typed
  <2> QED BY <2>1, <2>2, <1>sync
<1>8. CASE Dequeue(h)
  <2>1. sbi_fifo_dequeue(fifo[h]) \in Fifos /\ fifo[h].queue[fifo[h].tail] \in Harts \cup {Nobody}
    <3> DEFINE f == fifo[h]
    <3>1. f \in Fifos /\ ~ is_empty(f)
      BY <1>8, <1>fifo DEF Dequeue
    <3> HIDE DEF f
    <3>2. NumEntries \in Nat /\ NumEntries >= 1
      BY EntriesAssumption, SMT
    <3>3. /\ f.tail \in Slots /\ f.avail \in 1 .. NumEntries
          /\ f.queue \in [Slots -> Harts \cup {Nobody}]
      BY <3>1, <3>2, SMT DEF Fifos, is_empty, Slots
    <3>4. sbi_fifo_dequeue(f) \in Fifos
      BY <3>2, <3>3, SMT DEF sbi_fifo_dequeue, Fifos, Slots, Slot
    <3> QED BY <3>3, <3>4 DEF f
  <2>2. fifo' \in [Harts -> Fifos]
    BY <1>8, <2>1, <1>fifo DEF Dequeue
  <2>3. pc' \in [Harts -> L]
    BY <1>8, <1>goto DEF Dequeue, Labels
  <2>4. cur' \in [Harts -> Harts \cup {Nobody}]
    BY <1>8, <2>1 DEF Dequeue, Typed
  <2>5. fenced' \in [Harts -> SUBSET Harts]
    BY <1>8 DEF Dequeue, Typed
  <2> QED BY <1>8, <2>2, <2>3, <2>4, <2>5 DEF Dequeue, Typed, Fifos
<1>9. CASE Served(h)
  BY <1>9, SMT DEF Served, Goto, Typed, Labels
<1>10. CASE Acknowledge(h)
  <2>1. tlb_sync' \in [Harts -> {0, 1}]
    BY <1>10, <1>sync DEF Acknowledge
  <2>2. cur' \in [Harts -> Harts \cup {Nobody}]
    BY <1>10 DEF Acknowledge, Typed
  <2>3. pc' \in [Harts -> L] /\ back' \in [Harts -> {"send", "sync", "events"}]
    <3>1. back[h] \in L /\ "serve" \in L
      BY Zenon DEF Typed, Labels
    <3> QED BY <1>10, <3>1, SMT DEF Acknowledge, Typed, Goto
  <2>4. deq' \in [Harts -> 0 .. 1]
    <3>1. deq \in [Harts -> 0 .. 1]
      BY DEF Typed
    <3> QED BY <1>10, <3>1, SMT DEF Acknowledge
  <2> QED BY <1>10, <2>1, <2>2, <2>3, <2>4 DEF Acknowledge, Typed
<1>11. CASE Take(h)
  BY <1>11 DEF Take, Goto, Typed, Labels
<1>12. CASE Process(h)
  <2>1. Lowest(pend[h]) \in {NONE, SOFT, RFENCE, HALT}
    BY LowestIn, EventsAssumption DEF Typed
  <2> USE <1>12 DEF Process, Handle
  <2>2. ssip' \in [Harts -> BOOLEAN] /\ pend' \in [Harts -> SUBSET Events]
    BY <1>sip DEF Typed
  <2>3. CASE Lowest(pend[h]) = NONE
    <3>1. Goto(h, "run") /\ UNCHANGED serving
      BY <2>3, SMT DEF NONE, SOFT, RFENCE, HALT
    <3> QED BY <2>2, <3>1, <1>goto DEF Typed, Labels
  <2>4. CASE Lowest(pend[h]) = SOFT
    <3>1. UNCHANGED <<pc, serving>>
      BY <2>4, SMT DEF NONE, SOFT, RFENCE, HALT
    <3> QED BY <2>2, <3>1 DEF Typed
  <2>5. CASE Lowest(pend[h]) = RFENCE
    <3>1. Serve(h, "events") /\ UNCHANGED cur
      BY <2>5, SMT DEF NONE, SOFT, RFENCE, HALT
    <3> QED BY <2>2, <3>1, <1>serve DEF Typed
  <2>6. CASE Lowest(pend[h]) = HALT
    <3>1. Goto(h, "panic") /\ UNCHANGED serving
      BY <2>6, SMT DEF NONE, SOFT, RFENCE, HALT
    <3> QED BY <2>2, <3>1, <1>goto DEF Typed, Labels
  <2> QED BY <2>1, <2>3, <2>4, <2>5, <2>6
<1> QED BY <1>0, <1>1, <1>2, <1>3, <1>4, <1>5, <1>6, <1>7, <1>8, <1>9, <1>10, <1>11, <1>12
        DEF Firmware

(* Serving an event changes the place of the hart and nothing that others  *)
(* wait for.                                                               *)
LEMMA ProcessEffect ==
    ASSUME NEW L, Labels \subseteq L, Typed(L), NEW h \in Harts, Process(h)
    PROVE  /\ pc[h] = "events" /\ UNCHANGED <<fifo, tlb_sync, ipi_type, msip, calls, cur, fenced>>
           /\ \/ UNCHANGED <<pc, back>>
              \/ Goto(h, "run") /\ UNCHANGED back
              \/ Goto(h, "panic") /\ UNCHANGED back
              \/ Serve(h, "events")
<1> DEFINE e == Lowest(pend[h])
<1>1. e \in {NONE, SOFT, RFENCE, HALT}
  BY LowestIn, EventsAssumption DEF Typed
<1> USE DEF Process, Handle, NONE, SOFT, RFENCE, HALT, serving
<1>2. CASE e = NONE
  BY <1>2
<1>3. CASE e = SOFT
  BY <1>3
<1>4. CASE e = RFENCE
  BY <1>4
<1>5. CASE e = HALT
  BY <1>5
<1> QED BY <1>1, <1>2, <1>3, <1>4, <1>5

(* The locals of sbi_ipi_send_many stay valid.                             *)
LEMMA PlacedStep ==
    ASSUME NEW L, Labels \subseteq L, Typed(L), Placed,
           NEW h \in Harts, NEW mask \in SUBSET Harts, Acts(h, mask)
    PROVE  Placed'
<1> USE DEF calls, serving
<1>0. Call(h, mask) \/ Clear(h) \/ Firmware(h)
  BY DEF Acts
<1> SUFFICES ASSUME NEW g \in Harts
             PROVE  /\ Sends(g)' \/ Waits(g)' => event'[g] # NONE
                    /\ Waits(g)' => todo'[g] # {}
                    /\ Waits(g)' /\ pc'[g] # "kick" => event'[g] = RFENCE
  BY DEF Placed
<1>p. /\ Sends(g) \/ Waits(g) => event[g] # NONE
      /\ Waits(g) => todo[g] # {}
      /\ Waits(g) /\ pc[g] # "kick" => event[g] = RFENCE
  BY DEF Placed
<1>t. /\ pc \in [Harts -> L] /\ back \in [Harts -> {"send", "sync", "events"}]
      /\ event \in [Harts -> Events \cup {NONE}] /\ todo \in [Harts -> SUBSET Harts]
  BY DEF Typed
<1> USE <1>p, <1>t DEF Sends, Waits, Serves, Goto, Serve
<1>1. CASE Call(h, mask)
  <2>0. PICK e \in Events, hbase \in Bases :
            \E m \in Masks(e, hbase, mask) : Request(h, e, m, hbase)
    BY <1>1 DEF Call
  <2>1. PICK m \in Masks(e, hbase, mask) : Request(h, e, m, hbase)
    BY <2>0
  <2>2. e # NONE
    BY EventsAssumption, SMT DEF NONE, SOFT, RFENCE, HALT
  <2> QED BY <2>1, <2>2 DEF Request
<1>2. CASE Clear(h)
  BY <1>2 DEF Clear
<1>3. CASE Return(h)
  BY <1>3 DEF Return
<1>4. CASE sbi_tlb_fifo_update(h)
  BY <1>4 DEF sbi_tlb_fifo_update, Advance, NONE, RFENCE
<1>5. CASE Raise(h)
  BY <1>5 DEF Raise
<1>6. CASE Kick(h)
  BY <1>6, SMT DEF Kick, Advance
<1>7. CASE sbi_tlb_fifo_sync(h)
  BY <1>7 DEF sbi_tlb_fifo_sync, Advance, NONE, RFENCE
<1>8. CASE Dequeue(h)
  BY <1>8 DEF Dequeue
<1>9. CASE Served(h)
  BY <1>9, SMT DEF Served
<1>10. CASE Acknowledge(h)
  BY <1>10, SMT DEF Acknowledge
<1>11. CASE Take(h)
  BY <1>11 DEF Take
<1>12. CASE Process(h)
  <2>1. /\ pc[h] = "events" /\ event' = event /\ todo' = todo
        /\ \/ UNCHANGED <<pc, back>>
           \/ Goto(h, "run") /\ UNCHANGED back
           \/ Goto(h, "panic") /\ UNCHANGED back
           \/ Serve(h, "events")
    BY <1>12, ProcessEffect
  <2> QED BY <2>1
<1> QED BY <1>0, <1>1, <1>2, <1>3, <1>4, <1>5, <1>6, <1>7, <1>8, <1>9, <1>10, <1>11, <1>12
        DEF Firmware

-----------------------------------------------------------------------------
(* A step that leaves the FIFOs and tlb_sync alone, takes no entry, and    *)
(* after which whoever waits for a flush still waits for it.               *)
Keeps ==
    /\ UNCHANGED <<fifo, tlb_sync, cur>>
    /\ \A g \in Harts : pc'[g] = "ack" => pc[g] = "ack"
    /\ \A g \in Harts : Waits(g) /\ event[g] = RFENCE =>
          /\ Waits(g)' /\ event'[g] = RFENCE /\ todo'[g] = todo[g]
          /\ fenced[g] \subseteq fenced'[g]

LEMMA FlowKept ==
    ASSUME NEW L, Labels \subseteq L, Typed(L), Flow, Keeps
    PROVE  Flow'
<1> USE DEF Flow
<1>1. \A s, t \in Harts : Waits(s) /\ Awaits(s, t) => Awaits(s, t)' /\ Waits(s)'
  BY DEF Keeps, Awaits, Target
<1>2. Windows'
  BY DEF Windows, Keeps
<1>3. Queued'
  BY <1>1, SMT DEF Queued, Entry, Keeps
<1>4. Acking'
  BY <1>1 DEF Acking, Keeps, Awaits
<1>5. Synced'
  BY Zenon DEF Synced, Keeps, Target
<1> QED BY <1>2, <1>3, <1>4, <1>5

(* All steps but four are of this kind.                                    *)
LEMMA KeepsStep ==
    ASSUME NEW L, Labels \subseteq L, Typed(L), Placed,
           NEW h \in Harts, NEW mask \in SUBSET Harts,
           \/ Call(h, mask) \/ Clear(h) \/ Return(h) \/ Raise(h) \/ Kick(h)
           \/ sbi_tlb_fifo_update(h) /\ fifo' = fifo
           \/ sbi_tlb_fifo_sync(h) /\ tlb_sync[h] = 0
           \/ Served(h) \/ Take(h) \/ Process(h)
    PROVE  Keeps
<1> USE DEF calls, serving
<1>t. /\ pc \in [Harts -> L] /\ back \in [Harts -> {"send", "sync", "events"}]
      /\ event \in [Harts -> Events \cup {NONE}] /\ todo \in [Harts -> SUBSET Harts]
      /\ fenced \in [Harts -> SUBSET Harts] /\ tlb_sync \in [Harts -> {0, 1}]
  BY DEF Typed
<1> USE <1>t DEF Keeps, Waits, Serves, Goto, Serve
<1>1. CASE Call(h, mask)
  <2> HIDE DEF Keeps, Waits, Serves, Goto, Serve
  <2>0. PICK e \in Events, hbase \in Bases :
            \E m \in Masks(e, hbase, mask) : Request(h, e, m, hbase)
    BY <1>1 DEF Call
  <2>1. PICK m \in Masks(e, hbase, mask) : Request(h, e, m, hbase)
    BY <2>0
  <2>2. /\ pc[h] = "run" /\ Goto(h, "send")
        /\ UNCHANGED <<fifo, tlb_sync, cur, back, fenced>>
        /\ \A g \in Harts \ {h} : event'[g] = event[g] /\ todo'[g] = todo[g]
    BY <2>1 DEF Request
  <2> QED BY <2>2 DEF Keeps, Waits, Serves, Goto
<1>2. CASE Clear(h)
  BY <1>2 DEF Clear
<1>3. CASE Return(h)
  BY <1>3 DEF Return
<1>4. CASE sbi_tlb_fifo_update(h) /\ fifo' = fifo
  <2> HIDE DEF Keeps, Waits, Serves, Goto, Serve
  <2>1. /\ pc[h] = "send" /\ UNCHANGED <<fifo, tlb_sync, event, cur>>
        /\ \/ /\ UNCHANGED <<pc, back>> /\ Advance(h)
              /\ fenced' = [fenced EXCEPT ![h] = @ \cup {h}]
           \/ Serve(h, "send") /\ UNCHANGED <<todo, fenced>>
           \/ Goto(h, "raise") /\ UNCHANGED <<back, todo, fenced>>
    BY <1>4 DEF sbi_tlb_fifo_update
  <2>2. ~ Waits(h) /\ pc'[h] # "ack"
    BY <2>1 DEF Waits, Serves, Serve, Goto
  <2>3. ASSUME NEW g \in Harts, g # h
        PROVE  /\ pc'[g] = pc[g] /\ back'[g] = back[g] /\ todo'[g] = todo[g]
               /\ fenced'[g] = fenced[g]
    BY <2>1, <2>3 DEF Serve, Goto, Advance
  <2>4. \A g \in Harts : pc'[g] = "ack" => pc[g] = "ack"
    BY <2>2, <2>3
  <2>5. ASSUME NEW g \in Harts, Waits(g)
        PROVE  /\ Waits(g)' /\ event'[g] = event[g] /\ todo'[g] = todo[g]
               /\ fenced[g] \subseteq fenced'[g]
    BY <2>1, <2>2, <2>3, <2>5 DEF Waits, Serves
  <2> QED BY <2>1, <2>4, <2>5 DEF Keeps
<1>5. CASE Raise(h)
  BY <1>5 DEF Raise
<1>6. CASE Kick(h)
  BY <1>6 DEF Kick, Advance
<1>7. CASE sbi_tlb_fifo_sync(h) /\ tlb_sync[h] = 0
  BY <1>7, SMT DEF sbi_tlb_fifo_sync
<1>8. CASE Served(h)
  BY <1>8 DEF Served
<1>9. CASE Take(h)
  BY <1>9 DEF Take
<1>10. CASE Process(h)
  BY <1>10, ProcessEffect
<1> QED BY <1>1, <1>2, <1>3, <1>4, <1>5, <1>6, <1>7, <1>8, <1>9, <1>10

(* sbi_tlb_fifo_update puts the request of h into one slot: h has no other *)
(* one, for it would be waiting then.                                      *)
Enqueued(h) ==
    /\ pc[h] = "send" /\ event[h] = RFENCE /\ todo[h] # {} /\ ~ Full(h, Target(h))
    /\ fifo' = [fifo EXCEPT ![Target(h)] = sbi_fifo_enqueue(@, h)]
    /\ Goto(h, "raise") /\ UNCHANGED <<tlb_sync, event, todo, back, cur, fenced>>

LEMMA EnqueueStep ==
    ASSUME NEW L, Labels \subseteq L, Typed(L), Flow, NEW h \in Harts, Enqueued(h)
    PROVE  Flow'
<1>u. PICK u \in Harts : u = Target(h)
  BY TargetIn DEF Typed, Enqueued
<1>t. /\ pc \in [Harts -> L] /\ tlb_sync \in [Harts -> {0, 1}]
      /\ fifo \in [Harts -> Fifos]
  BY DEF Typed, Fifos
<1>e. /\ pc[h] = "send" /\ event[h] = RFENCE /\ todo[h] # {} /\ Goto(h, "raise")
      /\ UNCHANGED <<tlb_sync, event, todo, back, cur, fenced>>
  BY DEF Enqueued
<1>f. /\ fifo'[u] = sbi_fifo_enqueue(fifo[u], h) /\ ~ is_full(fifo[u])
      /\ \A t \in Harts \ {u} : fifo'[t] = fifo[t]
  BY <1>t, <1>u DEF Enqueued, Full
<1>w. fifo[u] \in Fifos /\ Window(fifo[u])
  BY <1>t DEF Flow, Windows
<1>0. PICK j \in Slots : sbi_fifo_enqueue(fifo[u], h).queue = [fifo[u].queue EXCEPT ![j] = h]
  BY <1>f, <1>w, Enqueues
<1>1. fifo'[u].queue = [fifo[u].queue EXCEPT ![j] = h]
  BY <1>f, <1>0
<1>2. Window(fifo'[u])
  <2>1. Window(sbi_fifo_enqueue(fifo[u], h))
    BY <1>f, <1>w, Enqueues
  <2> QED BY <1>f, <2>1
<1>3. ~ Waits(h)
  BY <1>e DEF Waits, Serves
<1>4. /\ \A t \in Harts : \A i \in Slots : Entry(t, i) # h
      /\ \A t \in Harts : ~ (pc[t] = "ack" /\ cur[t] = h)
      /\ tlb_sync[h] = 0
  BY <1>3, <1>t, SMT DEF Flow, Queued, Acking, Synced
<1>5. \A s \in Harts : Waits(s) => Waits(s)'
  BY <1>e, <1>t DEF Waits, Serves, Goto
<1>6. Waits(h)' /\ Awaits(h, u)'
  BY <1>e, <1>t, <1>u DEF Waits, Goto, Awaits, Target
<1>7. \A s, t \in Harts : Awaits(s, t) => Awaits(s, t)'
  BY <1>e DEF Awaits, Target
<1>8. \A t \in Harts : pc'[t] = "ack" <=> pc[t] = "ack"
  BY <1>e, <1>t DEF Goto
<1>q. \A t \in Harts : \A i \in Slots : Entry(t, i)' =
          IF t = u /\ i = j THEN h ELSE Entry(t, i)
  <2>1. fifo[u].queue \in [Slots -> Harts \cup {Nobody}]
    BY <1>w DEF Fifos, Slots
  <2> QED BY <1>1, <1>f, <2>1 DEF Entry
<1>9. Windows'
  BY <1>2, <1>f DEF Flow, Windows
<1>10. Queued'
  <2> SUFFICES ASSUME NEW s \in Harts, NEW t \in Harts, NEW i \in Slots, Entry(t, i)' = s
               PROVE  /\ tlb_sync'[s] = 0 /\ Awaits(s, t)' /\ Waits(s)'
                      /\ ~ (pc'[t] = "ack" /\ cur'[t] = s)
                      /\ \A k \in Slots : Entry(t, k)' = s => k = i
    BY DEF Queued
  <2>1. CASE s = h
    <3>1. t = u /\ i = j
      BY <2>1, <1>q, <1>4, SMT
    <3> QED BY <2>1, <3>1, <1>q, <1>4, <1>6, <1>8, <1>e, SMT
  <2>2. CASE s # h
    <3>1. Entry(t, i) = s /\ ~ (t = u /\ i = j)
      BY <2>2, <1>q
    <3>2. /\ tlb_sync[s] = 0 /\ Awaits(s, t) /\ Waits(s)
          /\ ~ (pc[t] = "ack" /\ cur[t] = s)
          /\ \A k \in Slots : Entry(t, k) = s => k = i
      BY <3>1 DEF Flow, Queued
    <3>3. \A k \in Slots : Entry(t, k)' = s => k = i
      BY <2>2, <3>2, <1>q
    <3>4. Awaits(s, t)' /\ Waits(s)'
      BY <3>2, <1>5, <1>7
    <3> QED BY <3>2, <3>3, <3>4, <1>8, <1>e
  <2> QED BY <2>1, <2>2
<1>11. Acking'
  BY <1>5, <1>7, <1>8, <1>e DEF Flow, Acking
<1>12. Synced'
  BY <1>5, <1>e DEF Flow, Synced, Target
<1> QED BY <1>9, <1>10, <1>11, <1>12 DEF Flow

(* sbi_tlb_fifo_sync takes the acknowledgement, and the request is gone.   *)
LEMMA SyncStep ==
    ASSUME NEW L, Labels \subseteq L, Typed(L), Flow, NEW h \in Harts,
           sbi_tlb_fifo_sync(h), tlb_sync[h] = 1
    PROVE  Flow'
<1>t. /\ pc \in [Harts -> L] /\ tlb_sync \in [Harts -> {0, 1}]
      /\ todo \in [Harts -> SUBSET Harts]
  BY DEF Typed
<1>1. /\ tlb_sync' = [tlb_sync EXCEPT ![h] = 0] /\ Advance(h) /\ Goto(h, "send")
      /\ UNCHANGED <<fifo, event, back, cur, fenced>>
  BY SMT DEF sbi_tlb_fifo_sync, serving
<1>2. /\ \A t \in Harts : \A i \in Slots : Entry(t, i) # h
      /\ \A t \in Harts : ~ (pc[t] = "ack" /\ cur[t] = h)
  BY SMT DEF Flow, Queued, Acking
<1>3. \A s \in Harts \ {h} : /\ (Waits(s) => Waits(s)')
                             /\ Target(s)' = Target(s)
                             /\ \A t \in Harts : Awaits(s, t) => Awaits(s, t)'
  BY <1>1, <1>t DEF Waits, Serves, Goto, Advance, Awaits, Target
<1>4. \A t \in Harts : pc'[t] = "ack" => pc[t] = "ack"
  BY <1>1, <1>t DEF Goto
<1>5. Windows'
  BY <1>1 DEF Flow, Windows
<1>6. Queued'
  <2>1. \A t \in Harts : \A i \in Slots : Entry(t, i)' = Entry(t, i)
    BY <1>1 DEF Entry
  <2>2. \A s \in Harts \ {h} : tlb_sync'[s] = tlb_sync[s]
    BY <1>1, <1>t
  <2>3. cur' = cur
    BY <1>1
  <2> QED BY <1>2, <1>3, <1>4, <2>1, <2>2, <2>3, SMT DEF Flow, Queued
<1>7. Acking'
  BY <1>1, <1>2, <1>3, <1>4, <1>t DEF Flow, Acking
<1>8. Synced'
  BY <1>1, <1>3, <1>t, SMT DEF Flow, Synced
<1> QED BY <1>5, <1>6, <1>7, <1>8 DEF Flow

(* h takes the oldest entry: the only one of its source, at the only hart  *)
(* its source waits for.                                                   *)
LEMMA DequeueStep ==
    ASSUME NEW L, Labels \subseteq L, Typed(L), Flow, NEW h \in Harts, Dequeue(h)
    PROVE  Flow'
<1>t. /\ pc \in [Harts -> L] /\ fifo \in [Harts -> Fifos]
      /\ cur \in [Harts -> Harts \cup {Nobody}] /\ fenced \in [Harts -> SUBSET Harts]
  BY DEF Typed, Fifos
<1>0. Window(fifo[h]) /\ fifo[h] \in Fifos /\ ~ is_empty(fifo[h])
  BY <1>t DEF Flow, Windows, Dequeue
<1>1. PICK k \in Slots : k = fifo[h].tail /\ Entry(h, k) \in Harts
  BY <1>0, Dequeues DEF Entry
<1>s. PICK src \in Harts : src = Entry(h, k)
  BY <1>1
<1>2. /\ cur' = [cur EXCEPT ![h] = src] /\ fenced' = [fenced EXCEPT ![src] = @ \cup {h}]
      /\ fifo' = [fifo EXCEPT ![h] = sbi_fifo_dequeue(@)] /\ Goto(h, "ack")
      /\ pc[h] = "serve" /\ UNCHANGED <<tlb_sync, event, todo, back>>
  BY <1>1, <1>s DEF Dequeue, calls, Entry
<1>3. Window(fifo'[h]) /\ fifo'[h].queue = [fifo[h].queue EXCEPT ![k] = Nobody]
  <2>1. fifo'[h] = sbi_fifo_dequeue(fifo[h])
    BY <1>2, <1>t
  <2> QED BY <1>0, <1>1, <2>1, Dequeues
<1>q. \A t \in Harts : \A i \in Slots : Entry(t, i)' =
          IF t = h /\ i = k THEN Nobody ELSE Entry(t, i)
  <2>1. fifo[h].queue \in [Slots -> Harts \cup {Nobody}]
    BY <1>0 DEF Fifos, Slots
  <2> QED BY <1>2, <1>3, <2>1, <1>t DEF Entry
<1>4. /\ tlb_sync[src] = 0 /\ Awaits(src, h) /\ Waits(src)
      /\ \A j \in Slots : Entry(h, j) = src => j = k
  BY <1>s DEF Flow, Queued
<1>5. \A t \in Harts : \A i \in Slots : Entry(t, i)' # src
  <2> SUFFICES ASSUME NEW t \in Harts, NEW i \in Slots, Entry(t, i)' = src PROVE FALSE
    OBVIOUS
  <2>1. Entry(t, i) = src /\ ~ (t = h /\ i = k)
    BY <1>q, NobodyIsNoHart
  <2>2. t = h
    BY <1>4, <2>1 DEF Flow, Queued, Awaits
  <2> QED BY <1>4, <2>1, <2>2
<1>6. \A s, t \in Harts : Waits(s) /\ Awaits(s, t) => Waits(s)' /\ Awaits(s, t)'
  BY <1>2, <1>t DEF Waits, Serves, Goto, Awaits, Target
<1>7. /\ \A t \in Harts \ {h} : pc'[t] = pc[t] /\ cur'[t] = cur[t]
      /\ pc'[h] = "ack" /\ cur'[h] = src
  BY <1>2, <1>t DEF Goto
<1>8. h \in fenced'[src] /\ \A s \in Harts : fenced[s] \subseteq fenced'[s]
  BY <1>2, <1>t
<1>9. Windows'
  BY <1>2, <1>3, <1>t DEF Flow, Windows
<1>10. Queued'
  <2> SUFFICES ASSUME NEW s \in Harts, NEW t \in Harts, NEW i \in Slots, Entry(t, i)' = s
               PROVE  /\ tlb_sync'[s] = 0 /\ Awaits(s, t)' /\ Waits(s)'
                      /\ ~ (pc'[t] = "ack" /\ cur'[t] = s)
                      /\ \A j \in Slots : Entry(t, j)' = s => j = i
    BY DEF Queued
  <2>1. Entry(t, i) = s /\ s # src
    BY <1>q, <1>5, NobodyIsNoHart
  <2>2. /\ tlb_sync[s] = 0 /\ Awaits(s, t) /\ Waits(s)
        /\ ~ (pc[t] = "ack" /\ cur[t] = s)
        /\ \A j \in Slots : Entry(t, j) = s => j = i
    BY <2>1 DEF Flow, Queued
  <2>3. \A j \in Slots : Entry(t, j)' = s => j = i
    BY <2>2, <1>q, NobodyIsNoHart
  <2>4. ~ (pc'[t] = "ack" /\ cur'[t] = s)
    BY <2>1, <2>2, <1>7
  <2> QED BY <2>2, <2>3, <2>4, <1>2, <1>6
<1>11. Acking'
  <2> SUFFICES ASSUME NEW t \in Harts, pc'[t] = "ack"
               PROVE  /\ cur'[t] \in Harts /\ tlb_sync'[cur'[t]] = 0
                      /\ Awaits(cur[t], t)' /\ Waits(cur[t])' /\ t \in fenced'[cur'[t]]
    BY DEF Acking
  <2>1. CASE t = h
    BY <2>1, <1>2, <1>4, <1>6, <1>7, <1>8
  <2>2. CASE t # h
    <3>1. pc[t] = "ack" /\ cur'[t] = cur[t]
      BY <2>2, <1>7
    <3>2. PICK c \in Harts : c = cur[t]
      BY <3>1 DEF Flow, Acking
    <3>3. tlb_sync[c] = 0 /\ Awaits(c, t) /\ Waits(c) /\ t \in fenced[c]
      BY <3>1, <3>2 DEF Flow, Acking
    <3>4. Awaits(c, t)' /\ Waits(c)' /\ t \in fenced'[c] /\ tlb_sync'[c] = 0
      BY <3>3, <1>6, <1>8, <1>2
    <3> QED BY <3>1, <3>2, <3>4
  <2> QED BY <2>1, <2>2
<1>12. Synced'
  <2> SUFFICES ASSUME NEW s \in Harts, tlb_sync'[s] = 1
               PROVE  event'[s] = RFENCE /\ Waits(s)' /\ Target(s)' \in fenced'[s]
    BY DEF Synced
  <2>1. event[s] = RFENCE /\ Waits(s) /\ Target(s) \in fenced[s]
    BY <1>2 DEF Flow, Synced
  <2>2. Target(s)' = Target(s)
    BY <1>2 DEF Target
  <2>3. Waits(s)'
    BY <1>2, <1>t, <2>1 DEF Waits, Serves, Goto
  <2> QED BY <1>2, <1>8, <2>1, <2>2, <2>3
<1> QED BY <1>9, <1>10, <1>11, <1>12 DEF Flow

(* h acknowledges: nobody else is about to, and there is no entry left.    *)
LEMMA AcknowledgeStep ==
    ASSUME NEW L, Labels \subseteq L, Typed(L), Flow, NEW h \in Harts, Acknowledge(h)
    PROVE  Flow'
<1>t. /\ pc \in [Harts -> L] /\ tlb_sync \in [Harts -> {0, 1}]
      /\ cur \in [Harts -> Harts \cup {Nobody}]
      /\ back \in [Harts -> {"send", "sync", "events"}]
  BY DEF Typed
<1>1. PICK src \in Harts : src = cur[h]
  BY DEF Flow, Acking, Acknowledge
<1>2. Awaits(src, h) /\ Waits(src) /\ h \in fenced[src] /\ pc[h] = "ack"
  BY <1>1 DEF Flow, Acking, Acknowledge
<1>3. /\ tlb_sync' = [tlb_sync EXCEPT ![src] = 1] /\ cur' = [cur EXCEPT ![h] = Nobody]
      /\ \/ Goto(h, back[h]) /\ back' = [back EXCEPT ![h] = "send"]
         \/ Goto(h, "serve") /\ back' = back
      /\ UNCHANGED <<fifo, event, todo, fenced>>
  BY <1>1 DEF Acknowledge, calls
<1>4. /\ \A t \in Harts : \A i \in Slots : Entry(t, i) # src
      /\ \A t \in Harts \ {h} : ~ (pc[t] = "ack" /\ cur[t] = src)
  <2>1. ASSUME NEW t \in Harts, NEW i \in Slots PROVE Entry(t, i) # src
    <3> SUFFICES ASSUME Entry(t, i) = src PROVE FALSE
      OBVIOUS
    <3>1. Awaits(src, t) /\ ~ (pc[t] = "ack" /\ cur[t] = src)
      BY DEF Flow, Queued
    <3>2. t = h
      BY <1>2, <3>1 DEF Awaits
    <3> QED BY <1>1, <1>2, <3>1, <3>2
  <2>2. ASSUME NEW t \in Harts \ {h}, pc[t] = "ack", cur[t] = src PROVE FALSE
    <3>1. Awaits(src, t)
      BY <2>2 DEF Flow, Acking
    <3> QED BY <1>2, <3>1 DEF Awaits
  <2> QED BY <2>1, <2>2
<1>5. \A s \in Harts : Waits(s) => Waits(s)'
  BY <1>2, <1>3, <1>t DEF Waits, Serves, Goto
<1>6. \A s \in Harts : Target(s)' = Target(s) /\ \A t \in Harts : Awaits(s, t) => Awaits(s, t)'
  BY <1>3 DEF Awaits, Target
<1>7. \A t \in Harts : pc'[t] = "ack" => t # h /\ pc[t] = "ack" /\ cur'[t] = cur[t]
  BY <1>3, <1>t DEF Goto
<1>8. Windows'
  BY <1>3 DEF Flow, Windows
<1>9. Queued'
  <2>1. \A t \in Harts : \A i \in Slots : Entry(t, i)' = Entry(t, i)
    BY <1>3 DEF Entry
  <2>2. \A s \in Harts \ {src} : tlb_sync'[s] = tlb_sync[s]
    BY <1>3, <1>t
  <2> SUFFICES ASSUME NEW s \in Harts, NEW t \in Harts, NEW i \in Slots, Entry(t, i)' = s
               PROVE  /\ tlb_sync'[s] = 0 /\ Awaits(s, t)' /\ Waits(s)'
                      /\ ~ (pc'[t] = "ack" /\ cur'[t] = s)
                      /\ \A j \in Slots : Entry(t, j)' = s => j = i
    BY DEF Queued
  <2>3. Entry(t, i) = s /\ s # src
    <3>1. Entry(t, i) = s
      BY <2>1
    <3>2. Entry(t, i) # src
      BY <1>4
    <3> QED BY <3>1, <3>2
  <2>4. /\ tlb_sync[s] = 0 /\ Awaits(s, t) /\ Waits(s)
        /\ ~ (pc[t] = "ack" /\ cur[t] = s)
        /\ \A j \in Slots : Entry(t, j) = s => j = i
    BY <2>3 DEF Flow, Queued
  <2> QED BY <1>5, <1>6, <1>7, <2>1, <2>2, <2>3, <2>4
<1>10. Acking'
  <2> SUFFICES ASSUME NEW t \in Harts, pc'[t] = "ack"
               PROVE  /\ cur'[t] \in Harts /\ tlb_sync'[cur'[t]] = 0
                      /\ Awaits(cur[t], t)' /\ Waits(cur[t])' /\ t \in fenced'[cur'[t]]
    BY DEF Acking
  <2>1. t # h /\ pc[t] = "ack" /\ cur'[t] = cur[t]
    BY <1>7
  <2>2. PICK c \in Harts : c = cur[t]
    BY <2>1 DEF Flow, Acking
  <2>3. tlb_sync[c] = 0 /\ Awaits(c, t) /\ Waits(c) /\ t \in fenced[c] /\ c # src
    BY <2>1, <2>2, <1>4 DEF Flow, Acking
  <2>4. Awaits(c, t)' /\ Waits(c)' /\ t \in fenced'[c] /\ tlb_sync'[c] = 0
    BY <2>3, <1>3, <1>5, <1>6, <1>t
  <2> QED BY <2>1, <2>2, <2>4
<1>11. Synced'
  BY <1>2, <1>3, <1>5, <1>6, <1>t DEF Flow, Synced, Awaits
<1> QED BY <1>8, <1>9, <1>10, <1>11 DEF Flow

LEMMA FlowStep ==
    ASSUME NEW L, Labels \subseteq L, Typed(L), Placed, Flow,
           NEW h \in Harts, NEW mask \in SUBSET Harts, Acts(h, mask)
    PROVE  Flow'
<1>0. Call(h, mask) \/ Clear(h) \/ Firmware(h)
  BY DEF Acts
<1>1. CASE sbi_tlb_fifo_update(h) /\ fifo' # fifo
  <2>1. Enqueued(h)
    BY <1>1 DEF sbi_tlb_fifo_update, serving, Enqueued
  <2> QED BY <2>1, EnqueueStep
<1>2. CASE sbi_tlb_fifo_sync(h) /\ tlb_sync[h] # 0
  <2>1. tlb_sync[h] = 1
    BY <1>2 DEF Typed
  <2> QED BY <1>2, <2>1, SyncStep
<1>3. CASE Dequeue(h)
  BY <1>3, DequeueStep
<1>4. CASE Acknowledge(h)
  BY <1>4, AcknowledgeStep
<1>5. CASE \/ Call(h, mask) \/ Clear(h) \/ Return(h) \/ Raise(h) \/ Kick(h)
           \/ sbi_tlb_fifo_update(h) /\ fifo' = fifo
           \/ sbi_tlb_fifo_sync(h) /\ tlb_sync[h] = 0
           \/ Served(h) \/ Take(h) \/ Process(h)
  BY <1>5, KeepsStep, FlowKept
<1> QED BY <1>0, <1>1, <1>2, <1>3, <1>4, <1>5 DEF Firmware
-----------------------------------------------------------------------------

(* A hart leaves todo only when it has flushed.                            *)
LEMMA CoveredStep ==
    ASSUME NEW L, Labels \subseteq L, Typed(L), Placed, Flow, Covered,
           NEW h \in Harts, NEW mask \in SUBSET Harts, Acts(h, mask)
    PROVE  Covered'
<1> USE DEF calls, serving
<1>0. Call(h, mask) \/ Clear(h) \/ Firmware(h)
  BY DEF Acts
<1> SUFFICES ASSUME NEW g \in Harts, event'[g] = RFENCE
             PROVE  set'[g] \ fenced'[g] \subseteq todo'[g] \cup Excepted(g)
  BY DEF Covered, Excepted
<1>t. /\ event \in [Harts -> Events \cup {NONE}] /\ todo \in [Harts -> SUBSET Harts]
      /\ fenced \in [Harts -> SUBSET Harts] /\ set \in [Harts -> SUBSET Harts]
  BY DEF Typed
<1>c. event[g] = RFENCE => set[g] \ fenced[g] \subseteq todo[g] \cup Excepted(g)
  BY DEF Covered
<1> USE <1>t, <1>c
<1>1. CASE Call(h, mask)
  <2>0. PICK e \in Events, hbase \in Bases :
            \E m \in Masks(e, hbase, mask) : Request(h, e, m, hbase)
    BY <1>1 DEF Call
  <2>1. PICK m \in Masks(e, hbase, mask) : Request(h, e, m, hbase)
    BY <2>0
  <2>2. {hbase + b : b \in m} \ Disabled \subseteq Targets(h, m, hbase) \cup Excepted(h)
    BY MasksAreHarts
  <2> QED BY <2>1, <2>2 DEF Request
<1>2. CASE Clear(h) \/ Raise(h) \/ Take(h) \/ Served(h) \/ Acknowledge(h)
  BY <1>2 DEF Clear, Raise, Take, Served, Acknowledge
<1>3. CASE Return(h)
  BY <1>3 DEF Return, NONE, RFENCE
<1>4. CASE sbi_tlb_fifo_update(h)
  BY <1>4, SMT DEF sbi_tlb_fifo_update, Advance
<1>5. CASE Kick(h)
  BY <1>5 DEF Kick, Advance
<1>6. CASE sbi_tlb_fifo_sync(h)
  <2>1. tlb_sync[h] = 1 => Target(h) \in fenced[h]
    BY DEF Flow, Synced
  <2> QED BY <1>6, <2>1, SMT DEF sbi_tlb_fifo_sync, Advance
<1>7. CASE Dequeue(h)
  BY <1>7 DEF Dequeue
<1>8. CASE Process(h)
  BY <1>8, ProcessEffect
<1> QED BY <1>0, <1>1, <1>2, <1>3, <1>4, <1>5, <1>6, <1>7, <1>8 DEF Firmware

(* An event whose bit is set is never left behind.                         *)
LEMMA EventsStep ==
    ASSUME NEW L, Labels \subseteq L, Typed(L), EventsNotLost,
           NEW h \in Harts, NEW mask, Acts(h, mask)
    PROVE  EventsNotLost'
<1> USE DEF calls, serving
<1>t. /\ pc \in [Harts -> L] /\ ipi_type \in [Harts -> SUBSET Events]
      /\ msip \in [Harts -> BOOLEAN] /\ todo \in [Harts -> SUBSET Harts]
  BY DEF Typed
<1>0. Call(h, mask) \/ Clear(h) \/ Firmware(h)
  BY DEF Acts
<1> SUFFICES ASSUME NEW t \in Harts, ipi_type'[t] # {}
             PROVE  \/ msip'[t] \/ pc'[t] = "xchg"
                    \/ \E g \in Harts : pc'[g] = "kick" /\ Target(g)' = t
  BY DEF EventsNotLost
<1>e. ipi_type[t] # {} => \/ msip[t] \/ pc[t] = "xchg"
                          \/ \E g \in Harts : pc[g] = "kick" /\ Target(g) = t
  BY DEF EventsNotLost
<1>f. ASSUME UNCHANGED <<ipi_type, msip>>,
             \A g \in Harts : /\ pc[g] = "xchg" => pc'[g] = "xchg"
                              /\ pc[g] = "kick" => pc'[g] = "kick" /\ todo'[g] = todo[g]
      PROVE  \/ msip'[t] \/ pc'[t] = "xchg"
             \/ \E g \in Harts : pc'[g] = "kick" /\ Target(g)' = t
  BY <1>f, <1>e DEF Target
<1> USE <1>t DEF Goto, Serve
<1>1. CASE Call(h, mask)
  BY <1>1, <1>f DEF Call, Request
<1>2. CASE Return(h) \/ Served(h) \/ Acknowledge(h)
  BY <1>2, <1>f DEF Return, Served, Acknowledge
<1>3. CASE Dequeue(h)
  BY <1>3, <1>f DEF Dequeue
<1>4. CASE sbi_tlb_fifo_update(h)
  BY <1>4, <1>f DEF sbi_tlb_fifo_update, Advance
<1>5. CASE sbi_tlb_fifo_sync(h)
  BY <1>5, <1>f DEF sbi_tlb_fifo_sync, Advance
<1>6. CASE Process(h)
  BY <1>6, <1>f, ProcessEffect
<1>7. CASE Clear(h)
  <2>1. /\ pc' = [pc EXCEPT ![h] = "xchg"] /\ UNCHANGED <<ipi_type, todo>> /\ pc[h] = "run"
        /\ \A g \in Harts \ {h} : msip'[g] = msip[g]
    BY <1>7 DEF Clear
  <2> QED BY <1>e, <2>1 DEF Target
<1>8. CASE Take(h)
  BY <1>8, <1>e DEF Take, Target
<1>9. CASE Raise(h)
  <2>1. pc' = [pc EXCEPT ![h] = "kick"] /\ UNCHANGED <<msip, todo>> /\ pc[h] # "xchg"
    BY <1>9 DEF Raise
  <2>2. CASE Target(h) = t
    BY <2>1, <2>2 DEF Target
  <2>3. CASE Target(h) # t
    <3>1. ipi_type'[t] = ipi_type[t]
      BY <1>9, <2>3 DEF Raise
    <3> QED BY <1>e, <2>1, <3>1 DEF Target
  <2> QED BY <2>2, <2>3
<1>10. CASE Kick(h)
  <2>1. /\ msip' = [msip EXCEPT ![Target(h)] = TRUE] /\ UNCHANGED ipi_type
        /\ pc[h] = "kick" /\ \A g \in Harts \ {h} : pc'[g] = pc[g] /\ todo'[g] = todo[g]
    BY <1>10 DEF Kick, Advance
  <2>2. CASE Target(h) = t
    BY <2>1, <2>2
  <2>3. CASE Target(h) # t
    <3>1. msip'[t] = msip[t]
      BY <2>1, <2>3
    <3>2. pc[t] = "xchg" => pc'[t] = "xchg"
      BY <2>1
    <3>3. ASSUME NEW g \in Harts, pc[g] = "kick", Target(g) = t
          PROVE  pc'[g] = "kick" /\ Target(g)' = t
      BY <2>1, <2>3, <3>3 DEF Target
    <3> QED BY <1>e, <2>1, <3>1, <3>2, <3>3
  <2> QED BY <2>2, <2>3
<1> QED BY <1>0, <1>1, <1>2, <1>3, <1>4, <1>5, <1>6, <1>7, <1>8, <1>9, <1>10 DEF Firmware

-----------------------------------------------------------------------------
LEMMA Inductive == IInv /\ [Next]_vars => IInv'
<1> SUFFICES ASSUME IInv, [Next]_vars PROVE IInv'
  OBVIOUS
<1>1. CASE Next
  <2>1. Typed(Labels) /\ Placed /\ Flow /\ Covered
    BY TypedIs DEF IInv, Flow
  <2>2. PICK h \in Harts : Acts(h, Enabled)
    BY <1>1 DEF Next, Acts
  <2>3. Enabled \in SUBSET Harts /\ Labels \subseteq Labels
    BY DEF Enabled
  <2>4. Typed(Labels)' /\ Placed' /\ Flow' /\ Covered'
    BY <2>1, <2>2, <2>3, TypeStep, PlacedStep, FlowStep, CoveredStep
  <2>5. TypeOK'
    BY <2>4 DEF TypeOK, Typed, Fifos
  <2> QED BY <2>4, <2>5 DEF IInv, Flow
<1>2. CASE UNCHANGED vars
  <2> USE <1>2 DEF vars
  <2>1. TypeOK'
    BY DEF IInv, TypeOK
  <2>2. Placed'
    BY DEF IInv, Placed, Sends, Waits, Serves
  <2>3. Flow'
    <3>1. Keeps
      BY DEF Keeps, Waits, Serves
    <3> QED BY <3>1, FlowKept, TypedIs DEF IInv, Flow
  <2>4. Covered'
    BY DEF IInv, Covered, Excepted
  <2> QED BY <2>1, <2>2, <2>3, <2>4 DEF IInv, Flow
<1> QED BY <1>1, <1>2

LEMMA Invariant == Spec => []IInv
BY InitHolds, Inductive, PTL DEF Spec

-----------------------------------------------------------------------------
(* Every value stays in its range: no FIFO takes an entry above its size,  *)
(* and only events that were sent are pending.                             *)
THEOREM TypeCorrect == Spec => []TypeOK
<1>1. IInv => TypeOK
  BY DEF IInv
<1> QED BY <1>1, Invariant, PTL

(* What is queued or being acknowledged is of one place at a time.         *)
LEMMA OneAtATime ==
    ASSUME Queued, Acking
    PROVE  OneFlushAwaited
<1> SUFFICES ASSUME NEW s \in Harts, NEW p \in Due(s), NEW q \in Due(s)
             PROVE  p = q /\ tlb_sync[s] = 0 /\ Awaits(s, p[1])
  BY DEF OneFlushAwaited
<1>0. NumEntries \in Nat
  BY EntriesAssumption
<1>1. ASSUME NEW d \in Due(s)
      PROVE  /\ d \in Harts \X (0 .. NumEntries) /\ tlb_sync[s] = 0 /\ Awaits(s, d[1])
             /\ \/ d[2] \in Slots /\ Entry(d[1], d[2]) = s
                \/ d[2] = NumEntries /\ pc[d[1]] = "ack" /\ cur[d[1]] = s
  <2>1. /\ d \in Harts \X (0 .. NumEntries)
        /\ \/ d[2] \in Slots /\ Entry(d[1], d[2]) = s
           \/ d[2] = NumEntries /\ pc[d[1]] = "ack" /\ cur[d[1]] = s
    BY <1>0, <1>1, SMT DEF Due, Slots, Entry
  <2>2. d[1] \in Harts
    BY <2>1, SMT
  <2>3. ASSUME d[2] \in Slots, Entry(d[1], d[2]) = s
        PROVE  tlb_sync[s] = 0 /\ Awaits(s, d[1])
    BY <2>2, <2>3, SMT DEF Queued
  <2>4. ASSUME pc[d[1]] = "ack", cur[d[1]] = s
        PROVE  tlb_sync[s] = 0 /\ Awaits(s, d[1])
    BY <2>2, <2>4, Zenon DEF Acking
  <2> QED BY <2>1, <2>3, <2>4, Zenon
<1>2. p[1] = q[1]
  BY <1>1, SMT DEF Awaits
<1>3. p[2] = q[2]
  BY <1>1, <1>2, SMT DEF Queued
<1>4. p = q
  BY <1>1, <1>2, <1>3, SMT
<1> QED BY <1>1, <1>4

(* A hart waits for one flush at a time, at the target it is at, and its   *)
(* tlb_sync is clear: the acknowledging loop never goes round.             *)
THEOREM OneFlush == Spec => []OneFlushAwaited
<1>1. IInv => OneFlushAwaited
  BY OneAtATime DEF IInv, Flow
<1> QED BY <1>1, Invariant, PTL

(* When a fence returns, every hart it names has flushed for it.           *)
THEOREM Fenced == Spec => FencedOnReturn
<1>1. IInv /\ [Next]_vars =>
        [\A h \in Harts : Return(h) /\ event[h] = RFENCE
            => set[h] \ fenced[h] \subseteq (IF Bases = {0} THEN {} ELSE {h})]_vars
  BY DEF IInv, Covered, Excepted, Return
<1> QED BY <1>1, Invariant, PTL DEF Spec, FencedOnReturn

(* An event whose bit is set is never left behind: Clear comes before the  *)
(* exchange in Take, and Raise before Kick.                                *)
THEOREM EventsKept == Spec => []EventsNotLost
<1>1. Init => EventsNotLost
  BY InitHolds
<1>2. IInv /\ EventsNotLost /\ [Next]_vars => EventsNotLost'
  <2> SUFFICES ASSUME Typed(Labels), EventsNotLost, [Next]_vars PROVE EventsNotLost'
    BY TypedIs DEF IInv
  <2>1. CASE UNCHANGED vars
    BY <2>1 DEF vars, EventsNotLost, Target
  <2>2. CASE Next
    <3>1. PICK h \in Harts : Acts(h, Enabled)
      BY <2>2 DEF Next, Acts
    <3> QED BY <3>1, EventsStep
  <2> QED BY <2>1, <2>2
<1> QED BY <1>1, <1>2, Invariant, PTL DEF Spec

-----------------------------------------------------------------------------
(* HartStart: the same harts, from reset on.                               *)

(* The labels of the boot, up to the one at which a hart is marked         *)
(* available; and those after it.                                          *)
Early == {"reset", "coldinit", "wake", "coldwait", "coldwfi", "coldclear", "hsmwait", "hsmwfi",
          "hsmclear", "ipiinit", "fifoinit", "ipiclear", "mark"}
Late == {"ready", "jump", "check", "startkick"}
Places == Labels \cup Early \cup Late

(* Nobody sends to a hart that is not available, and a hart that boots is  *)
(* not: sbi_ipi_init and sbi_tlb_fifo_init find nothing to lose.           *)
Marked ==
    /\ available \subseteq Harts
    /\ \A h \in Harts : pc[h] \in Early => h \notin available
    /\ \A h \in Harts : pc[h] \notin Early \cup {"panic"} => h \in available
    /\ \A h \in Harts : todo[h] \subseteq available
    /\ \A h \in Harts : ipi_type[h] # {} => h \in available

(* One hart boots cold, and before it is done the others wait.             *)
Cold(h) == pc[h] \in {"coldinit", "wake"}
ColdFirst ==
    /\ lottery = 0 => ~ coldboot_done /\ \A h \in Harts : pc[h] \in {"reset", "panic"}
    /\ ~ coldboot_done => \A h \in Harts :
          pc[h] \in {"reset", "panic", "coldwait", "coldwfi", "coldinit", "wake"}
    /\ \A h \in Harts : Cold(h) => ~ coldboot_done /\ \A g \in Harts : Cold(g) => g = h

Entries == Addresses \cup {Nowhere, "payload"}
Starts == (Harts \cup {Nobody}) \X (Addresses \cup {Nowhere})

(* A hart has been started once, and whoever starts it is on its way to    *)
(* give it its address, has done so, or was refused.                       *)
Given(t) == \/ next_addr[t] = told[t] \/ told[t] \in Refused
            \/ \E h \in Harts : pc[h] = "check" /\ start[h][1] = t
StartedOnce ==
    /\ hsm \in [Harts -> {"STOPPED", "STARTING", "STARTED", "STOPPING"}]
    /\ start \in [Harts -> Starts]
    /\ told \in [Harts -> Entries] /\ next_addr \in [Harts -> Entries]
    /\ entered \in [Harts -> Entries]
    /\ \A h \in Harts : pc[h] = "check" =>
          /\ start[h][1] \in Harts /\ hsm[start[h][1]] # "STOPPED"
          /\ told[start[h][1]] = start[h][2]
    /\ \A t \in Harts : hsm[t] # "STOPPED" => Given(t)
    /\ \A t \in Harts : pc[t] = "jump" => hsm[t] # "STOPPED"

(* Where hart ids are not cpu numbers, sbi_hsm_hart_wait clears the        *)
(* interrupt of another hart.                                              *)
Aligned == HartShift = 0

Fences == Typed(Places) /\ Placed /\ Flow /\ Covered /\ (Aligned => EventsNotLost)

HInv == Fences /\ Marked /\ ColdFirst /\ StartedOnce

-----------------------------------------------------------------------------
(* h takes a step of the boot or of sbi_hsm.c.                             *)
Aside == Early \cup Late \cup {"run"}
Aloof(h, to) ==
    /\ pc[h] \in Aside /\ to \in Aside \cup {"panic"} /\ Goto(h, to)
    /\ UNCHANGED <<event, todo, pend, back, deq, cur, set, fenced>>

LEMMA AloofIs ==
    ASSUME pc \in [Harts -> Places], NEW h \in Harts, NEW to, Aloof(h, to)
    PROVE  /\ pc' \in [Harts -> Places] /\ pc'[h] = to
           /\ \A g \in Harts \ {h} : pc'[g] = pc[g]
           /\ \A g \in Harts :
                 /\ Waits(g)' <=> Waits(g) 
                 /\ Sends(g)' <=> Sends(g)
                 /\ \A label \in {"ack", "kick", "xchg"} : pc'[g] = label <=> pc[g] = label
                 /\ Target(g)' = Target(g)
<1>1. /\ pc' = [pc EXCEPT ![h] = to] /\ back' = back /\ todo' = todo
  BY DEF Aloof, Goto
<1>2. to \in Places
  BY DEF Aloof, Aside, Places, Labels
<1>3. pc'[h] = to /\ \A g \in Harts \ {h} : pc'[g] = pc[g]
  BY <1>1
<1>4. /\ pc[h] \notin {"raise", "kick", "sync", "send", "serve", "ack", "xchg"}
      /\ pc'[h] \notin {"raise", "kick", "sync", "send", "serve", "ack", "xchg"}
  BY <1>3 DEF Aloof, Aside, Early, Late
<1>5. ASSUME NEW g \in Harts
      PROVE  /\ Waits(g)' <=> Waits(g) 
             /\ Sends(g)' <=> Sends(g)
             /\ \A label \in {"ack", "kick", "xchg"} : pc'[g] = label <=> pc[g] = label
             /\ Target(g)' = Target(g)
  <2>1. CASE g = h
    BY <1>1, <1>4, <2>1 DEF Waits, Sends, Serves, Target
  <2>2. CASE g # h
    BY <1>1, <1>3, <2>2 DEF Waits, Sends, Serves, Target
  <2> QED BY <2>1, <2>2
<1> QED BY <1>1, <1>2, <1>3, <1>5

(* It changes nothing that a fence or an event depends on.                 *)
LEMMA AloofStep ==
    ASSUME Fences, NEW h \in Harts, NEW to, Aloof(h, to),
           fifo' \in [Harts -> Fifos], Windows',
           \A t \in Harts : \A i \in Slots : Entry(t, i)' = Entry(t, i),
           tlb_sync' = tlb_sync,
           ipi_type' \in [Harts -> SUBSET Events],
           msip' \in [Harts -> BOOLEAN], ssip' \in [Harts -> BOOLEAN],
           \A t \in Harts : ipi_type'[t] # {} => ipi_type[t] # {} /\ (Aligned /\ msip[t] => msip'[t])
    PROVE  Fences'
<1>1. /\ event' = event /\ todo' = todo /\ pend' = pend /\ back' = back /\ deq' = deq
      /\ cur' = cur /\ set' = set /\ fenced' = fenced
  BY DEF Aloof
<1>2. /\ pc' \in [Harts -> Places]
      /\ \A g \in Harts :
            /\ Waits(g)' <=> Waits(g) 
            /\ Sends(g)' <=> Sends(g)
            /\ \A label \in {"ack", "kick", "xchg"} : pc'[g] = label <=> pc[g] = label
            /\ Target(g)' = Target(g)
  BY AloofIs DEF Fences, Typed
<1>3. ASSUME NEW g \in Harts
      PROVE  /\ (Waits(g)' <=> Waits(g)) /\ (Sends(g)' <=> Sends(g)) /\ Target(g)' = Target(g)
             /\ (pc'[g] = "ack" <=> pc[g] = "ack")
             /\ (pc'[g] = "kick" <=> pc[g] = "kick")
             /\ (pc'[g] = "xchg" <=> pc[g] = "xchg")
  BY <1>2
<1>4. Typed(Places)'
  BY <1>1, <1>2 DEF Fences, Typed
<1>5. Placed'
  BY <1>1, <1>3 DEF Fences, Placed
<1>6. \A s, t \in Harts : Awaits(s, t)' <=> Awaits(s, t)
  BY <1>1, <1>3 DEF Awaits
<1>7. Queued'
  <2> SUFFICES ASSUME NEW s \in Harts, NEW t \in Harts, NEW i \in Slots, Entry(t, i)' = s
               PROVE  /\ tlb_sync'[s] = 0 /\ Awaits(s, t)' /\ Waits(s)'
                      /\ ~ (pc'[t] = "ack" /\ cur'[t] = s)
                      /\ \A j \in Slots : Entry(t, j)' = s => j = i
    BY DEF Queued
  <2>1. /\ tlb_sync[s] = 0 /\ Awaits(s, t) /\ Waits(s)
        /\ ~ (pc[t] = "ack" /\ cur[t] = s)
        /\ \A j \in Slots : Entry(t, j) = s => j = i
    <3>1. Entry(t, i) = s
      OBVIOUS
    <3>2. \A j \in Slots : Entry(t, j) = s => j = i
      BY <3>1 DEF Fences, Flow, Queued
    <3> QED BY <3>1, <3>2 DEF Fences, Flow, Queued
  <2> QED BY <1>1, <1>3, <1>6, <2>1
<1>8. Acking'
  BY <1>1, <1>3, <1>6 DEF Fences, Flow, Acking
<1>9. Synced'
  BY <1>1, <1>3 DEF Fences, Flow, Synced
<1>10. Covered'
  BY <1>1 DEF Fences, Covered, Excepted
<1>11. Aligned => EventsNotLost'
  <2> SUFFICES ASSUME Aligned, NEW t \in Harts, ipi_type'[t] # {}
               PROVE  \/ msip'[t] \/ pc'[t] = "xchg"
                      \/ \E g \in Harts : pc'[g] = "kick" /\ Target(g)' = t
    BY DEF EventsNotLost
  <2>1. \/ msip[t] \/ pc[t] = "xchg"
        \/ \E g \in Harts : pc[g] = "kick" /\ Target(g) = t
    BY DEF Fences, EventsNotLost
  <2> QED BY <1>3, <2>1
<1> QED BY <1>4, <1>5, <1>7, <1>8, <1>9, <1>10, <1>11 DEF Fences, Flow

LEMMA SameFifos ==
    ASSUME Fences, fifo' = fifo
    PROVE  /\ fifo' \in [Harts -> Fifos] /\ Windows'
           /\ \A t \in Harts : \A i \in Slots : Entry(t, i)' = Entry(t, i)
BY DEF Fences, Flow, Typed, Windows, Entry

-----------------------------------------------------------------------------
(* The moves that each part of the invariant takes no notice of.           *)
LEMMA MarkedMoves ==
    ASSUME Marked, pc \in [Harts -> Places], NEW h \in Harts, NEW to, Goto(h, to),
           available' = available, todo' = todo,
           \A g \in Harts : ipi_type'[g] # {} => ipi_type[g] # {},
           \/ pc[h] \in Early /\ to \in Early
           \/ pc[h] \notin Early \cup {"panic"} /\ to \notin Early
           \/ to = "panic"
    PROVE  Marked'
<1>1. pc'[h] = to /\ \A g \in Harts \ {h} : pc'[g] = pc[g]
  BY DEF Goto
<1>2. "panic" \notin Early
  BY DEF Early
<1>3. ASSUME NEW g \in Harts
      PROVE  /\ pc'[g] \in Early => g \notin available
             /\ pc'[g] \notin Early \cup {"panic"} => g \in available
  BY <1>1, <1>2 DEF Marked
<1> QED BY <1>3 DEF Marked

ColdPlaces == {"reset", "panic", "coldwait", "coldwfi", "coldinit", "wake"}

LEMMA ColdMoves ==
    ASSUME ColdFirst, pc \in [Harts -> Places], NEW h \in Harts, pc[h] \notin ColdPlaces,
           pc'[h] \notin {"coldinit", "wake"}, \A g \in Harts \ {h} : pc'[g] = pc[g],
           lottery' = lottery, coldboot_done' = coldboot_done
    PROVE  ColdFirst'
<1>1. coldboot_done
  BY DEF ColdFirst, ColdPlaces
<1>2. lottery # 0
  BY <1>1 DEF ColdFirst
<1>3. \A g \in Harts : ~ Cold(g)
  BY <1>1 DEF ColdFirst
<1>4. \A g \in Harts : ~ Cold(g)'
  BY <1>3 DEF Cold
<1> QED BY <1>1, <1>2, <1>4 DEF ColdFirst

LEMMA StartedMoves ==
    ASSUME StartedOnce, pc \in [Harts -> Places], NEW h \in Harts,
           pc[h] # "check", pc'[h] \notin {"check", "jump"},
           \A g \in Harts \ {h} : pc'[g] = pc[g],
           hsm' = hsm, told' = told, next_addr' = next_addr, entered' \in [Harts -> Entries],
           start' \in [Harts -> Starts],
           \A g \in Harts \ {h} : start'[g] = start[g]
    PROVE  StartedOnce'
<1>1. ASSUME NEW g \in Harts
      PROVE  /\ pc'[g] = "check" <=> pc[g] = "check"
             /\ pc[g] = "check" => start'[g] = start[g]
             /\ pc'[g] = "jump" => pc[g] = "jump"
  OBVIOUS
<1>2. \A t \in Harts : Given(t) => Given(t)'
  BY <1>1 DEF Given
<1>3. ASSUME NEW g \in Harts, pc'[g] = "check"
      PROVE  /\ start'[g][1] \in Harts /\ hsm'[start'[g][1]] # "STOPPED"
             /\ told'[start'[g][1]] = start'[g][2]
  <2>1. start'[g] = start[g] /\ pc[g] = "check"
    BY <1>1, <1>3
  <2> QED BY <2>1 DEF StartedOnce
<1>4. ASSUME NEW t \in Harts, hsm'[t] # "STOPPED" PROVE Given(t)'
  BY <1>2, <1>4 DEF StartedOnce
<1>5. ASSUME NEW t \in Harts, pc'[t] = "jump" PROVE hsm'[t] # "STOPPED"
  BY <1>1, <1>5 DEF StartedOnce
<1> QED BY <1>3, <1>4, <1>5 DEF StartedOnce

-----------------------------------------------------------------------------
(* The steps of RemoteFence.                                               *)
LEMMA Moves ==
    ASSUME Typed(Places), Placed, NEW h \in Harts, Clear(h) \/ Firmware(h)
    PROVE  /\ pc[h] \in Labels \ {"panic"} /\ pc'[h] \in Labels
           /\ \A g \in Harts \ {h} : pc'[g] = pc[g]
           /\ \A g \in Harts : todo'[g] \subseteq todo[g]
           /\ \A g \in Harts : ipi_type'[g] # {} => ipi_type[g] # {} \/ g \in todo[h]
<1>t. /\ pc \in [Harts -> Places] /\ back[h] \in {"send", "sync", "events"}
      /\ todo \in [Harts -> SUBSET Harts] /\ ipi_type \in [Harts -> SUBSET Events]
  BY DEF Typed
<1> USE DEF calls, Labels
<1>1. CASE Clear(h)
  BY <1>t, <1>1 DEF Clear, Goto
<1>2. CASE Return(h)
  BY <1>t, <1>2 DEF Return, Goto
<1>3. CASE sbi_tlb_fifo_update(h)
  BY <1>t, <1>3 DEF sbi_tlb_fifo_update, Goto, Advance, Serve
<1>4. CASE Raise(h)
  <2>1. todo[h] # {}
    BY <1>4 DEF Raise, Placed, Waits
  <2>2. Target(h) \in todo[h]
    BY <2>1, <1>t, TargetIn
  <2>3. pc[h] \in {"send", "raise"} /\ Goto(h, "kick") /\ todo' = todo
    BY <1>4 DEF Raise
  <2>4. ipi_type' = [ipi_type EXCEPT ![Target(h)] = @ \cup {event[h]}]
    BY <1>4 DEF Raise
  <2>5. \A g \in Harts : ipi_type'[g] # {} => ipi_type[g] # {} \/ g = Target(h)
    BY <1>t, <2>4
  <2> QED BY <1>t, <2>2, <2>3, <2>5 DEF Goto
<1>5. CASE Kick(h)
  <2>1. /\ pc[h] = "kick" /\ ipi_type' = ipi_type
        /\ \/ Goto(h, "sync") /\ todo' = todo
           \/ Goto(h, "send") /\ Advance(h)
    BY <1>5 DEF Kick
  <2>2. \A g \in Harts : todo'[g] \subseteq todo[g]
    BY <1>t, <2>1 DEF Advance
  <2> QED BY <1>t, <2>1, <2>2 DEF Goto
<1>6. CASE sbi_tlb_fifo_sync(h)
  <2>1. /\ pc[h] = "sync" /\ ipi_type' = ipi_type
        /\ \/ Goto(h, "send") /\ Advance(h)
           \/ Goto(h, "serve") /\ todo' = todo
    BY <1>6 DEF sbi_tlb_fifo_sync, Serve
  <2>2. \A g \in Harts : todo'[g] \subseteq todo[g]
    BY <1>t, <2>1 DEF Advance
  <2> QED BY <1>t, <2>1, <2>2 DEF Goto
<1>7. CASE Dequeue(h)
  BY <1>t, <1>7 DEF Dequeue, Goto
<1>8. CASE Served(h)
  BY <1>t, <1>8 DEF Served, Goto
<1>9. CASE Acknowledge(h)
  BY <1>t, <1>9 DEF Acknowledge, Goto
<1>10. CASE Take(h)
  BY <1>t, <1>10 DEF Take, Goto
<1>11. CASE Process(h)
  <2>1. /\ pc[h] = "events" /\ todo' = todo /\ ipi_type' = ipi_type
        /\ \/ pc' = pc
           \/ Goto(h, "run")
           \/ Goto(h, "panic")
           \/ Goto(h, "serve")
    BY <1>11, ProcessEffect DEF Serve, Places
  <2> QED BY <1>t, <2>1 DEF Goto
<1> QED BY <1>1, <1>2, <1>3, <1>4, <1>5, <1>6, <1>7, <1>8, <1>9, <1>10, <1>11 DEF Firmware

LEMMA LabelsApart ==
    ASSUME NEW x \in Labels \ {"panic"}
    PROVE  x \notin Early \cup ColdPlaces \cup {"check", "jump"}
BY DEF Labels, Early, ColdPlaces

(* They keep the fences right.                                             *)
LEMMA FencesStep ==
    ASSUME Fences, NEW h \in Harts, NEW mask \in SUBSET Harts, Acts(h, mask)
    PROVE  Fences'
<1>1. Labels \subseteq Places
  BY DEF Places
<1>2. Typed(Places)' /\ Placed'
  BY <1>1, TypeStep, PlacedStep DEF Fences
<1>3. Flow' /\ Covered'
  BY <1>1, FlowStep, CoveredStep DEF Fences
<1>4. Aligned => EventsNotLost'
  BY <1>1, EventsStep DEF Fences
<1> QED BY <1>2, <1>3, <1>4 DEF Fences

LEMMA FirmwareInv ==
    ASSUME HInv, NEW h \in Harts, Clear(h) \/ Firmware(h),
           UNCHANGED <<boot, calling, hart>>
    PROVE  HInv'
<1>1. /\ pc[h] \in Labels \ {"panic"} /\ pc'[h] \in Labels
      /\ \A g \in Harts \ {h} : pc'[g] = pc[g]
      /\ \A g \in Harts : todo'[g] \subseteq todo[g]
      /\ \A g \in Harts : ipi_type'[g] # {} => ipi_type[g] # {} \/ g \in todo[h]
  BY Moves DEF HInv, Fences
<1>2. /\ lottery' = lottery /\ coldboot_done' = coldboot_done /\ available' = available
      /\ start' = start /\ told' = told /\ hsm' = hsm /\ next_addr' = next_addr
      /\ entered' = entered
  BY DEF boot, calling, hart
<1>3. pc \in [Harts -> Places]
  BY DEF HInv, Fences, Typed
<1>4. /\ pc[h] \notin Early \cup ColdPlaces \cup {"check", "jump", "panic"}
      /\ pc'[h] \notin Early \cup {"coldinit", "wake", "check", "jump"}
  BY <1>1, LabelsApart DEF Early
<1>5. Fences'
  <2>1. Acts(h, Harts)
    BY DEF Acts
  <2> QED BY <2>1, FencesStep DEF HInv
<1>6. Marked'
  <2>1. h \in available
    BY <1>4 DEF HInv, Marked
  <2>2. ASSUME NEW g \in Harts
        PROVE  /\ pc'[g] \in Early => g \notin available
               /\ pc'[g] \notin Early \cup {"panic"} => g \in available
    BY <1>1, <1>4, <2>1 DEF HInv, Marked
  <2>3. ASSUME NEW g \in Harts
        PROVE  todo'[g] \subseteq available /\ (ipi_type'[g] # {} => g \in available)
    BY <1>1 DEF HInv, Marked
  <2>4. available \subseteq Harts
    BY DEF HInv, Marked
  <2> QED BY <1>2, <2>2, <2>3, <2>4 DEF Marked
<1>7. ColdFirst'
  BY <1>1, <1>2, <1>3, <1>4, ColdMoves DEF HInv
<1>8. StartedOnce'
  <2>1. start' \in [Harts -> Starts] /\ entered' \in [Harts -> Entries]
    BY <1>2 DEF HInv, StartedOnce
  <2> QED BY <1>1, <1>2, <1>3, <1>4, <2>1, StartedMoves DEF HInv
<1> QED BY <1>5, <1>6, <1>7, <1>8 DEF HInv

LEMMA CallsInv ==
    ASSUME HInv, NEW h \in Harts, Calls(h)
    PROVE  HInv'
<1>0. PICK e \in Events, hbase \in Bases :
          \E m \in Masks(e, hbase, available) : Request(h, e, m, hbase)
  BY DEF Calls, Call
<1>1. PICK m \in Masks(e, hbase, available) : Request(h, e, m, hbase)
  BY <1>0
<1>2. /\ pc[h] = "run" /\ Goto(h, "send") /\ ipi_type' = ipi_type
      /\ todo' = [todo EXCEPT ![h] = Targets(h, m, hbase)]
      /\ set' = [set EXCEPT ![h] = {hbase + b : b \in m} \ Disabled]
      /\ set'[h] \subseteq available
      /\ lottery' = lottery /\ coldboot_done' = coldboot_done /\ available' = available
      /\ start' = start /\ told' = told /\ hsm' = hsm /\ next_addr' = next_addr
      /\ entered' = entered
  BY <1>1 DEF Calls, Request, boot, hart
<1>3. /\ pc \in [Harts -> Places] /\ todo \in [Harts -> SUBSET Harts]
      /\ set \in [Harts -> SUBSET Harts]
  BY DEF HInv, Fences, Typed
<1>4. Fences'
  <2>1. Acts(h, available) /\ available \in SUBSET Harts
    BY DEF Acts, Calls, HInv, Marked
  <2> QED BY <2>1, FencesStep DEF HInv
<1>5. pc'[h] = "send" /\ \A g \in Harts \ {h} : pc'[g] = pc[g]
  BY <1>2, <1>3 DEF Goto
<1>6. "run" \notin Early \cup ColdPlaces /\ "send" \notin Early
  BY DEF Early, ColdPlaces
<1>7. Marked'
  <2>1. h \in available
    BY <1>2, <1>6 DEF HInv, Marked
  <2>2. Targets(h, m, hbase) \subseteq available
    BY <1>2, <1>3, <2>1 DEF Targets
  <2>3. ASSUME NEW g \in Harts
        PROVE  /\ pc'[g] \in Early => g \notin available
               /\ pc'[g] \notin Early \cup {"panic"} => g \in available
    BY <1>5, <1>6, <2>1 DEF HInv, Marked
  <2>4. ASSUME NEW g \in Harts PROVE todo'[g] \subseteq available
    BY <1>2, <1>3, <2>2 DEF HInv, Marked
  <2> QED BY <1>2, <2>3, <2>4 DEF HInv, Marked
<1>8. ColdFirst'
  BY <1>2, <1>3, <1>5, <1>6, ColdMoves DEF HInv
<1>9. StartedOnce'
  <2>1. start' \in [Harts -> Starts] /\ entered' \in [Harts -> Entries]
    BY <1>2 DEF HInv, StartedOnce
  <2> QED BY <1>2, <1>3, <1>5, <2>1, StartedMoves DEF HInv
<1> QED BY <1>4, <1>7, <1>8, <1>9 DEF HInv

-----------------------------------------------------------------------------
(* The steps of the boot and of sbi_hsm.c, part by part.                   *)
Starting(h) ==
    \/ Boot(h) \/ wfi(h) \/ sbi_hsm_hart_stop(h)
    \/ \E t \in Harts, addr \in Addresses : sbi_hsm_hart_start(h, t, addr)
    \/ sbi_ipi_clear_smode(h) /\ UNCHANGED <<boot, calling, hart>>

LEMMA Stays ==
    ASSUME pc \in [Harts -> Places], NEW h \in Harts, pc' = pc
    PROVE  Goto(h, pc[h])
BY DEF Goto

LEMMA ClearedIs ==
    ASSUME NEW h \in Harts
    PROVE  Aligned => Cleared(h) = h
<1>1. h \in Nat
  BY HartsAssumption
<1>2. h + 0 = h
  BY <1>1, SMT
<1> QED BY <1>2 DEF Aligned, Cleared, smp_hw_cpu_hart

LEMMA StartingFences ==
    ASSUME HInv, NEW h \in Harts, Starting(h)
    PROVE  Fences'
<1>t. /\ pc \in [Harts -> Places] /\ ipi_type \in [Harts -> SUBSET Events]
      /\ msip \in [Harts -> BOOLEAN] /\ ssip \in [Harts -> BOOLEAN]
      /\ fifo \in [Harts -> Fifos] /\ tlb_sync \in [Harts -> {0, 1}]
  BY DEF HInv, Fences, Typed
<1>p. ASSUME NEW to \in Aside \cup {"panic"}, pc[h] \in Aside, Goto(h, to),
             UNCHANGED <<event, todo, pend, back, deq, cur, set, fenced>>,
             fifo' = fifo, tlb_sync' = tlb_sync, ipi_type' = ipi_type,
             msip' \in [Harts -> BOOLEAN], ssip' \in [Harts -> BOOLEAN],
             \A t \in Harts : Aligned /\ ipi_type[t] # {} /\ msip[t] => msip'[t]
      PROVE  Fences'
  <2>1. Aloof(h, to)
    BY <1>p DEF Aloof
  <2>2. ipi_type' \in [Harts -> SUBSET Events]
    BY <1>t, <1>p
  <2>3. \A t \in Harts : ipi_type'[t] # {} => ipi_type[t] # {} /\ (Aligned /\ msip[t] => msip'[t])
    BY <1>p
  <2>4. /\ fifo' \in [Harts -> Fifos] /\ Windows'
        /\ \A t \in Harts : \A i \in Slots : Entry(t, i)' = Entry(t, i)
    BY <1>p, SameFifos DEF HInv
  <2> QED BY <1>p, <2>1, <2>2, <2>3, <2>4, AloofStep DEF HInv
<1>q. ASSUME NEW to \in Aside \cup {"panic"}, pc[h] \in Aside, Goto(h, to),
             UNCHANGED <<ipis, msip>>
      PROVE  Fences'
  <2>1. /\ UNCHANGED <<event, todo, pend, back, deq, cur, set, fenced>>
        /\ fifo' = fifo /\ tlb_sync' = tlb_sync /\ ipi_type' = ipi_type
        /\ msip' = msip /\ ssip' = ssip
    BY <1>q DEF ipis
  <2>2. msip' \in [Harts -> BOOLEAN] /\ ssip' \in [Harts -> BOOLEAN]
    BY <1>t, <2>1
  <2> QED BY <1>p, <1>q, <2>1, <2>2
<1>r. ASSUME NEW to \in Aside \cup {"panic"}, pc[h] \in Aside, Goto(h, to),
             UNCHANGED ipis, msip' \in [Harts -> BOOLEAN],
             \A t \in Harts : Aligned /\ ipi_type[t] # {} /\ msip[t] => msip'[t]
      PROVE  Fences'
  <2>1. /\ UNCHANGED <<event, todo, pend, back, deq, cur, set, fenced>>
        /\ fifo' = fifo /\ tlb_sync' = tlb_sync /\ ipi_type' = ipi_type /\ ssip' = ssip
    BY <1>r DEF ipis
  <2>2. ssip' \in [Harts -> BOOLEAN]
    BY <1>t, <2>1
  <2> QED BY <1>p, <1>r, <2>1, <2>2
<1>a. Aside \subseteq Aside \cup {"panic"} /\ "panic" \in Aside \cup {"panic"}
  OBVIOUS
<1> USE DEF Step, Aside, Early, Late
<1>1. CASE sbi_init(h)
  BY <1>q, <1>1 DEF sbi_init
<1>2. CASE init_coldboot(h)
  BY <1>q, <1>2 DEF init_coldboot
<1>3. CASE wake_coldboot_harts(h)
  BY <1>r, <1>3 DEF wake_coldboot_harts
<1>4. CASE wait_for_coldboot(h)
  BY <1>q, <1>4 DEF wait_for_coldboot
<1>5. CASE wfi(h)
  BY <1>q, <1>5 DEF wfi
<1>6. CASE ClearIpi(h)
  <2>1. ipi_type[h] = {}
    BY <1>6 DEF ClearIpi, HInv, Marked
  <2>2. Aligned => Cleared(h) = h
    BY ClearedIs
  <2>3. /\ msip' \in [Harts -> BOOLEAN]
        /\ \A t \in Harts : Aligned /\ ipi_type[t] # {} /\ msip[t] => msip'[t]
    BY <1>t, <1>6, <2>1, <2>2 DEF ClearIpi
  <2> QED BY <1>r, <1>6, <2>3 DEF ClearIpi
<1>7. CASE sbi_hsm_hart_wait(h)
  BY <1>q, <1>7 DEF sbi_hsm_hart_wait
<1>8. CASE sbi_ipi_init(h)
  <2>1. ipi_type[h] = {} /\ ipi_type' = [ipi_type EXCEPT ![h] = {}]
    BY <1>8 DEF sbi_ipi_init, HInv, Marked
  <2>2. ipi_type' = ipi_type
    BY <1>t, <2>1
  <2>3. UNCHANGED <<ipis, msip>>
    BY <1>8, <2>2 DEF sbi_ipi_init, ipis, calls, serving
  <2> QED BY <1>q, <1>8, <2>3 DEF sbi_ipi_init
<1>9. CASE sbi_tlb_fifo_init(h)
  <2>1. /\ tlb_sync' = [tlb_sync EXCEPT ![h] = 0]
        /\ fifo' = [fifo EXCEPT ![h] = EmptyFifo]
        /\ pc[h] = "fifoinit" /\ Goto(h, "ipiclear")
        /\ ipi_type' = ipi_type /\ msip' = msip /\ ssip' = ssip
        /\ UNCHANGED <<event, todo, pend, back, deq, cur, set, fenced>>
    BY <1>9 DEF sbi_tlb_fifo_init, calls, serving
  <2>2. Aloof(h, "ipiclear")
    BY <2>1 DEF Aloof
  <2>3. h \notin available
    BY <2>1 DEF HInv, Marked
  <2>4. tlb_sync' = tlb_sync
    <3>1. ~ Waits(h)
      BY <2>1 DEF Waits, Serves
    <3>2. tlb_sync[h] # 1
      BY <3>1 DEF HInv, Fences, Flow, Synced
    <3>3. tlb_sync[h] = 0
      BY <1>t, <3>2
    <3> QED BY <1>t, <2>1, <3>3
  <2>5. ASSUME NEW i \in Slots PROVE Entry(h, i) = Nobody
    <3>1. ASSUME NEW s \in Harts PROVE Entry(h, i) # s
      <4>1. ~ Awaits(s, h)
        <5>1. h \notin todo[s]
          BY <2>3 DEF HInv, Marked
        <5> QED BY <5>1, TargetIn DEF Awaits, HInv, Fences, Typed
      <4>2. Queued
        BY DEF HInv, Fences, Flow
      <4> QED BY <4>1, <4>2 DEF Queued
    <3>2. Entry(h, i) \in Harts \cup {Nobody}
      <4>1. fifo[h] \in Fifos
        BY <1>t
      <4>2. fifo[h].queue \in [Slots -> Harts \cup {Nobody}]
        BY <4>1, SMT DEF Fifos, Slots
      <4> QED BY <4>2 DEF Entry
    <3> QED BY <3>1, <3>2
  <2>6. /\ fifo'[h] = EmptyFifo /\ \A t \in Harts \ {h} : fifo'[t] = fifo[t]
    BY <1>t, <2>1
  <2>7. fifo' \in [Harts -> Fifos]
    BY <1>t, <2>1, EmptyIs
  <2>8. Windows'
    <3>1. ASSUME NEW t \in Harts PROVE Window(fifo'[t])
      <4>1. Window(fifo[t])
        BY DEF HInv, Fences, Flow, Windows
      <4> QED BY <2>6, <4>1, EmptyIs
    <3> QED BY <3>1 DEF Windows, Window, InUse
  <2>9. ASSUME NEW t \in Harts, NEW i \in Slots PROVE Entry(t, i)' = Entry(t, i)
    <3>1. CASE t = h
      <4>1. EmptyFifo.queue[i] = Nobody
        BY SMT DEF EmptyFifo, Slots
      <4> QED BY <2>5, <2>6, <3>1, <4>1 DEF Entry
    <3>2. CASE t # h
      BY <2>6, <3>2 DEF Entry
    <3> QED BY <3>1, <3>2
  <2>10. /\ ipi_type' \in [Harts -> SUBSET Events]
         /\ msip' \in [Harts -> BOOLEAN] /\ ssip' \in [Harts -> BOOLEAN]
         /\ \A t \in Harts : ipi_type'[t] # {} => ipi_type[t] # {} /\ (Aligned /\ msip[t] => msip'[t])
    BY <1>t, <2>1
  <2> QED BY <2>2, <2>4, <2>7, <2>8, <2>9, <2>10, AloofStep DEF HInv
<1>10. CASE sbi_hart_mark_available(h)
  BY <1>q, <1>10 DEF sbi_hart_mark_available
<1>11. CASE sbi_hsm_prepare_next_jump(h)
  BY <1>q, <1>11 DEF sbi_hsm_prepare_next_jump
<1>12. CASE sbi_hart_switch_mode(h)
  BY <1>q, <1>12 DEF sbi_hart_switch_mode
<1>13. CASE StartCheck(h)
  BY <1>q, <1>13 DEF StartCheck
<1>14. CASE StartKick(h)
  BY <1>r, <1>t, <1>14 DEF StartKick
<1>15. CASE \E t \in Harts, addr \in Addresses : sbi_hsm_hart_start(h, t, addr)
  BY <1>q, <1>15 DEF sbi_hsm_hart_start
<1>16. CASE sbi_hsm_hart_stop(h)
  BY <1>q, <1>t, <1>16, Stays DEF sbi_hsm_hart_stop
<1>17. CASE sbi_ipi_clear_smode(h)
  BY <1>p, <1>t, <1>17, Stays DEF sbi_ipi_clear_smode, calls, serving
<1> QED BY <1>1, <1>2, <1>3, <1>4, <1>5, <1>6, <1>7, <1>8, <1>9, <1>10, <1>11, <1>12, <1>13,
           <1>14, <1>15, <1>16, <1>17 DEF Starting, Boot

LEMMA StartingMarked ==
    ASSUME HInv, NEW h \in Harts, Starting(h)
    PROVE  Marked'
<1>t. pc \in [Harts -> Places] /\ ipi_type \in [Harts -> SUBSET Events] /\ Marked
  BY DEF HInv, Fences, Typed
<1>p. ASSUME NEW to, Goto(h, to), available' = available, UNCHANGED ipis,
             \/ pc[h] \in Early /\ to \in Early
             \/ pc[h] \notin Early \cup {"panic"} /\ to \notin Early
             \/ to = "panic"
      PROVE  Marked'
  BY <1>t, <1>p, MarkedMoves DEF ipis
<1> USE DEF Step, Early, hart
<1>1. CASE sbi_init(h)
  BY <1>p, <1>1 DEF sbi_init
<1>2. CASE init_coldboot(h)
  BY <1>p, <1>2 DEF init_coldboot
<1>3. CASE wake_coldboot_harts(h)
  BY <1>p, <1>3 DEF wake_coldboot_harts
<1>4. CASE wait_for_coldboot(h)
  BY <1>p, <1>4 DEF wait_for_coldboot
<1>5. CASE wfi(h)
  BY <1>p, <1>5 DEF wfi
<1>6. CASE ClearIpi(h)
  BY <1>p, <1>6 DEF ClearIpi
<1>7. CASE sbi_hsm_hart_wait(h)
  BY <1>p, <1>7 DEF sbi_hsm_hart_wait
<1>8. CASE sbi_ipi_init(h)
  <2>1. /\ pc[h] = "ipiinit" /\ Goto(h, "fifoinit") /\ available' = available /\ todo' = todo
        /\ \A g \in Harts : ipi_type'[g] # {} => ipi_type[g] # {}
    BY <1>t, <1>8 DEF sbi_ipi_init, calls
  <2> QED BY <1>t, <2>1, MarkedMoves
<1>9. CASE sbi_tlb_fifo_init(h)
  <2>1. /\ pc[h] = "fifoinit" /\ Goto(h, "ipiclear") /\ available' = available /\ todo' = todo
        /\ ipi_type' = ipi_type
    BY <1>9 DEF sbi_tlb_fifo_init, calls
  <2> QED BY <1>t, <2>1, MarkedMoves
<1>10. CASE sbi_hart_mark_available(h)
  <2>1. /\ pc[h] = "mark" /\ pc' = [pc EXCEPT ![h] = "ready"]
        /\ available' = available \cup {h} /\ todo' = todo /\ ipi_type' = ipi_type
    BY <1>10 DEF sbi_hart_mark_available, ipis, Goto
  <2>2. ASSUME NEW g \in Harts
        PROVE  /\ pc'[g] \in Early => g \notin available'
               /\ pc'[g] \notin Early \cup {"panic"} => g \in available'
    <3>1. CASE g = h
      BY <1>t, <2>1, <3>1
    <3>2. CASE g # h
      <4>1. pc'[g] = pc[g] /\ (g \in available' <=> g \in available)
        BY <1>t, <2>1, <3>2
      <4> HIDE DEF Early
      <4> QED BY <1>t, <4>1 DEF Marked
    <3> QED BY <3>1, <3>2
  <2> HIDE DEF Early
  <2> QED BY <1>t, <2>1, <2>2 DEF Marked
<1>11. CASE sbi_hsm_prepare_next_jump(h)
  BY <1>p, <1>11 DEF sbi_hsm_prepare_next_jump
<1>12. CASE sbi_hart_switch_mode(h)
  BY <1>p, <1>12 DEF sbi_hart_switch_mode
<1>13. CASE StartCheck(h)
  BY <1>p, <1>13 DEF StartCheck
<1>14. CASE StartKick(h)
  BY <1>p, <1>14 DEF StartKick
<1>15. CASE \E t \in Harts, addr \in Addresses : sbi_hsm_hart_start(h, t, addr)
  BY <1>p, <1>15 DEF sbi_hsm_hart_start
<1>16. CASE sbi_hsm_hart_stop(h)
  BY <1>p, <1>t, <1>16, Stays DEF sbi_hsm_hart_stop
<1>17. CASE sbi_ipi_clear_smode(h) /\ UNCHANGED <<boot, calling, hart>>
  <2>1. /\ pc[h] = "run" /\ pc' = pc /\ available' = available /\ todo' = todo
        /\ ipi_type' = ipi_type
    BY <1>17 DEF sbi_ipi_clear_smode, calls
  <2> QED BY <1>t, <2>1, MarkedMoves, Stays
<1> QED BY <1>1, <1>2, <1>3, <1>4, <1>5, <1>6, <1>7, <1>8, <1>9, <1>10, <1>11, <1>12, <1>13,
           <1>14, <1>15, <1>16, <1>17 DEF Starting, Boot

LEMMA StartingCold ==
    ASSUME HInv, NEW h \in Harts, Starting(h)
    PROVE  ColdFirst'
<1>t. pc \in [Harts -> Places] /\ ColdFirst
  BY DEF HInv, Fences, Typed
<1>p. ASSUME NEW to, Goto(h, to), pc[h] \notin ColdPlaces, to \notin {"coldinit", "wake"},
             lottery' = lottery, coldboot_done' = coldboot_done
      PROVE  ColdFirst'
  <2>1. pc'[h] = to /\ \A g \in Harts \ {h} : pc'[g] = pc[g]
    BY <1>t, <1>p DEF Goto
  <2> QED BY <1>t, <1>p, <2>1, ColdMoves
<1> USE DEF Step, ColdPlaces, boot
<1>1. CASE sbi_init(h)
  <2>1. pc[h] = "reset" /\ coldboot_done' = coldboot_done /\ \A g \in Harts \ {h} : pc'[g] = pc[g]
    <3>1. PICK to : Goto(h, to)
      BY <1>1 DEF sbi_init
    <3> QED BY <1>t, <1>1, <3>1 DEF sbi_init, Goto
  <2>2. CASE pc'[h] = "panic" /\ lottery' = lottery
    BY <1>t, <2>1, <2>2 DEF ColdFirst, Cold
  <2>3. CASE pc'[h] = "coldwait" /\ lottery' = 1
    <3>1. lottery' # 0
      BY <2>3, SMT
    <3> QED BY <1>t, <2>1, <2>3, <3>1 DEF ColdFirst, Cold
  <2>4. CASE pc'[h] = "coldinit" /\ lottery' = 1 /\ lottery = 0
    <3>1. lottery' # 0
      BY <2>4, SMT
    <3>2. ~ coldboot_done /\ \A g \in Harts : pc[g] \in {"reset", "panic"}
      BY <1>t, <2>4 DEF ColdFirst
    <3>3. \A g \in Harts : Cold(g)' => g = h
      BY <2>1, <3>2 DEF Cold
    <3> QED BY <2>1, <2>4, <3>1, <3>2, <3>3 DEF ColdFirst
  <2> QED BY <1>t, <1>1, <2>2, <2>3, <2>4 DEF sbi_init, Goto
<1>2. CASE init_coldboot(h)
  <2>1. /\ pc[h] = "coldinit" /\ coldboot_done' = coldboot_done /\ lottery' = lottery
        /\ pc'[h] = "wake" /\ \A g \in Harts \ {h} : pc'[g] = pc[g]
    BY <1>t, <1>2 DEF init_coldboot, Goto
  <2>2. lottery # 0
    BY <1>t, <2>1 DEF ColdFirst
  <2>3. \A g \in Harts : Cold(g)' <=> Cold(g)
    BY <2>1 DEF Cold
  <2> QED BY <1>t, <2>1, <2>2, <2>3 DEF ColdFirst
<1>3. CASE wake_coldboot_harts(h)
  <2>1. /\ pc[h] = "wake" /\ coldboot_done' = TRUE /\ lottery' = lottery
        /\ pc'[h] = "mark" /\ \A g \in Harts \ {h} : pc'[g] = pc[g]
    BY <1>t, <1>3 DEF wake_coldboot_harts, Goto
  <2>2. lottery # 0
    BY <1>t, <2>1 DEF ColdFirst
  <2>3. \A g \in Harts : Cold(g) => g = h
    BY <1>t, <2>1 DEF ColdFirst, Cold
  <2>4. \A g \in Harts : ~ Cold(g)'
    BY <2>1, <2>3 DEF Cold
  <2> QED BY <2>1, <2>2, <2>4 DEF ColdFirst
<1>4. CASE wait_for_coldboot(h) \/ wfi(h)
  <2>0. /\ coldboot_done' = coldboot_done /\ lottery' = lottery
        /\ \/ pc[h] = "coldwait" /\ coldboot_done /\ Goto(h, "coldclear")
           \/ pc[h] = "coldwait" /\ Goto(h, "coldwfi")
           \/ pc[h] = "coldwfi" /\ Goto(h, "coldwait")
           \/ pc[h] = "hsmwfi" /\ Goto(h, "hsmwait")
    BY <1>4 DEF wait_for_coldboot, wfi
  <2>1. /\ \A g \in Harts \ {h} : pc'[g] = pc[g]
        /\ \/ pc[h] = "coldwait" /\ coldboot_done /\ pc'[h] = "coldclear"
           \/ pc[h] = "coldwait" /\ pc'[h] = "coldwfi"
           \/ pc[h] = "coldwfi" /\ pc'[h] = "coldwait"
           \/ pc[h] = "hsmwfi" /\ pc'[h] = "hsmwait"
    BY <1>t, <2>0 DEF Goto
  <2>2. lottery # 0 /\ (pc[h] = "hsmwfi" => coldboot_done)
    BY <1>t, <2>1 DEF ColdFirst
  <2>3. \A g \in Harts : Cold(g)' <=> Cold(g)
    BY <2>1 DEF Cold
  <2> QED BY <1>t, <2>0, <2>1, <2>2, <2>3 DEF ColdFirst
<1>6. CASE ClearIpi(h)
  BY <1>p, <1>6 DEF ClearIpi
<1>7. CASE sbi_hsm_hart_wait(h)
  BY <1>p, <1>7 DEF sbi_hsm_hart_wait
<1>8. CASE sbi_ipi_init(h)
  BY <1>p, <1>8 DEF sbi_ipi_init
<1>9. CASE sbi_tlb_fifo_init(h)
  BY <1>p, <1>9 DEF sbi_tlb_fifo_init
<1>10. CASE sbi_hart_mark_available(h)
  BY <1>p, <1>10 DEF sbi_hart_mark_available
<1>11. CASE sbi_hsm_prepare_next_jump(h)
  BY <1>p, <1>11 DEF sbi_hsm_prepare_next_jump
<1>12. CASE sbi_hart_switch_mode(h)
  BY <1>p, <1>12 DEF sbi_hart_switch_mode
<1>13. CASE StartCheck(h)
  BY <1>p, <1>13 DEF StartCheck
<1>14. CASE StartKick(h)
  BY <1>p, <1>14 DEF StartKick
<1>15. CASE \E t \in Harts, addr \in Addresses : sbi_hsm_hart_start(h, t, addr)
  BY <1>p, <1>15 DEF sbi_hsm_hart_start
<1>16. CASE sbi_hsm_hart_stop(h)
  BY <1>p, <1>t, <1>16, Stays DEF sbi_hsm_hart_stop
<1>17. CASE sbi_ipi_clear_smode(h) /\ UNCHANGED <<boot, calling, hart>>
  BY <1>p, <1>t, <1>17, Stays DEF sbi_ipi_clear_smode
<1> QED BY <1>1, <1>2, <1>3, <1>4, <1>6, <1>7, <1>8, <1>9, <1>10, <1>11, <1>12, <1>13,
           <1>14, <1>15, <1>16, <1>17 DEF Starting, Boot

(* The three steps that give a hart its state.                             *)
LEMMA ColdStarted ==
    ASSUME HInv, NEW h \in Harts, init_coldboot(h)
    PROVE  StartedOnce'
<1>t. StartedOnce /\ pc \in [Harts -> Places]
  BY DEF HInv, Fences, Typed
<1>1. /\ pc[h] = "coldinit" /\ pc'[h] = "wake" /\ \A g \in Harts \ {h} : pc'[g] = pc[g]
      /\ hsm' = [i \in Harts |-> IF i = h THEN "STARTING" ELSE "STOPPED"]
      /\ told' = [told EXCEPT ![h] = next_addr[h]]
      /\ start' = start /\ next_addr' = next_addr /\ entered' = entered
  BY <1>t DEF init_coldboot, Step, Goto, ColdStates
<1>2. /\ hsm' \in [Harts -> {"STOPPED", "STARTING", "STARTED", "STOPPING"}]
      /\ start' \in [Harts -> Starts] /\ told' \in [Harts -> Entries]
      /\ next_addr' \in [Harts -> Entries] /\ entered' \in [Harts -> Entries]
  BY <1>t, <1>1 DEF StartedOnce
<1>3. \A g \in Harts : pc[g] \in ColdPlaces
  BY <1>1 DEF HInv, ColdFirst, Cold, ColdPlaces
<1>4. \A g \in Harts : pc'[g] # "check" /\ pc'[g] # "jump"
  BY <1>1, <1>3 DEF ColdPlaces
<1>5. ASSUME NEW t \in Harts, hsm'[t] # "STOPPED" PROVE Given(t)'
  <2>1. t = h
    BY <1>1, <1>5
  <2>2. told'[h] = next_addr[h]
    BY <1>t, <1>1 DEF StartedOnce
  <2> QED BY <1>1, <2>1, <2>2 DEF Given
<1> QED BY <1>2, <1>4, <1>5 DEF StartedOnce

LEMMA AskedStarted ==
    ASSUME HInv, NEW h \in Harts, NEW t \in Harts, NEW addr \in Addresses,
           sbi_hsm_hart_start(h, t, addr)
    PROVE  StartedOnce'
<1>t. StartedOnce /\ pc \in [Harts -> Places]
  BY DEF HInv, Fences, Typed
<1>1. /\ pc[h] = "run" /\ pc'[h] = "check" /\ \A g \in Harts \ {h} : pc'[g] = pc[g]
      /\ hsm[t] = "STOPPED" /\ hsm' = [hsm EXCEPT ![t] = "STARTING"]
      /\ start' = [start EXCEPT ![h] = <<t, addr>>]
      /\ told' = [told EXCEPT ![t] = addr]
      /\ next_addr' = next_addr /\ entered' = entered
  BY <1>t DEF sbi_hsm_hart_start, Step, Goto
<1>2. <<t, addr>> \in Starts /\ addr \in Entries
  BY SMT DEF Starts, Entries
<1>3. /\ hsm' \in [Harts -> {"STOPPED", "STARTING", "STARTED", "STOPPING"}]
      /\ start' \in [Harts -> Starts] /\ told' \in [Harts -> Entries]
      /\ next_addr' \in [Harts -> Entries] /\ entered' \in [Harts -> Entries]
  BY <1>t, <1>1, <1>2 DEF StartedOnce
<1>4. /\ hsm'[t] = "STARTING" /\ \A u \in Harts \ {t} : hsm'[u] = hsm[u]
      /\ told'[t] = addr /\ \A u \in Harts \ {t} : told'[u] = told[u]
      /\ start'[h] = <<t, addr>> /\ \A g \in Harts \ {h} : start'[g] = start[g]
  BY <1>t, <1>1 DEF StartedOnce
<1>5. start'[h][1] = t /\ start'[h][2] = addr
  BY <1>4, SMT
<1>6. ASSUME NEW g \in Harts, pc'[g] = "check"
      PROVE  /\ start'[g][1] \in Harts /\ hsm'[start'[g][1]] # "STOPPED"
             /\ told'[start'[g][1]] = start'[g][2]
  <2>1. CASE g = h
    BY <1>4, <1>5, <2>1
  <2>2. CASE g # h
    <3>1. pc[g] = "check" /\ start'[g] = start[g]
      BY <1>1, <1>4, <1>6, <2>2
    <3>2. /\ start[g][1] \in Harts /\ hsm[start[g][1]] # "STOPPED"
          /\ told[start[g][1]] = start[g][2]
      BY <1>t, <3>1 DEF StartedOnce
    <3>3. start[g][1] # t
      BY <1>1, <3>2
    <3>4. hsm'[start[g][1]] = hsm[start[g][1]] /\ told'[start[g][1]] = told[start[g][1]]
      BY <1>4, <3>2, <3>3
    <3> QED BY <3>1, <3>2, <3>4
  <2> QED BY <2>1, <2>2
<1>7. ASSUME NEW u \in Harts, hsm'[u] # "STOPPED" PROVE Given(u)'
  <2>1. CASE u = t
    BY <1>1, <1>5, <2>1 DEF Given
  <2>2. CASE u # t
    <3>1. Given(u) /\ told'[u] = told[u]
      BY <1>t, <1>4, <1>7, <2>2 DEF StartedOnce
    <3>2. ASSUME NEW g \in Harts, pc[g] = "check", start[g][1] = u
          PROVE  pc'[g] = "check" /\ start'[g][1] = u
      BY <1>1, <1>4, <3>2
    <3> QED BY <1>1, <3>1, <3>2 DEF Given
  <2> QED BY <2>1, <2>2
<1>8. ASSUME NEW u \in Harts, pc'[u] = "jump" PROVE hsm'[u] # "STOPPED"
  <2>1. pc[u] = "jump"
    BY <1>1, <1>8
  <2> QED BY <1>t, <1>4, <2>1 DEF StartedOnce
<1> QED BY <1>3, <1>6, <1>7, <1>8 DEF StartedOnce

LEMMA CheckedStarted ==
    ASSUME HInv, NEW h \in Harts, StartCheck(h)
    PROVE  StartedOnce'
<1> DEFINE t == start[h][1]
           addr == start[h][2]
<1>t. StartedOnce /\ pc \in [Harts -> Places]
  BY DEF HInv, Fences, Typed
<1>1. /\ pc[h] = "check" /\ pc'[h] \in {"run", "startkick"}
      /\ \A g \in Harts \ {h} : pc'[g] = pc[g]
      /\ hsm' = hsm /\ told' = told /\ entered' = entered
  BY <1>t DEF StartCheck, Goto
<1>2. \/ /\ addr \in Refused /\ next_addr' = next_addr
         /\ start' = [start EXCEPT ![h] = NoStart]
      \/ next_addr' = [next_addr EXCEPT ![t] = addr] /\ start' = start
  BY DEF StartCheck
<1>3. t \in Harts /\ hsm[t] # "STOPPED" /\ told[t] = addr
  BY <1>t, <1>1 DEF StartedOnce
<1>4. addr \in Entries
  BY <1>t, <1>3 DEF StartedOnce
<1> HIDE DEF t, addr
<1>5. start' \in [Harts -> Starts] /\ next_addr' \in [Harts -> Entries]
  <2>1. NoStart \in Starts
    BY SMT DEF NoStart, Starts
  <2>2. start \in [Harts -> Starts] /\ next_addr \in [Harts -> Entries]
    BY <1>t DEF StartedOnce
  <2>3. start' \in [Harts -> Starts]
    BY <1>2, <2>1, <2>2
  <2>4. next_addr' \in [Harts -> Entries]
    BY <1>2, <1>4, <2>2
  <2> QED BY <2>3, <2>4
<1>6. ASSUME NEW g \in Harts, g # h
      PROVE  start'[g] = start[g] /\ (pc'[g] = "check" <=> pc[g] = "check")
  BY <1>t, <1>1, <1>2, <1>6 DEF StartedOnce
<1>7. pc'[h] # "check" /\ pc'[h] # "jump"
  BY <1>1
<1>8. ASSUME NEW g \in Harts, pc'[g] = "check"
      PROVE  /\ start'[g][1] \in Harts /\ hsm'[start'[g][1]] # "STOPPED"
             /\ told'[start'[g][1]] = start'[g][2]
  <2>1. start'[g] = start[g] /\ pc[g] = "check"
    BY <1>6, <1>7, <1>8
  <2> QED BY <1>t, <1>1, <2>1 DEF StartedOnce
<1>9. ASSUME NEW u \in Harts, hsm'[u] # "STOPPED" PROVE Given(u)'
  <2>1. CASE u = t
    <3>1. CASE addr \in Refused
      BY <1>1, <1>3, <2>1, <3>1 DEF Given
    <3>2. CASE next_addr' = [next_addr EXCEPT ![t] = addr]
      <4>1. next_addr'[t] = addr
        BY <1>t, <1>3, <3>2 DEF StartedOnce
      <4>2. next_addr'[u] = told'[u]
        BY <1>1, <1>3, <2>1, <4>1
      <4> QED BY <4>2 DEF Given
    <3> QED BY <1>2, <3>1, <3>2
  <2>2. CASE u # t
    <3>1. next_addr'[u] = next_addr[u] /\ told'[u] = told[u]
      BY <1>t, <1>1, <1>2, <2>2 DEF StartedOnce
    <3>2. Given(u)
      BY <1>t, <1>1, <1>9 DEF StartedOnce
    <3>3. ASSUME NEW g \in Harts, pc[g] = "check", start[g][1] = u
          PROVE  pc'[g] = "check" /\ start'[g][1] = u
      <4>1. g # h
        BY <2>2, <3>3 DEF t
      <4> QED BY <1>6, <3>3, <4>1
    <3> QED BY <3>1, <3>2, <3>3 DEF Given
  <2> QED BY <2>1, <2>2
<1>10. ASSUME NEW u \in Harts, pc'[u] = "jump" PROVE hsm'[u] # "STOPPED"
  <2>1. pc[u] = "jump"
    BY <1>1, <1>7, <1>10
  <2> QED BY <1>t, <1>1, <2>1 DEF StartedOnce
<1>11. hsm' \in [Harts -> {"STOPPED", "STARTING", "STARTED", "STOPPING"}]
       /\ told' \in [Harts -> Entries] /\ entered' \in [Harts -> Entries]
  BY <1>t, <1>1 DEF StartedOnce
<1> QED BY <1>5, <1>8, <1>9, <1>10, <1>11 DEF StartedOnce

LEMMA StartingStarted ==
    ASSUME HInv, NEW h \in Harts, Starting(h)
    PROVE  StartedOnce'
<1>t. StartedOnce /\ pc \in [Harts -> Places]
  BY DEF HInv, Fences, Typed
<1>p. ASSUME NEW to, Goto(h, to), pc[h] # "check", to \notin {"check", "jump"},
             UNCHANGED <<calling, hart>>
      PROVE  StartedOnce'
  <2>1. pc'[h] = to /\ \A g \in Harts \ {h} : pc'[g] = pc[g]
    BY <1>t, <1>p DEF Goto
  <2>2. /\ start' = start /\ told' = told /\ hsm' = hsm /\ next_addr' = next_addr
        /\ entered' = entered
    BY <1>p DEF calling, hart
  <2>3. start' \in [Harts -> Starts] /\ entered' \in [Harts -> Entries]
    BY <1>t, <2>2 DEF StartedOnce
  <2> QED BY <1>t, <1>p, <2>1, <2>2, <2>3, StartedMoves
<1>h. ASSUME hsm' \in [Harts -> {"STOPPED", "STARTING", "STARTED", "STOPPING"}],
             \A u \in Harts : hsm'[u] = "STOPPED" <=> hsm[u] = "STOPPED",
             \A g \in Harts : pc'[g] = "check" <=> pc[g] = "check",
             \A g \in Harts : pc'[g] = "jump" => hsm[g] # "STOPPED",
             start' = start, told' = told, next_addr' = next_addr, entered' = entered
      PROVE  StartedOnce'
  <2>1. \A u \in Harts : Given(u)' <=> Given(u)
    BY <1>h DEF Given
  <2> QED BY <1>t, <1>h, <2>1 DEF StartedOnce
<1> USE DEF Step
<1>1. CASE sbi_init(h)
  BY <1>p, <1>1 DEF sbi_init
<1>2. CASE init_coldboot(h)
  BY <1>2, ColdStarted
<1>3. CASE wake_coldboot_harts(h)
  BY <1>p, <1>3 DEF wake_coldboot_harts
<1>4. CASE wait_for_coldboot(h)
  BY <1>p, <1>4 DEF wait_for_coldboot
<1>5. CASE wfi(h)
  BY <1>p, <1>5 DEF wfi
<1>6. CASE ClearIpi(h)
  BY <1>p, <1>6 DEF ClearIpi
<1>7. CASE sbi_hsm_hart_wait(h)
  BY <1>p, <1>7 DEF sbi_hsm_hart_wait
<1>8. CASE sbi_ipi_init(h)
  BY <1>p, <1>8 DEF sbi_ipi_init
<1>9. CASE sbi_tlb_fifo_init(h)
  BY <1>p, <1>9 DEF sbi_tlb_fifo_init
<1>10. CASE sbi_hart_mark_available(h)
  <2>1. /\ pc[h] = "mark" /\ pc'[h] = "ready" /\ \A g \in Harts \ {h} : pc'[g] = pc[g]
        /\ start' = start /\ told' = told /\ hsm' = hsm /\ next_addr' = next_addr
        /\ entered' = entered
    BY <1>t, <1>10 DEF sbi_hart_mark_available, Goto, calling
  <2>2. start' \in [Harts -> Starts] /\ entered' \in [Harts -> Entries]
    BY <1>t, <2>1 DEF StartedOnce
  <2> QED BY <1>t, <2>1, <2>2, StartedMoves
<1>11. CASE sbi_hsm_prepare_next_jump(h)
  <2>1. /\ pc[h] = "ready" /\ Goto(h, IF hsm[h] = "STARTING" THEN "jump" ELSE "panic")
        /\ hsm' = [hsm EXCEPT ![h] = IF @ = "STARTING" THEN "STARTED" ELSE @]
        /\ start' = start /\ told' = told /\ next_addr' = next_addr /\ entered' = entered
    BY <1>11 DEF sbi_hsm_prepare_next_jump, calling
  <2>2. hsm \in [Harts -> {"STOPPED", "STARTING", "STARTED", "STOPPING"}]
    BY <1>t DEF StartedOnce
  <2>3. CASE hsm[h] = "STARTING"
    <3>1. /\ hsm' = [hsm EXCEPT ![h] = "STARTED"] /\ pc' = [pc EXCEPT ![h] = "jump"]
      BY <2>1, <2>3 DEF Goto
    <3>2. hsm' \in [Harts -> {"STOPPED", "STARTING", "STARTED", "STOPPING"}]
      BY <2>2, <3>1
    <3>3. \A u \in Harts : hsm'[u] = "STOPPED" <=> hsm[u] = "STOPPED"
      BY <2>2, <2>3, <3>1
    <3>4. /\ \A g \in Harts : pc'[g] = "check" <=> pc[g] = "check"
          /\ \A g \in Harts : pc'[g] = "jump" => g = h \/ pc[g] = "jump"
      BY <1>t, <2>1, <3>1
    <3>5. \A g \in Harts : pc'[g] = "jump" => hsm[g] # "STOPPED"
      BY <1>t, <2>3, <3>4 DEF StartedOnce
    <3> QED BY <1>h, <2>1, <3>2, <3>3, <3>4, <3>5
  <2>4. CASE hsm[h] # "STARTING"
    <3>1. /\ hsm' = hsm /\ pc' = [pc EXCEPT ![h] = "panic"]
      BY <2>1, <2>2, <2>4 DEF Goto
    <3>2. /\ \A g \in Harts : pc'[g] = "check" <=> pc[g] = "check"
          /\ \A g \in Harts : pc'[g] = "jump" => pc[g] = "jump"
      BY <1>t, <2>1, <3>1
    <3>3. \A g \in Harts : pc'[g] = "jump" => hsm[g] # "STOPPED"
      BY <1>t, <3>2 DEF StartedOnce
    <3> QED BY <1>h, <2>1, <2>2, <3>1, <3>2, <3>3
  <2> QED BY <2>3, <2>4
<1>12. CASE sbi_hart_switch_mode(h)
  <2>1. /\ pc[h] = "jump" /\ pc'[h] = "run" /\ \A g \in Harts \ {h} : pc'[g] = pc[g]
        /\ start' = start /\ told' = told /\ hsm' = hsm /\ next_addr' = next_addr
        /\ entered' = [entered EXCEPT ![h] = next_addr[h]]
    BY <1>t, <1>12 DEF sbi_hart_switch_mode, Goto, calling
  <2>2. start' \in [Harts -> Starts] /\ entered' \in [Harts -> Entries]
    BY <1>t, <2>1 DEF StartedOnce
  <2> QED BY <1>t, <2>1, <2>2, StartedMoves
<1>13. CASE StartCheck(h)
  BY <1>13, CheckedStarted
<1>14. CASE StartKick(h)
  <2>1. /\ pc[h] = "startkick" /\ pc'[h] = "run" /\ \A g \in Harts \ {h} : pc'[g] = pc[g]
        /\ start' = [start EXCEPT ![h] = NoStart]
        /\ told' = told /\ hsm' = hsm /\ next_addr' = next_addr /\ entered' = entered
    BY <1>t, <1>14 DEF StartKick, Goto, hart
  <2>2. NoStart \in Starts
    BY SMT DEF NoStart, Starts
  <2>3. /\ start' \in [Harts -> Starts] /\ entered' \in [Harts -> Entries]
        /\ \A g \in Harts \ {h} : start'[g] = start[g]
    BY <1>t, <2>1, <2>2 DEF StartedOnce
  <2> QED BY <1>t, <2>1, <2>3, StartedMoves
<1>15. CASE \E t \in Harts, addr \in Addresses : sbi_hsm_hart_start(h, t, addr)
  BY <1>15, AskedStarted
<1>16. CASE sbi_hsm_hart_stop(h)
  <2>1. /\ pc' = pc /\ hsm[h] = "STARTED" /\ hsm' = [hsm EXCEPT ![h] = "STOPPING"]
        /\ start' = start /\ told' = told /\ next_addr' = next_addr /\ entered' = entered
    BY <1>16 DEF sbi_hsm_hart_stop, calling
  <2>2. /\ hsm' \in [Harts -> {"STOPPED", "STARTING", "STARTED", "STOPPING"}]
        /\ \A u \in Harts : hsm'[u] = "STOPPED" <=> hsm[u] = "STOPPED"
    BY <1>t, <2>1 DEF StartedOnce
  <2>3. \A g \in Harts : pc'[g] = "jump" => hsm[g] # "STOPPED"
    BY <1>t, <2>1 DEF StartedOnce
  <2> QED BY <1>h, <2>1, <2>2, <2>3
<1>17. CASE sbi_ipi_clear_smode(h) /\ UNCHANGED <<boot, calling, hart>>
  BY <1>p, <1>t, <1>17, Stays DEF sbi_ipi_clear_smode
<1> QED BY <1>1, <1>2, <1>3, <1>4, <1>5, <1>6, <1>7, <1>8, <1>9, <1>10, <1>11, <1>12, <1>13,
           <1>14, <1>15, <1>16, <1>17 DEF Starting, Boot

-----------------------------------------------------------------------------
LEMMA HartInitHolds == HartInit => HInv
<1> SUFFICES ASSUME HartInit PROVE HInv
  OBVIOUS
<1>1. "reset" \in Places
  BY DEF Places, Early
<1>2. Fences
  BY <1>1, QuiescentHolds DEF HartInit, Fences
<1>3. Marked
  BY DEF HartInit, Quiescent, Marked, Early
<1>4. ColdFirst
  BY DEF HartInit, ColdFirst, Cold
<1>5. StartedOnce
  <2>1. NoStart \in Starts
    BY SMT DEF NoStart, Starts
  <2>2. /\ hsm \in [Harts -> {"STOPPED", "STARTING", "STARTED", "STOPPING"}]
        /\ start \in [Harts -> Starts] /\ told \in [Harts -> Entries]
        /\ next_addr \in [Harts -> Entries] /\ entered \in [Harts -> Entries]
    BY <2>1 DEF HartInit, Entries
  <2>3. \A h \in Harts : pc[h] = "reset" /\ hsm[h] = "STOPPED"
    BY DEF HartInit
  <2> QED BY <2>2, <2>3 DEF StartedOnce
<1> QED BY <1>2, <1>3, <1>4, <1>5 DEF HInv

LEMMA HartUnchanged ==
    ASSUME HInv, UNCHANGED hartvars
    PROVE  HInv'
<1>0. /\ UNCHANGED vars /\ available' = available /\ lottery' = lottery
      /\ coldboot_done' = coldboot_done /\ start' = start /\ told' = told
      /\ hsm' = hsm /\ next_addr' = next_addr /\ entered' = entered
  BY DEF hartvars, boot, calling, hart
<1>1. Typed(Places)' /\ Placed'
  BY <1>0 DEF HInv, Fences, Typed, Placed, Sends, Waits, Serves, vars
<1>2. Flow'
  <2>1. Keeps
    BY <1>0 DEF vars, Keeps, Waits, Serves
  <2>2. Labels \subseteq Places /\ Typed(Places) /\ Placed /\ Flow
    BY DEF Places, HInv, Fences
  <2> QED BY <1>0, <2>1, <2>2, FlowKept DEF vars
<1>3. Covered' /\ (Aligned => EventsNotLost')
  BY <1>0 DEF HInv, Fences, vars, Covered, Excepted, EventsNotLost, Target
<1>4. Marked'
  BY <1>0 DEF HInv, Marked, vars
<1>5. ColdFirst'
  BY <1>0 DEF HInv, ColdFirst, Cold, vars
<1>6. StartedOnce'
  BY <1>0 DEF HInv, StartedOnce, Given, vars
<1> QED BY <1>1, <1>2, <1>3, <1>4, <1>5, <1>6 DEF HInv, Fences

LEMMA HartInductive == HInv /\ [HartNext]_hartvars => HInv'
<1> SUFFICES ASSUME HInv, [HartNext]_hartvars PROVE HInv'
  OBVIOUS
<1>1. CASE UNCHANGED hartvars
  BY <1>1, HartUnchanged
<1>2. CASE HartNext
  <2>1. PICK h \in Harts :
            \/ Starting(h) \/ Calls(h)
            \/ (Clear(h) \/ Firmware(h)) /\ UNCHANGED <<boot, calling, hart>>
    BY <1>2 DEF HartNext, Starting, Interrupts
  <2>2. CASE Starting(h)
    BY <2>2, StartingFences, StartingMarked, StartingCold, StartingStarted DEF HInv
  <2>3. CASE Calls(h)
    BY <2>3, CallsInv
  <2>4. CASE (Clear(h) \/ Firmware(h)) /\ UNCHANGED <<boot, calling, hart>>
    BY <2>4, FirmwareInv
  <2> QED BY <2>1, <2>2, <2>3, <2>4
<1> QED BY <1>1, <1>2

LEMMA HartInvariant == HartSpec => []HInv
BY HartInitHolds, HartInductive, PTL DEF HartSpec

-----------------------------------------------------------------------------
(* A hart enters its supervisor at the address of the one call that has    *)
(* started it, but for the two cases that sbi_hsm_hart_start leaves open   *)
(* by making STARTING visible first.                                       *)
THEOREM StartsWhereTold == HartSpec => EntersWhereTold
<1>1. ASSUME HInv, [HartNext]_hartvars
      PROVE  [\A t \in Harts : entered'[t] # entered[t] =>
                 \/ entered'[t] = told[t] \/ told[t] \in Refused
                 \/ \E h \in Harts : pc[h] = "check" /\ start[h][1] = t]_hartvars
  <2> SUFFICES ASSUME HartNext, NEW t \in Harts, entered'[t] # entered[t]
               PROVE  \/ entered'[t] = told[t] \/ told[t] \in Refused
                      \/ \E h \in Harts : pc[h] = "check" /\ start[h][1] = t
    BY <1>1
  <2>1. PICK h \in Harts : entered' = entered \/ sbi_hart_switch_mode(h)
    <3> USE DEF hart
    <3>1. PICK h \in Harts :
              \/ Starting(h) \/ Calls(h) \/ UNCHANGED <<boot, calling, hart>>
      BY DEF HartNext, Starting, Interrupts
    <3>2. CASE Calls(h) \/ UNCHANGED <<boot, calling, hart>>
      BY <3>2 DEF Calls
    <3>3. CASE Starting(h)
      <4>1. CASE Boot(h)
        BY <4>1 DEF Boot, sbi_init, init_coldboot, wake_coldboot_harts, wait_for_coldboot,
                    ClearIpi, sbi_hsm_hart_wait, sbi_ipi_init, sbi_tlb_fifo_init,
                    sbi_hart_mark_available, sbi_hsm_prepare_next_jump, StartCheck, StartKick
      <4>2. CASE ~ Boot(h)
        BY <3>3, <4>2 DEF Starting, wfi, sbi_hsm_hart_stop, sbi_hsm_hart_start
      <4> QED BY <4>1, <4>2
    <3> QED BY <3>1, <3>2, <3>3
  <2>2. pc[h] = "jump" /\ entered' = [entered EXCEPT ![h] = next_addr[h]]
    BY <2>1 DEF sbi_hart_switch_mode, Step
  <2>3. entered \in [Harts -> Entries]
    BY <1>1 DEF HInv, StartedOnce
  <2>4. t = h /\ entered'[t] = next_addr[t]
    BY <2>2, <2>3
  <2>5. Given(t)
    BY <1>1, <2>2, <2>4 DEF HInv, StartedOnce
  <2> QED BY <2>4, <2>5 DEF Given
<1> QED BY <1>1, HartInvariant, PTL DEF HartSpec, EntersWhereTold

(* No event is left behind while harts boot and are started: a hart that   *)
(* boots drops the interrupts of its start, and no event with them. This   *)
(* is so where hart ids are cpu numbers (Aligned); elsewhere line 109 of   *)
(* sbi_hsm.c drops the interrupt of another hart.                          *)
THEOREM StartLosesNoEvent ==
    ASSUME Aligned
    PROVE  HartSpec => []EventsNotLost
<1>1. HInv => EventsNotLost
  BY DEF HInv, Fences
<1> QED BY <1>1, HartInvariant, PTL

(* sbi_tlb_fifo_init on a hart that starts late disturbs no flush that     *)
(* another waits for: there is still one at a time.                        *)
THEOREM StartKeepsOneFlush == HartSpec => []OneFlushAwaited
<1>1. HInv => OneFlushAwaited
  BY OneAtATime DEF HInv, Fences, Flow
<1> QED BY <1>1, HartInvariant, PTL

(* And a fence returns when every hart it names has flushed, with the      *)
(* harts that are available when it is called.                             *)
THEOREM StartKeepsFences == HartSpec => FencedOnReturn
<1>1. ASSUME HInv
      PROVE  [\A h \in Harts : Return(h) /\ event[h] = RFENCE
                 => set[h] \ fenced[h] \subseteq (IF Bases = {0} THEN {} ELSE {h})]_vars
  BY <1>1 DEF HInv, Fences, Covered, Excepted, Return
<1> QED BY <1>1, HartInvariant, PTL DEF FencedOnReturn
=============================================================================
