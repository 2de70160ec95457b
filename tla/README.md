# A TLA+ model of sdfirm

sdfirm is firmware for small devices and for RISC-V systems-on-chip: a cooperative
kernel (`kernel/`), architecture code (`arch/`), an SBI implementation
(`arch/riscv/sbi`), protocol stacks (`kernel/usb`, `kernel/scs`, `kernel/ipmi`, ...)
and drivers. This directory holds TLA+ modules translated from that source, TLC
configurations that check them on small instances, and proofs, checked by TLAPS,
that hold for every value of the constants.

Each definition keeps the name of the function it models where that is possible.
`PROJECT.json` gives the lines of the source for each of them (`map`), the hazards
the properties are aimed at, and for each property a plausible change to the code
under which it fails (`mutants`).

## 1. The system and its parts

**Scheduling.** There are no threads. A CPU runs `bh_loop`, which scans a bitmap of
bottom halves and calls the handlers of those whose bit is set. Interrupt handlers,
other bottom halves and other CPUs set bits with `bh_resume`. A handler that has to
wait calls `bh_sync`, which scans the same bitmap from inside the handler. Timers are
a bottom half of their own, woken by the interrupt of a general purpose timer (GPT).
Documentation/kernel/idle.txt calls the interrupt side of a driver its B-STM and the
bottom half its F-STM; almost everything above is written as such state machines.

**Sharing.** CPUs share data under `spin_lock`. RISC-V has three implementations: a
raw test-and-set lock, a ticket lock, and the queued lock of `kernel/spinlock.c`.
Semaphores are built on spin locks and are used by the ACPI code for its mutexes.

**SBI.** On RISC-V the firmware serves a supervisor on each hart. Harts interrupt one
another (`sbi_ipi.c`) and fence each other's TLBs through a FIFO per hart
(`sbi_tlb.c`, `sbi_fifo.c`); a fence waits until its target has flushed. Before that
the harts boot: one of them cold, the others once it has told them to and a supervisor
has started them (`sbi_init.c`, `sbi_hsm.c`).

**Smart cards.** A reader exchanges commands and responses with a card over a serial
line. In the T=1 protocol (`kernel/scs/ifd_t1.c`) they travel in numbered blocks, which
are repeated when they are lost or garbled.

| part | source | module |
|---|---|---|
| spin lock interface | `include/target/spinlock.h` | `SpinLock` (abstract) |
| ticket lock | `arch/riscv/include/asm/spinlock.h` | `TicketLock`, `TicketLockProofs` |
| raw lock | same file | `RawLock`; proofs in `SemaphoreProofs` |
| queued lock | `kernel/spinlock.c`, `include/asm-generic/spinlock.h` | `QSpinLock`, `QSpinLockProofs` |
| semaphore, ACPI mutex | `kernel/semaphore.c`, `kernel/acpi/acpi_osl.c` | `Semaphore` over `RawLock`, `SemaphoreProofs` |
| bottom halves, pollers | `kernel/bh.c`, `kernel/irq.c`, `lib/bitops.c` | `BottomHalf`, `BottomHalfProofs` |
| timers, GPT | `kernel/timer.c`, `arch/riscv/mach-virt/gpt.c` | `Timer` over `TimerQueue`, `TimerProofs`, `TimerQueueProofs` |
| IPIs and remote fences | `arch/riscv/sbi/sbi_{ipi,tlb,fifo}.c` | `RemoteFence`; proofs in `HartStartProofs` |
| boot and hart state machine | `arch/riscv/sbi/sbi_{init,hsm}.c` | `HartStart`, which extends `RemoteFence`, `HartStartProofs` |
| T=1 protocol of the card reader | `kernel/scs/ifd_t1.c`, `kernel/scs/ifd.c` | `T1`, `T1Proofs` |

The components that are not modelled, with the reason for each, are in
`PROJECT.json` and in section 8. For a part that is a whole directory the list of
sources names its main files only.

## 2. How the modules correspond to the code

Common to all of them:

* A step is one access to memory that somebody else can see. What a function does
  between two such accesses is local and belongs to one of them.
* A spin loop is the iteration that succeeds; the others change nothing. Where the
  body of the loop does something (`sbi_tlb_fifo_sync` serves its FIFO) each iteration
  is modelled.
* Memory is sequentially consistent. The barriers of the code are taken to do what
  they are there for; which of them could be left out is not a question asked here.
* `pc` names the place in the function. History variables (`undone`, `owed`, `due`,
  `fenced`, `told`, `entered`) influence no other variable.

**SpinLock** is what the interface promises: a CPU is `out`, wants the lock, or is
`in`, and it goes in only when nobody else is. The three locks are shown to implement
it under a mapping of their program counters.

**TicketLock.** `TakeTicket` is `atomic32_add_return`, `LockAcquire` the read of
`owner` that matches, `TryRead` and `TryUndo` the two halves of `spin_trylock`, which
on failure decrements `next` whatever has happened to it meanwhile. The counters
wrap at `W`, 2^32 in the code.

**RawLock.** `Look` is the plain read `smp_hw_spin_lock` spins on, `Swap` the atomic
swap, which may find that somebody was faster.

**QSpinLock.** One action per access of `qspin_lock_slowpath`. A *context* is a CPU at
a nesting level: an interrupt may take another lock while the code it interrupted is
anywhere in the slow path, and takes its queue node from the same per-CPU array.
When the array is used up the code falls back to `qspin_trylock`. Who uses locks is
chosen once (`users`): all CPUs without interrupts, or the CPUs of `Nested` at all
levels. `Wide` says that `atomic_count_t` is 64 bits wide: the fields of `struct
spinlock` are then in other places than the masks.

**Semaphore** is composed with `RawLock` by `INSTANCE`; every `spin_lock` in it is the
two or more steps of that lock. `wait_sem` is a delay that always reports a timeout.

**BottomHalf** is one CPU. `build` is chosen once: with `CONFIG_SMP` (`set_bit` and
`clear_bit` are atomic) or without (they are a load and a store), with `SYS_REALTIME`
(`lock_bh` and `unlock_bh` are empty) or without. Interrupts arrive between any two
steps taken while they are enabled. The locals of the scans that `bh_sync` is nested
in are on `stack`.

**Timer** uses the array `timer_orders` as the code does, swap by swap
(`TimerQueue`): a loop of `__timer_del` or `__timer_add` is a recursive function whose
value at *i* is the array when the loop has reached *i*. Timeouts are signed integers
from -`MAX_TIMEOUT` - 1 to `MAX_TIMEOUT` whose lowest bit says "shot". A handler may
schedule or unregister timers at any point, so it is a sequence of steps; time passes
between any two steps. The tick counter itself is replaced by the time since
`timer_last_tick`, the only thing the code derives from it.

**RemoteFence.** A hart is outside the firmware ("run") or at a label of
`sbi_ipi_send_many`, `sbi_ipi_process` or the functions they call; in the firmware it
takes no interrupt. A FIFO is the ring of `sbi_fifo.c` with `NumEntries` slots (8 in
the code); its operations are single steps, for they hold `qlock`. An entry is
represented by the hart that made it, since each hart has one request at a time. In
this module all enabled harts are running.

**HartStart** adds the way they get there. Every hart comes out of reset into
`sbi_init`; the labels of the boot are further values of `pc`, and the actions of
`RemoteFence` apply once a hart is in its supervisor. A hart in `wait_for_coldboot` or
`sbi_hsm_hart_wait` has interrupts off: a pending software interrupt ends its `wfi`,
and `wfi` may end without one. `sbi_hsm_hart_start` is three steps (the state; the
address, checked and stored; the interrupt), between any of which the other hart may
come. Hotplug and secondary boot (`has_hart_secondary_boot`, line 209), by which a
platform starts harts with methods of its own, are left out: no platform in the tree has
either. Harts are named by their cpu numbers; `HartShift` is what the hart id is above it
(0 on most machines, 1 on the U54 of unleashed and on spike with
`CONFIG_SPIKE_BOOT_CPU`; the sparse numberings of k1x, k1max and stev20 are not covered).
It matters at one place, the end of `sbi_hsm_hart_wait`, which gives `sbi_platform_ipi_clear` a hart id
where everybody else gives a cpu number (`Cleared`). The calls that send interrupts are
bounded by `MaxCalls`, and name harts that are in `avail_hart_mask` (`Calls`): this is an
assumption on the supervisor, which `sbi_ipi_send_many` does not check.

**T1.** Reader and card alternate: a block goes out, and a block or nothing comes back.
Command, response and the block of the moment share one buffer. The model has that
buffer, as a sequence of bytes in which byte *i* of the command is the number *i*,
byte *i* of the response is -*i* and everything else is `Junk`; so it can be seen
whether `ifd_t1_save_buffer` and `ifd_t1_restore_buffer` put back what they should, and
at which offsets. What a block is made of besides its information field is its PCB, by
fields. The card is not in the repository; it follows ISO/IEC 7816-3 and may ask for
more time or for another block size. `Garbled` and `Damaged` are the faults of the line,
one in each direction. The two build options that matter here are the width of `int`
(`IntBits`) and the kind of checksum (`Epilogue`).

## 3. The runs

| run | instance | checks |
|---|---|---|
| `ticket_lock` | 4 CPUs, 5 tickets | types, exclusion, the queue is contiguous, fairness unless a trylock fails, refinement of `SpinLock` |
| `qspinlock` | 32-bit word; 3 CPUs, or 2 with an interrupt each and 1 node per CPU | the locked byte means owned, no two contexts share a node, nodes are given back, everyone gets in, refinement of `SpinLock` |
| `qspinlock_wide` | 3 CPUs, 64-bit word | exclusion: **violated** |
| `bottom_half` | 3 bottom halves, `bh_sync` nested twice, all four builds | no wake-up lost in SMP builds, masking, every wake-up is served, the console too outside `bh_sync` |
| `bottom_half_up` | the build without SMP | no wake-up lost: **violated** |
| `semaphore` | 4 CPUs | a release never fails, of those let in at most one was told 0, exclusion and progress of the lock below |
| `timer` | 2 timers of both types | the order and contents of the queue, the GPT is armed, the assertions of `timer_run_timeout` and `__timer_add`, every timer that is scheduled runs unless the interrupt is caught in `timer_run_timeout` |
| `timer_hang` | 2 timers of both types | every timer that is scheduled runs: **violated** |
| `remote_fence` | 3 harts, FIFOs of one entry | a fence returns, and only after everyone has flushed; one flush is awaited at a time |
| `hart_start` | 3 harts, one disabled, all events, two start addresses, one of them refused | every hart leaves the boot wait, a start completes and enters where it was told, no event is lost, software interrupts are delivered |
| `t1` | the shipped sizes (buffer of 261 bytes, block size 254), commands of 5 and 261 bytes, responses of 2 and 258, two faults | the card gets the command, the host the response, no `BUG_ON` fires, every exchange ends |
| `t1_overrun` | the same with one fault | a block that comes in lies in the buffer: **violated** |

**Bounds, and why they are enough.** Each is the smallest at which the cases the code
distinguishes all occur. Ticket lock: 5 tickets for 4 CPUs, one more than the CPUs as
the assumption requires, so that the counters wrap in every few steps. Queued lock:
the word can tell an owner, a pending CPU and a queue apart, which takes three CPUs;
node exhaustion takes one node and one interrupt. `AlwaysFair` is checked for one CPU,
since they are alike. Bottom halves: three, so that a scan
finds bits before, at and behind its position, one of them being the console; two
levels of `bh_sync`, the second of which returns into the first. Timers: two, each of
either type, give a head and a timer behind it; `GPT_MAX_TIMEOUT` is below the longest
timeout so that the GPT has to be shot again, and timeouts stay below half of
`MAX_TIMEOUT`, where they do not wrap. The safety properties are proved for any number.
Fences: FIFOs of one entry for two possible sources, so that
`sbi_fifo_enqueue` fails, which in the code takes ten harts. Boot: one hart to boot
cold, one to wait and be started, one that is disabled; two interrupts, so that one
may find its target at any place of its boot and another in the middle of the first.
T=1: the sizes are those of the shipped configurations. The shortest command fits into a
block and the longest, with 261 bytes, is chained, for a card that takes 32 bytes at a time
or 254; the shortest response is its status and the longest that of a short APDU, which
reaches to the end of the buffer. One retry per level and two faults are enough to
reach the second level and to fail; one request of the card.

**Fairness.** It is assumed only for what a CPU does by itself: a CPU in the middle of
a function goes on, a handler and a critical section end. Whether anybody calls a
function is left open. Strong fairness is assumed where a step may be disabled again
before it is taken although the hardware latches it: a pending GPT interrupt, a
resumed timer bottom half (`BottomHalf` shows that it is served), and a hart's pending
software interrupt between two calls of its supervisor. In `hart_start` and `t1` weak
fairness is written out (`HartFairness`, `Fairness`) with a predicate that says when a
hart, the reader or the card can go on; it is the same condition, and cheaper to check.
The card's side of it is the waiting timer of the UART: silence is an answer too.

**Deadlock** is checked except in `ticket_lock`, where failed trylocks may leave a
ticket nobody holds, and in `hart_start`, where a shutdown halts the harts.

## 4. What the violated runs show

* `qspinlock_wide`: `struct spinlock` divides `atomic_count_t` into a quarter, a
  quarter and a half. On RISC-V with SMP that type has 64 bits, so that `locked` is 16
  bits wide and covers the bit the masks call pending. Unlocking clears the pending
  bit of the next CPU, and two CPUs enter.
* `bottom_half_up`: `bh_suspend` runs with interrupts enabled; without SMP its
  `clear_bit` is a load and a store, and a `bh_resume` in an interrupt between the two
  is undone.
* `timer_hang`: `timer_run_timeout(TIMER_IRQ)` neither runs nor passes a due `TIMER_BH`
  timer at the head of the queue, and its loop does not end.
* `t1_overrun`: `ifd_t1_safe_size` (`ifd_t1.c:657`), and `safe` in `ifd_t1_save_buffer`
  and `ifd_t1_restore_buffer`, hold the size of a whole block in 8 bits. From a block size
  of 252 on (251 with a CRC) it wraps to nearly 0. `CONFIG_IFD_T1_MAX_IFSD` is 254 by
  default, and `kernel/scs/Kconfig:157` says of it "Only works for IFSD=254". Near the
  end of the buffer `ifd_t1_save_buffer` then takes the next block to fit where it does
  not, and its last byte, the checksum, is stored behind `ifd_xchg_buff`. One S(IFS) that
  the card does not understand, or does not answer, is enough. The bytes of the response
  itself stay in the buffer, and `ResponseIntact` holds at that size for every response
  that a short APDU may have (258 bytes); `BlocksStayInBuffer` (section 6) says that the
  wrap is the only cause.

## 5. Disagreements that are stated but have no run of their own

Some properties carry a condition because they are false without it:

* Ticket lock. "Always fair" (`arch/riscv/common/Kconfig`) holds only while no
  `spin_trylock` fails (`FairUnlessUndone`): the decrement may take back a ticket that
  another CPU has queued behind. Exclusion holds all the same. Nothing in the tree
  calls `spin_trylock`.
* Queued lock. "Alway fair" (same file) does not cover a context whose CPU has no node
  left: it spins on `qspin_trylock` outside the queue (`AlwaysFair` stops there).
* `SYS_REALTIME`. `kernel/bh.c:41` says that interrupts are not masked. They are after
  a `bh_sync`, which ends with interrupts disabled whatever they were before, and stay so
  in `bh_loop`, whose `unlock_bh` is empty in this build. `MaskedExactlyInHandlers` is
  about the other builds.
* Semaphore. After a timeout `sem_wait` compares its result with `ETIME` where
  `wait_sem` returns `-ETIME`, takes a unit that is not there and returns the error.
  `acpi_event_lock` discards it, and two CPUs are in the section together; what does
  hold is `SuccessExcludes` and `ReleaseNeverFails`.
* Timers. A timer may run before its time: `timer_schedule_shot` of another timer
  subtracts the elapsed time in whole milliseconds and the interrupt subtracts
  `timer_timeout` whatever has elapsed. Timeouts of more than half of `MAX_TIMEOUT`
  wrap in `TIMER_MAKE` to negative times.
* Fences. `sbi_ipi_send_many` looks for the caller's own bit in `hmask` without taking
  `hbase` into account. With `hbase` other than 0 "If the current hart is on the set,
  send an IPI to it as well" does not hold, and `FencedOnReturn` leaves the caller out.
* Fences. Each call returns once no more calls are made (`Quiet`). Without that, a
  hart may find a FIFO full each time it looks, and a hart that fences without pause
  keeps its target inside `sbi_tlb_fifo_process`.
* Boot. `sbi_hsm_hart_start` makes STARTING visible before it has checked and stored the
  address. A hart that wakes up in between enters at the old address, and one whose
  address is then refused stays STARTING for good; `EntersWhereTold` and
  `StartCompletes` except these two.
* Boot. `sbi_hsm_hart_stop` leaves the hart running in state STOPPING: the call of
  `sbi_exit` is commented out, and `sbi_hsm_exit` has no caller. It can then neither be
  started nor stopped.
* Boot. `sbi_hsm.c:108` says "Clear current HART IPI"; the line below gives a hart id to
  `sbi_platform_ipi_clear`, which takes a cpu number. Where the two differ a hart that is
  started clears the interrupt of the next one. With `HartShift` = 1 and three enabled
  harts TLC refutes `EventsNotLost`, `StartCompletes` and `HartsWoken`. The run has
  `HartShift` = 0, as have the two configurations with `CONFIG_SBI_ECALL_HSM`
  (`virt64_bbl` and `spike64_bbl`); the other theorems of section 6 hold for any shift.
* Boot. If the first hart to draw from `coldboot_lottery` is one that
  `sbi_platform_cold_boot_allowed` refuses (mach-k1x has such harts), nobody boots cold;
  the run has every hart allowed.
* Boot. `sbi_system.c:39` says that a shutdown halts "every hart"; it halts those in
  `sbi_hart_available_mask`. An event for a hart that is not available is erased by its
  `sbi_ipi_init`; the calls in the run name available harts.
* T=1. At the second retry level the reader means to send S(RESYNC) and sends a
  response S-block of the last kind the card asked for (`ifd_t1.c:922`, `:702`), so
  that a resynchronisation never takes place; the exchange fails instead, which
  `EveryExchangeEnds` allows.
* T=1. `tx - ifsd_rx` (`ifd_t1.c:684`) is negative at the start of a chained command.
  Where `int` has 16 bits it becomes large instead, more than eight bytes have to be
  saved, and the `BUG_ON` at line 270 fires. The run has 32 bits.
* T=1. The comment at `ifd_t1.c:765` says that an I-block should be sent again on an
  error indication; the condition at line 759 refuses the R-block that asks for it, and
  the repetition costs a retry. The new block size is in force before the card has
  heard of it (line 694), so that after a lost S(IFS) longer blocks are refused until
  the retries are used up or the size is asked for again.

Met while reading, without effect on the models: `timer.c:141` reads
`timer_descs[INVALID_TID]` before it tests the index, and the parentheses of the
`BUG_ON` at `timer.c:302` make it test a time of 0 or 1; `CONFIG_IDEL` in `bh.c` and
`CONFIG_RSICV_H` in `sbi_ecall_rfence.c` are no configuration symbols, so that
`bh_loop` never sleeps and the hypervisor fences are not compiled;
`sbi_tlb_fifo_update_cb` returns for every entry, so that fences are never merged;
`bh_sync` skips the console only as the start of a search, and may call its handler
all the same; `page_alloc_pages` gives up its lock between taking a block out of the
list and putting the rest back, so that another CPU may find no memory meanwhile.

## 6. What is proved

Nothing is assumed beyond the named assumptions on constants, which TLC evaluates in
the runs.

**TicketLockProofs**, for every finite set of CPUs smaller than `W`: `TypeCorrect`,
`QueueContiguous`, `Exclusion` and `Refinement` (`TicketLock` implements `SpinLock`).
Exclusion is not inductive: after a failed trylock tickets may be handed out twice. The
invariant describes a queued CPU by the distance of its ticket from `owner`. It says
that `next` is as far from `owner` as there are queued CPUs, and that two CPUs at the
same distance have a *hole* before them, a distance nobody has. The CPU inside has
distance 0, before which there can be no hole, so it is alone. The step that needs an
argument is taking a ticket: if no distance below the new one is free, the queued CPUs
fill them all, and by the pigeonhole principle (`Pigeons`) nobody already has the new
one. For the refinement, whoever reads its own number in `owner` is the only one at
distance 0 (`OneServed`), so nobody is inside.

**QSpinLockProofs**, for any CPUs, levels of nesting and number of nodes, on a 32-bit
word (each theorem assumes `~ Wide`): `TypeCorrect`, `Exclusion` (one owner, and the
locked byte set exactly while there is one), `NodesStayPrivate`, `NodesComeBack` and
`Refinement`. The invariant has three parts.

* *Nodes are a stack.* The contexts of a CPU that hold a node have the indices from 0
  up in the order of their levels, and `count` is their number; a context runs only
  while no higher one is inside, which is why it always takes and gives back the top.
* *The queue.* Each node that is linked is so by one successor; a node about to be
  linked has no `next` yet; the tail is the last one; and of the contexts queued for a
  lock at most one is the head. This is what makes the `cmpxchg` that clears the tail
  right: it succeeds only if nobody has queued behind.
* *The word.* The locked byte and the pending bit each belong to at most one context, the
  one that set it. While the pending context or the head of the queue is about to
  take the lock, the locked byte stays clear, and in the case of the head no pending
  context is ready to set it.

Exclusion needs all three: the word alone does not tell that there is one head.

**SemaphoreProofs** has the raw lock first, as the semaphore instantiates it (`L`), for
every finite set of CPUs: `RawExclusion` (the word is 1 exactly while one CPU is inside)
and `RawRefinement` (`RawLock` implements `SpinLock`). The invariant is the first of them,
with the types. Then the semaphore: `Releases` (a release never finds the
mutex at its limit), `Exclusion` and `Locked`. Its invariant ties the place in the
semaphore to the place in the lock below it (`Places`), the result to the place
(`Returns`), says that a CPU about to take a unit with result 0 sees the value 1, and that
the value and the CPUs inside make the limit (`UnitsConserved`). The
steps of the lock are covered by the same lemmas.

**HartStartProofs** has `RemoteFence` first, for any harts, masks and FIFO sizes:
`TypeCorrect`, `OneFlush`, `Fenced` (a fence returns only after every hart it names has
flushed) and `EventsKept`. The invariant says where the one request of a hart is: in a slot of its target's FIFO,
with a hart that has flushed and is about to acknowledge, or already acknowledged in
`tlb_sync`, and in one of these only; while it is out its hart waits. It also says that
the slots between `tail` and `tail + avail` of a ring are the filled ones (`Windows`), and
that the harts that have not flushed for a request are those still to do (`Covered`).
That an acknowledgement is for the request being waited for, and not for an earlier one,
is what needs the first part. The lemmas are stated for any set of labels (`Typed(L)`), so
that they also serve the harts of `HartStart`, which are in places of their own.

Then the boot, for any harts, enabled or not, allowed to boot cold or not, any
addresses and any number of calls: `StartsWhereTold` (a hart enters its supervisor where
the last start told it to, with the two exceptions of section 5), `StartLosesNoEvent`,
`StartKeepsOneFlush` and `StartKeepsFences`, the last three being what `RemoteFence`
promises, now with harts that boot in the middle of it. `StartLosesNoEvent` assumes
`Aligned` (`HartShift` = 0), without which it is false; the others do not. The invariant has four parts.

* *Fences.* The invariant of `RemoteFence` above, except that a hart may also be at a place
  of its boot.
* *Marked.* A hart is available (and hence a target) only once it is past `sbi_ipi_init`
  and `sbi_tlb_fifo_init`. So when these two clear its events, its FIFO and its `tlb_sync`,
  nobody has put anything there. Without this part the first is not inductive: clearing
  the FIFO would take away a flush that somebody waits for.
* *ColdFirst.* Nobody boots before the lottery is drawn, at most one hart boots cold, and
  until `coldboot_done` all others are in reset or in `wait_for_coldboot`. So nobody is in
  the warm boot, or calls anything, while the cold hart sets the firmware up.
* *StartedOnce.* A hart that is not STOPPED has the address of the call that started it, or
  that call has yet to check and store it, or the address is one that is refused; and a
  hart about to jump is not STOPPED. This is why no second call can replace the address
  under the first.

**TimerQueueProofs**, for any number of timers: `DelRemoves` and `AddInserts`, what
`__timer_del` and `__timer_add` do to any array without gaps: the one removes its timer
and keeps the order of the others, the other inserts its timer behind those that are not
later. They are about loops, so that they need an induction, which is done by hand: for
each loop there is a closed form of the array at *i*, and the least *i* at which it would
be wrong is refuted (the natural numbers being well founded).

**TimerProofs**, for any number of timers, any `MAX_TIMEOUT` and any GPT: `TypeCorrect`,
`OrderKept`, `NoShotLost`, `AlwaysArmed` and `AssertionsHold`, the five invariants of the
run. Each assumes `ShortTouts`: the timeouts that are scheduled are at most
(`MAX_TIMEOUT` - 1) / 2. `TIMER_MAKE` shifts the time to make room for the flag, and what
is longer wraps; TLC then finds the queue out of order, so that the theorems are false
without it. Nothing in the code enforces it: the limit is twelve days where `timeout_t` has
32 bits, and 63 ms where it has 8.

That the queue is ordered is not inductive. Its times are reduced at three places: by the
time since the last tick, by `timer_timeout` when the GPT has fired, and by
`timer_timeout` again at the end of the bottom half, after which they may be negative.
The order survives only if no `TIMER_MAKE` wraps. So the invariant says how
`timer_timeout` compares with the queue (`TimeInv`). It is *settled* when it is not later
than any timer that is shot, and taking it off once or twice stays in range. It is
*pending* when an interrupt has taken it off and left timers to the bottom half, which
will take it off once more; the times are then positive, and the GPT does not run until
the bottom half has. The rest of the invariant says that a timer that is due has somebody
about to run it (`DueInv`): a `TIMER_IRQ` timer the loop in the interrupt, a `TIMER_BH`
timer the bottom half, which is awake or running. `NeverUnarmed` and the `BUG_ON` of line
146 follow from that; those of `__timer_add` follow from `DelRemoves`.

**BottomHalfProofs**, for any number of bottom halves, any nesting and every build:
`TypeCorrect`, `WakeupsKept` and `Masking`. The invariant adds to these that every frame on the stack is a handler inside its bounds, that the
two-step `set_bit` and `clear_bit` are not entered in SMP builds, and that an unanswered
wake-up has its bit set or is the one being started.

**T1Proofs**, for every length of command and response, every buffer and block size within
the bounds below, any number of faults and any number of requests of the card:
`CommandIsDelivered`, `ResponseIsIntact` and `NoBugFires`, the three safety invariants of
the run `t1`, and `BlocksStayInBuffer`, that of `t1_overrun`, from one inductive invariant (`TransportInvariant`). None of the three is
inductive: what the card has taken says nothing of what the reader believes it has taken,
and what lies in the buffer now says nothing of what will lie there once the saved bytes
have been put back. The invariant therefore has two parts.

* *What each end knows.* While an exchange is under way the card waits for the piece at
  `tx` (`Waiting`), or has it and the reader does not know (`Arrived`), or has the whole
  command (`Complete`); and the sequence numbers tell which. `Outgoing` and `Incoming` say
  what block may be on the line in each case. An I-block is built only when the card does
  not have the piece, an R-block is accepted as an acknowledgement only when it does, and
  an I-block of the card carries the piece of the response at `rx`, or is refused by its
  number. So nothing is taken twice or skipped, however often a block is repeated. That the
  reader takes answers of no more than one byte between the pieces of a command (`Ready`)
  is part of it: a longer answer would reach the piece that may have to be sent again.
* *Where the bytes are.* Before a block is built the rest of the command, or the response
  so far, is in its place (`InPlace`). While a block is out (`ParkedTx`, `ParkedRx`), its
  piece lies behind the room for the answer, what its frame covers is in `saved_buf`, the
  offsets of the two are those that `ifd_t1_restore_buffer` will compute again from the
  same `tx`, `rx` and sizes, and neither the answer nor noise in its place reaches them.

The lemmas follow the calls: what saving, building, storing and restoring do to the buffer
(`BuildTx`, `BuildRx`, `StoredIs`, `RestoreTx`, `RestoreRx`), then that every block
`ifd_t1_xchg_aval` builds is the one that is due (`AvalSentOut`), that every block taken
or refused leaves the reader ready for the next (`ErrorFreeContinues`, `ErrorReady`), and
one lemma for each action. No induction over the blocks is needed: the invariant speaks of
`tx`, `rx` and the card's position, whatever steps led there.

All five theorems assume `Roomy`; `ResponseIsIntact` assumes `Lawful` besides, and
`BlocksStayInBuffer` `Snug`.

* `Roomy`: `int` has 32 bits; the longest block fits into the buffer; a piece of the
  command, of any size the card may ask for, fits beside the shortest answer. With
  16 bits TLC refutes the properties (section 5). The buffer of the code has 261
  bytes, so that the rest holds for every configurable block size, and for every card with
  an LRC; with a CRC the card must not ask for 254 bytes, the largest size there is.
* `Snug`: the size of a whole block fits into the `uint8_t` of `ifd_t1_safe_size`. It is
  false for the default block size of 254, where `t1_overrun` refutes `BlockInBuffer`.
* `Lawful`: `Snug`, or every response leaves room for a prologue behind it in the buffer.
  The longest response of a short APDU has 258 bytes, the buffer 261, so that it holds
  whatever the block size. What a block of the response loses behind the end of the
  buffer is then never more than its checksum: `Filled` says of a block being stored that
  its information field arrives, whether or not what follows does. Without `Lawful` TLC
  finds a response of 260 bytes that is reported done and is not whole; no short APDU has
  one. In the invariant what is said of the bytes of the response is said under `Lawful`
  (`ResponseAt`).

Of the configurations in `arch/*/configs`, the one with T=1 and a 32-bit `int`
(`ccid_nfc_defconfig` of ARM) satisfies `Roomy` and `Lawful` and not `Snug`, like the
constants of the runs.

Only model-checked: every liveness property, which is out of the prover's reach, as is
`ENABLED`; among them that every T=1 exchange ends (`EveryExchangeEnds`). The library's induction theorems cannot be used (they
take an operator as a parameter); where a proof needs induction it goes by the least
counterexample, as in `TimerQueueProofs`. No module declares a `RECURSIVE` operator.

## 7. What is left out of the modelled parts

Weak memory; the text and formatting of console output; the kind and range of a
flush and the performance counters; `CONFIG_TICK` builds of the timer (the periodic
tick instead of the GPT); the platforms whose GPT differs from `mach-virt`; nested
interrupts in `BottomHalf` (the code does not enable interrupts in a handler);
`sbi_fifo_reset`, which nothing calls; timer interrupts in the middle of
`timer_schedule_shot` (`SYS_REALTIME`); hart hotplug and secondary boot; of the card reader everything but
the exchange: slots being inserted and powered, the ATR, T=0, the register level of the
UART, and `ifd_t1.c` without `CONFIG_IFD_XCHG_APDU`.

## 8. Not modelled

What remains is much the larger part of the tree, and is left out for one of these
reasons.

* *The behaviour is in a device that the source does not contain*: drivers, machine and
  board code, USB, I2C, SPI, UART, MMC, MTD, DDR, PCI, IOMMU. Their state machines answer
  to interrupts whose order only the device knows; a model would check an invented
  device.
* *Formats and formatting*: tables (ACPI, FDT, UEFI), page tables, instruction and CSR
  emulation in the SBI traps, the console's line editing, printing, parsing.
* *Sequential code over one caller's data*: the heap (a port of an existing allocator),
  the lists of memory regions and pages, checksums, strings, the bit searches (modelled
  by what they return).
* *Unfinished in the source*: KCS (`kcs_bmc.c` never clears its events and its handler is
  empty), the block mode of the bulk transfers, tasks (a demonstration, by its own
  comment), the tick build of the timers, which does not compile.
* *Set-up that happens once*: SMP bring-up outside SBI, per-CPU areas, clocks, registries.

Hazards without a property are of two kinds, as the notes in `PROJECT.json` say. Some are
not in the models: the barriers of the queued lock, the console called from inside
`bh_sync` and the reentrancy of handlers that call it, the realtime timers. Of others the
code does what one would fear, and the properties say what holds beside it (section 5):
timers that run early or wrap, the caller's own bit in a fence, a start that is overtaken
or refused, a lottery won by a hart that may not boot cold, S(RESYNC) that is never sent.
