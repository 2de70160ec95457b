----------------------------- MODULE TicketLock -----------------------------
(* The RISC-V ticket spinlock (arch/riscv/include/asm/spinlock.h, under     *)
(* CONFIG_RISCV_SPINLOCK_TICKET).  Each atomic access to the lock word is a *)
(* step of its own.  Tickets are the 32-bit counters of the code, with      *)
(* 2^32 replaced by the constant W.                                         *)
EXTENDS Naturals, FiniteSets

CONSTANTS CPUs,     \* the CPUs that share the lock
          W         \* number of ticket values (2^32 in the code)

ASSUME CPUsFinite == IsFiniteSet(CPUs)
ASSUME WAssumption == W \in Nat /\ Cardinality(CPUs) < W

VARIABLES next,     \* lock->next: the ticket the next caller is given
          owner,    \* lock->owner: the ticket that is being served
          ticket,   \* ticket[c]: the local t - 1 of the call c is in
          pc,       \* pc[c]: where c is in its call
          undone    \* history: a failed trylock has given a ticket back

vars == <<next, owner, ticket, pc, undone>>

\* Mutant: the counter does not wrap around
IncUnwrapped(x) == x + 1

\* atomic32 add and sub of 1, with the wrap-around of uint32_t
Inc(x) == IF x + 1 = W THEN 0 ELSE x + 1
Dec(x) == IF x = 0 THEN W - 1 ELSE x - 1

\* "spin": in smp_hw_spin_lock's loop; "try": in smp_hw_spin_trylock before
\* owner is read; "undo": trylock failed and next is still to be decremented
TypeOK ==
  /\ next \in 0 .. W - 1
  /\ owner \in 0 .. W - 1
  /\ ticket \in [CPUs -> 0 .. W - 1]
  /\ pc \in [CPUs -> {"out", "spin", "try", "undo", "in"}]
  /\ undone \in BOOLEAN

\* smp_hw_spin_init
Init ==
  /\ next = 0
  /\ owner = 0
  /\ ticket = [c \in CPUs |-> 0]
  /\ pc = [c \in CPUs |-> "out"]
  /\ undone = FALSE

\* atomic32_add_return(1, &lock->next): queue up and note the position
TakeTicket(c, label) ==
  /\ pc[c] = "out"
  /\ ticket' = [ticket EXCEPT ![c] = next]
  /\ next' = Inc(next)
  /\ pc' = [pc EXCEPT ![c] = label]
  /\ UNCHANGED <<owner, undone>>

LockTake(c) == TakeTicket(c, "spin")

\* Mutant: any waiter may enter
LockAcquireUnserved(c) ==
  /\ pc[c] = "spin"
  /\ pc' = [pc EXCEPT ![c] = "in"]
  /\ UNCHANGED <<next, owner, ticket, undone>>

\* the iteration of the loop that reads the matching owner
LockAcquire(c) ==
  /\ pc[c] = "spin"
  /\ ticket[c] = owner
  /\ pc' = [pc EXCEPT ![c] = "in"]
  /\ UNCHANGED <<next, owner, ticket, undone>>

\* Mutant: the ticket is given back instead of the next one being served
UnlockReturnsTicket(c) ==
  /\ pc[c] = "in"
  /\ next' = Dec(next)
  /\ pc' = [pc EXCEPT ![c] = "out"]
  /\ UNCHANGED <<owner, ticket, undone>>

Unlock(c) ==
  /\ pc[c] = "in"
  /\ owner' = Inc(owner)
  /\ pc' = [pc EXCEPT ![c] = "out"]
  /\ UNCHANGED <<next, ticket, undone>>

TryTake(c) == TakeTicket(c, "try")

\* the single read of owner
TryRead(c) ==
  /\ pc[c] = "try"
  /\ pc' = [pc EXCEPT ![c] = IF ticket[c] = owner THEN "in" ELSE "undo"]
  /\ UNCHANGED <<next, owner, ticket, undone>>

\* atomic32_sub(1, &lock->next): whatever ticket was handed out meanwhile
TryUndo(c) ==
  /\ pc[c] = "undo"
  /\ next' = Dec(next)
  /\ pc' = [pc EXCEPT ![c] = "out"]
  /\ undone' = TRUE
  /\ UNCHANGED <<owner, ticket>>

Next ==
  \E c \in CPUs : LockTake(c) \/ LockAcquire(c) \/ Unlock(c)
                 \/ TryTake(c) \/ TryRead(c) \/ TryUndo(c)

Spec == Init /\ [][Next]_vars

\* A CPU inside a lock function keeps executing, and critical sections end;
\* whether a CPU calls spin_lock at all is its own business.
Progress(c) == LockAcquire(c) \/ Unlock(c) \/ TryRead(c) \/ TryUndo(c)
FairSpec == Spec /\ \A c \in CPUs : WF_vars(Progress(c))

-----------------------------------------------------------------------------
\* Two CPUs are never inside the critical section together, not even after a
\* failed spin_trylock has taken back a ticket that was no longer the last.
MutualExclusion == \A c, d \in CPUs : pc[c] = "in" /\ pc[d] = "in" => c = d

\* "noting our position": as long as no spin_trylock has failed, the CPUs that
\* hold or wait for the lock have different tickets, and the tickets are the
\* Cardinality(Queued) ones that start at owner and end before next, also when
\* the counters wrap around.
Queued == {c \in CPUs : pc[c] # "out"}
Slot(k) == IF owner + k >= W THEN owner + k - W ELSE owner + k
QueueIsContiguous ==
  ~undone =>
    /\ next = Slot(Cardinality(Queued))
    /\ \A c \in Queued : \E k \in 0 .. Cardinality(Queued) - 1 : ticket[c] = Slot(k)
    /\ \A c, d \in Queued : ticket[c] = ticket[d] => c = d

\* "Always fair" (arch/riscv/common/Kconfig): a CPU that called spin_lock
\* gets the lock, if no spin_trylock ever fails.  Without the proviso it is
\* false: smp_hw_spin_trylock may leave a ticket that nobody holds.
FairUnlessUndone ==
  [](~undone) => \A c \in CPUs : pc[c] = "spin" ~> pc[c] = "in"

\* The ticket lock is a spin lock.
StatusOf(l) ==
  CASE l = "out" -> "out"
    [] l \in {"spin", "try", "undo"} -> "want"
    [] l = "in" -> "in"
Abstract == INSTANCE SpinLock WITH
  LockOf <- [c \in CPUs |-> 0], status <- [c \in CPUs |-> StatusOf(pc[c])]
ImplementsSpinLock == Abstract!Spec

=============================================================================
