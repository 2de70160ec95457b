------------------------------ MODULE RawLock -------------------------------
(* The RISC-V raw spinlock (arch/riscv/include/asm/spinlock.h, under        *)
(* CONFIG_RISCV_SPINLOCK_RAW): test and test-and-set with amoswap.          *)
CONSTANT CPUs

VARIABLES lock,   \* lock->lock
          pc      \* pc[c]: the next access c makes to the lock word

vars == <<lock, pc>>

\* "spin": the read in smp_hw_spin_lock's loop; "swap": its amoswap;
\* "try": the amoswap of a call of smp_hw_spin_trylock
TypeOK ==
  /\ lock \in {0, 1}
  /\ pc \in [CPUs -> {"out", "spin", "swap", "try", "in"}]

Init == lock = 0 /\ pc = [c \in CPUs |-> "out"]

\* smp_hw_spin_lock or smp_hw_spin_trylock is called
Call(c, label) ==
  /\ pc[c] = "out"
  /\ pc' = [pc EXCEPT ![c] = label]
  /\ UNCHANGED lock

\* Mutant: the loop's test is the wrong way round
LookReversed(c) ==
  /\ pc[c] = "spin"
  /\ lock = 1
  /\ pc' = [pc EXCEPT ![c] = "swap"]
  /\ UNCHANGED lock

\* the iteration that reads smp_hw_spin_locked as false
Look(c) ==
  /\ pc[c] = "spin"
  /\ lock = 0
  /\ pc' = [pc EXCEPT ![c] = "swap"]
  /\ UNCHANGED lock

\* Mutant: the lock is taken for granted once it was seen free
SwapAssumed(c, from, onBusy) ==
  /\ pc[c] = from
  /\ lock' = 1
  /\ pc' = [pc EXCEPT ![c] = "in"]

\* amoswap.w 1, and what the caller does with the old value
Swap(c, from, onBusy) ==
  /\ pc[c] = from
  /\ lock' = 1
  /\ pc' = [pc EXCEPT ![c] = IF lock = 0 THEN "in" ELSE onBusy]

smp_hw_spin_trylock(c) == Swap(c, "try", "out")
LockSwap(c) == Swap(c, "swap", "spin")

smp_hw_spin_unlock(c) ==
  /\ pc[c] = "in"
  /\ lock' = 0
  /\ pc' = [pc EXCEPT ![c] = "out"]

Step(c) == Look(c) \/ LockSwap(c) \/ smp_hw_spin_trylock(c) \/ smp_hw_spin_unlock(c)
Next == \E c \in CPUs : Call(c, "spin") \/ Call(c, "try") \/ Step(c)

Spec == Init /\ [][Next]_vars

-----------------------------------------------------------------------------
\* The lock word is 1 exactly while one CPU, and no other, is inside: the
\* failed amoswap of a contender neither frees nor leaks the lock.
LockedByOne ==
  /\ \A c, d \in CPUs : pc[c] = "in" /\ pc[d] = "in" => c = d
  /\ lock = 1 <=> \E c \in CPUs : pc[c] = "in"

\* CPUs that contend do not keep each other out for ever (any one of them may
\* starve: the lock is not fair).
SomebodyEnters ==
  (\E c \in CPUs : pc[c] \in {"spin", "swap"}) ~> (\E c \in CPUs : pc[c] = "in")

\* The raw lock is a spin lock.
StatusOf(l) ==
  IF l \in {"spin", "swap", "try"} THEN "want" ELSE l
Abstract == INSTANCE SpinLock WITH
  LockOf <- [c \in CPUs |-> 0], status <- [c \in CPUs |-> StatusOf(pc[c])]
ImplementsSpinLock == Abstract!Spec

=============================================================================
