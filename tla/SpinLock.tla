------------------------------ MODULE SpinLock ------------------------------
(* What include/target/spinlock.h promises its callers, whichever of the    *)
(* hardware locks (raw, ticket, queued) smp_hw_spin_lock names: a CPU asks  *)
(* for the lock, at most one CPU has it, and only its owner gives it back.  *)
CONSTANTS CPUs,   \* the CPUs, or the contexts nested on them
          LockOf  \* the lock each of them takes

VARIABLE status \* status[c]: "out" of, "want"s or is "in" the critical section

TypeOK == status \in [CPUs -> {"out", "want", "in"}]

Init == status = [c \in CPUs |-> "out"]

\* spin_lock or spin_trylock is entered
Request(c) ==
  /\ status[c] = "out"
  /\ status' = [status EXCEPT ![c] = "want"]

\* spin_lock returns, or spin_trylock returns 1, possibly at once
Acquire(c) ==
  /\ status[c] # "in"
  /\ \A d \in CPUs : LockOf[d] = LockOf[c] => status[d] # "in"
  /\ status' = [status EXCEPT ![c] = "in"]

\* spin_trylock returns 0
GiveUp(c) ==
  /\ status[c] = "want"
  /\ status' = [status EXCEPT ![c] = "out"]

\* spin_unlock, called by the owner
Release(c) ==
  /\ status[c] = "in"
  /\ status' = [status EXCEPT ![c] = "out"]

Next == \E c \in CPUs : Request(c) \/ Acquire(c) \/ GiveUp(c) \/ Release(c)

Spec == Init /\ [][Next]_status

=============================================================================
