----------------------------- MODULE Semaphore ------------------------------
(***************************************************************************)
(* kernel/semaphore.c in the only use it has: the mutexes of the ACPI code *)
(* (kernel/acpi/acpi_osl.c), which include/target/acpi.h maps to binary    *)
(* semaphores and whose users discard the result of the acquisition.       *)
(*                                                                         *)
(* The semaphore's value is guarded by a spin lock, here the raw lock of   *)
(* RISC-V, whose steps are those of module RawLock; sem_wait drops it      *)
(* around wait_sem, which is a mere delay that always reports a timeout.   *)
(***************************************************************************)
EXTENDS Integers, FiniteSets

CONSTANT CPUs

ASSUME CPUsAssumption == IsFiniteSet(CPUs)

VARIABLES value,  \* sem->value; sem->limit is 1 and so is every count
          word,   \* sem->lock
          at,     \* where each CPU is in the functions of that lock
          ret,    \* ret of the call in progress
          pc

lock == <<word, at>>
vars == <<value, word, at, ret, pc>>

L == INSTANCE RawLock WITH lock <- word, pc <- at

limit == 1
count == 1
ETIME == 62
EINVAL == 22

Labels == {"out", "wait", "check", "delay", "relock", "take", "waited",
           "in", "signal", "add", "wake", "signalled"}

TypeOK == /\ value \in Int
          /\ L!TypeOK
          /\ ret \in [CPUs -> {0, -ETIME, -EINVAL}]
          /\ pc \in [CPUs -> Labels]

(* acpi_os_create_mutex: sem_init(lock, 1, 1).                             *)
Init == /\ value = 1
        /\ L!Init
        /\ ret = [c \in CPUs |-> 0]
        /\ pc = [c \in CPUs |-> "out"]

-----------------------------------------------------------------------------
Goto(c, from, to) == pc[c] = from /\ pc' = [pc EXCEPT ![c] = to]

SetRet(c, r) == ret' = [ret EXCEPT ![c] = r]

(* One step of spin_lock, and what follows its last one.                   *)
spin_lock(c, from, to) ==
    /\ pc[c] = from
    /\ L!Call(c, "spin") \/ L!Look(c) \/ L!LockSwap(c)
    /\ pc' = IF at'[c] = "in" THEN [pc EXCEPT ![c] = to] ELSE pc

spin_unlock(c) == L!smp_hw_spin_unlock(c)

(* acpi_os_acquire_mutex: sem_wait(sem, 1, timeout).                       *)
Acquire(c) == Goto(c, "out", "wait") /\ SetRet(c, 0) /\ UNCHANGED <<value, lock>>

WaitLock(c) ==
    /\ spin_lock(c, "wait", "check")
    /\ UNCHANGED <<value, ret>>

(* mutant of Check: a semaphore at 0 lets one more in. *)
CheckOffByOne(c) ==
    IF value < count - 1
    THEN Goto(c, "check", "delay") /\ spin_unlock(c) /\ UNCHANGED <<value, ret>>
    ELSE Goto(c, "check", "take") /\ UNCHANGED <<value, lock, ret>>

Check(c) ==
    IF value <= count - 1
    THEN Goto(c, "check", "delay") /\ spin_unlock(c) /\ UNCHANGED <<value, ret>>
    ELSE Goto(c, "check", "take") /\ UNCHANGED <<value, lock, ret>>

wait_sem(c) ==
    /\ Goto(c, "delay", "relock")
    /\ SetRet(c, -ETIME)
    /\ UNCHANGED <<value, lock>>

(* The loop ends here: ret is never 0 after wait_sem.                      *)
Relock(c) ==
    /\ spin_lock(c, "relock", IF ret[c] # 0 THEN "take" ELSE "check")
    /\ UNCHANGED <<value, ret>>

(* The test compares ret with ETIME, not with -ETIME.                      *)
Take(c) ==
    /\ Goto(c, "take", "waited")
    /\ value' = IF ret[c] # ETIME THEN value - count ELSE value
    /\ UNCHANGED <<lock, ret>>

(* sem_wait returns, and the caller enters whatever it returned.           *)
Waited(c) ==
    /\ Goto(c, "waited", "in")
    /\ spin_unlock(c)
    /\ UNCHANGED <<value, ret>>

(* acpi_os_release_mutex: sem_signal(sem, 1).                              *)
Leave(c) == Goto(c, "in", "signal") /\ SetRet(c, 0) /\ UNCHANGED <<value, lock>>

SignalLock(c) ==
    /\ spin_lock(c, "signal", "add")
    /\ UNCHANGED <<value, ret>>

(* mutant of Add: the semaphore is taken to be full one unit too early. *)
AddBelowLimit(c) ==
    /\ pc[c] = "add"
    /\ IF value + count >= limit
       THEN Goto(c, "add", "signalled") /\ SetRet(c, -EINVAL) /\ UNCHANGED <<value, lock>>
       ELSE Goto(c, "add", "signalled") /\ value' = value + count /\ UNCHANGED <<lock, ret>>

Add(c) ==
    /\ pc[c] = "add"
    /\ IF value + count > limit
       THEN Goto(c, "add", "signalled") /\ SetRet(c, -EINVAL) /\ UNCHANGED <<value, lock>>
       ELSE /\ value' = value + count
            /\ IF value' > 0
               THEN Goto(c, "add", "wake") /\ spin_unlock(c)
               ELSE Goto(c, "add", "signalled") /\ UNCHANGED lock
            /\ UNCHANGED ret

(* wake_sem is empty; the lock is taken again to be released.              *)
Woken(c) ==
    /\ spin_lock(c, "wake", "signalled")
    /\ UNCHANGED <<value, ret>>

Signalled(c) ==
    /\ Goto(c, "signalled", "out")
    /\ spin_unlock(c)
    /\ UNCHANGED <<value, ret>>

-----------------------------------------------------------------------------
Step(c) == \/ WaitLock(c) \/ Check(c) \/ wait_sem(c) \/ Relock(c) \/ Take(c)
           \/ Waited(c) \/ Leave(c) \/ SignalLock(c) \/ Add(c) \/ Woken(c)
           \/ Signalled(c)

Next == \E c \in CPUs : Acquire(c) \/ Step(c)

Spec == Init /\ [][Next]_vars

(* Every CPU inside the semaphore's or the lock's functions keeps running, *)
(* and every section the mutex guards ends.                                *)
FairSpec == Spec /\ \A c \in CPUs : WF_vars(Step(c))

-----------------------------------------------------------------------------
(* A release never fails.  acpi_event_unlock releases whatever its lock    *)
(* was told, so that CPUs that timed out release a mutex they do not own;  *)
(* sem_signal still never finds it at its limit (AE_LIMIT), in whatever    *)
(* order owners and others come and go.                                    *)
ReleaseNeverFails == \A c \in CPUs : pc[c] = "signalled" => ret[c] = 0

(* Of the CPUs that sem_wait has let in, at most one was told 0: the error *)
(* it returns after a timeout is what tells a caller that the mutex is not *)
(* its own, and the callers that discard it share the section.             *)
SuccessExcludes ==
    \A c, d \in CPUs :
        /\ pc[c] \in {"waited", "in"} /\ ret[c] = 0
        /\ pc[d] \in {"waited", "in"} /\ ret[d] = 0
        => c = d

(* What the raw lock promises, under the way the semaphore uses it: the    *)
(* word is 1 exactly while one CPU is between spin_lock and spin_unlock,   *)
(* through the releases that sem_wait and sem_signal make on the way.      *)
LockedByOne == L!LockedByOne

(* The raw lock is not fair, but the CPUs that contend for it in sem_wait  *)
(* and sem_signal do not keep each other out for ever.                     *)
SomebodyEnters == L!SomebodyEnters
=============================================================================
