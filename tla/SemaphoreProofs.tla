-------------------------- MODULE SemaphoreProofs ---------------------------
(***************************************************************************)
(* The ACPI mutexes for any finite set of CPUs: a release never fails,     *)
(* whatever timeouts came before, and of those that are inside at most one *)
(* was told so.  First the raw lock it uses, for any set of CPUs: it       *)
(* excludes, its word tells whether it is held, and it implements the lock *)
(* that include/target/spinlock.h promises.                                *)
(***************************************************************************)
EXTENDS Semaphore, FiniteSetTheorems, TLAPS

-----------------------------------------------------------------------------
(* The raw lock on its own, smp_hw_spin_trylock included: L!Spec is the    *)
(* specification of RawLock, of the word and the places of the semaphore.  *)
RawInv == L!TypeOK /\ L!LockedByOne

LEMMA RawInit == L!Init => RawInv
BY DEF L!Init, RawInv, L!TypeOK, L!LockedByOne

(* A call, and the read that sees the lock free, leave the word and the    *)
(* CPUs inside as they are.                                                *)
LEMMA OutsidePreserves ==
    ASSUME RawInv, NEW c \in CPUs, NEW label \in {"spin", "try", "swap"},
           at[c] # "in", at' = [at EXCEPT ![c] = label], word' = word
    PROVE  RawInv'
BY DEF RawInv, L!TypeOK, L!LockedByOne

(* The amoswap lets c in exactly if it found 0, and then nobody was in.    *)
LEMMA SwapPreserves ==
    ASSUME RawInv, NEW c \in CPUs, NEW from, NEW onBusy \in {"out", "spin"},
           from # "in", L!Swap(c, from, onBusy)
    PROVE  RawInv'
<1>1. CASE word = 0
  BY <1>1 DEF RawInv, L!TypeOK, L!LockedByOne, L!Swap
<1>2. CASE word = 1
  BY <1>2 DEF RawInv, L!TypeOK, L!LockedByOne, L!Swap
<1> QED BY <1>1, <1>2 DEF RawInv, L!TypeOK

LEMMA UnlockPreserves ==
    ASSUME RawInv, NEW c \in CPUs, L!smp_hw_spin_unlock(c)
    PROVE  RawInv'
BY DEF RawInv, L!TypeOK, L!LockedByOne, L!smp_hw_spin_unlock

LEMMA RawNext == RawInv /\ [L!Next]_(L!vars) => RawInv'
<1> SUFFICES ASSUME RawInv, [L!Next]_(L!vars) PROVE RawInv'
  OBVIOUS
<1>1. CASE UNCHANGED L!vars
  BY <1>1 DEF L!vars, RawInv, L!TypeOK, L!LockedByOne
<1>2. ASSUME NEW c \in CPUs, NEW label \in {"spin", "try"}, L!Call(c, label)
      PROVE  RawInv'
  BY <1>2, OutsidePreserves DEF L!Call
<1>3. ASSUME NEW c \in CPUs, L!Look(c)
      PROVE  RawInv'
  BY <1>3, OutsidePreserves DEF L!Look
<1>4. ASSUME NEW c \in CPUs, L!LockSwap(c) \/ L!smp_hw_spin_trylock(c)
      PROVE  RawInv'
  BY <1>4, SwapPreserves DEF L!LockSwap, L!smp_hw_spin_trylock
<1> QED BY <1>1, <1>2, <1>3, <1>4, UnlockPreserves DEF L!Next, L!Step

LEMMA RawInvariance == L!Spec => []RawInv
BY RawInit, RawNext, PTL DEF L!Spec

-----------------------------------------------------------------------------
(* The lock word is 1 exactly while one CPU is inside, for any number of   *)
(* CPUs that call smp_hw_spin_lock, _trylock and _unlock.                  *)
THEOREM RawExclusion == L!Spec => []L!LockedByOne
<1>1. RawInv => L!LockedByOne
  BY DEF RawInv
<1> QED BY <1>1, RawInvariance, PTL

-----------------------------------------------------------------------------
(* Where the CPUs are, seen by the callers of spinlock.h.                  *)
Status == [c \in CPUs |-> L!StatusOf(at[c])]

LEMMA RawInitRefines == L!Init => L!Abstract!Init
BY DEF L!Init, L!Abstract!Init, L!StatusOf

(* A step that moves c alone changes the status of c alone.                *)
LEMMA StatusMoves ==
    ASSUME L!TypeOK, NEW c \in CPUs, NEW label, at' = [at EXCEPT ![c] = label]
    PROVE  Status' = [Status EXCEPT ![c] = L!StatusOf(label)]
BY DEF L!TypeOK, Status

LEMMA RawNextRefines == RawInv /\ [L!Next]_(L!vars) => [L!Abstract!Next]_Status
<1> SUFFICES ASSUME RawInv, [L!Next]_(L!vars) PROVE L!Abstract!Next \/ Status' = Status
  OBVIOUS
<1>1. L!TypeOK /\ L!LockedByOne /\ \A c \in CPUs : Status[c] = L!StatusOf(at[c])
  BY DEF RawInv, Status
<1>2. CASE UNCHANGED L!vars
  BY <1>2 DEF L!vars, Status
<1>3. ASSUME NEW c \in CPUs, NEW label \in {"spin", "try"}, L!Call(c, label)
      PROVE  L!Abstract!Request(c)
  BY <1>1, <1>3, StatusMoves DEF L!Call, L!StatusOf, Status, L!Abstract!Request
<1>4. ASSUME NEW c \in CPUs, L!Look(c)
      PROVE  Status' = Status
  BY <1>1, <1>4, StatusMoves DEF L!Look, L!StatusOf, Status
<1>5. ASSUME NEW c \in CPUs, NEW from \in {"swap", "try"},
             NEW onBusy \in {"spin", "out"}, L!Swap(c, from, onBusy)
      PROVE  L!Abstract!Acquire(c) \/ L!Abstract!GiveUp(c) \/ Status' = Status
  <2>1. CASE word = 0
    <3>1. \A d \in CPUs : at[d] # "in"
      BY <1>1, <2>1 DEF L!LockedByOne
    <3> QED BY <1>1, <1>5, <2>1, <3>1, StatusMoves
            DEF L!Swap, L!StatusOf, Status, L!Abstract!Acquire, L!TypeOK
  <2>2. CASE word # 0
    <3>1. at[c] = from /\ at' = [at EXCEPT ![c] = onBusy]
      BY <1>5, <2>2 DEF L!Swap
    <3>2. Status[c] = "want" /\ Status' = [Status EXCEPT ![c] = L!StatusOf(onBusy)]
      BY <1>1, <3>1, StatusMoves DEF L!StatusOf
    <3>3. CASE onBusy = "spin"
      <4>1. Status' = [Status EXCEPT ![c] = Status[c]]
        BY <3>2, <3>3 DEF L!StatusOf
      <4> QED BY <4>1 DEF Status
    <3>4. CASE onBusy = "out"
      <4>1. Status' = [Status EXCEPT ![c] = "out"]
        BY <3>2, <3>4 DEF L!StatusOf
      <4> QED BY <3>2, <4>1 DEF Status, L!Abstract!GiveUp
    <3> QED BY <3>3, <3>4
  <2> QED BY <2>1, <2>2
<1>6. ASSUME NEW c \in CPUs, L!smp_hw_spin_unlock(c)
      PROVE  L!Abstract!Release(c)
  BY <1>1, <1>6, StatusMoves DEF L!smp_hw_spin_unlock, L!StatusOf, Status, L!Abstract!Release
<1> QED BY <1>2, <1>3, <1>4, <1>5, <1>6
        DEF L!Next, L!Step, L!LockSwap, L!smp_hw_spin_trylock, L!Abstract!Next

(* The raw lock implements the lock of include/target/spinlock.h: every    *)
(* behaviour of its functions is one that a caller of spin_lock,           *)
(* spin_trylock and spin_unlock is promised.                               *)
THEOREM RawRefinement == L!Spec => L!ImplementsSpinLock
<1>1. RawInv /\ [L!Next]_(L!vars) => [L!Abstract!Next]_[c \in CPUs |-> L!StatusOf(at[c])]
  BY RawNextRefines DEF Status
<1> QED BY <1>1, RawInitRefines, RawInvariance, PTL
        DEF L!Spec, L!ImplementsSpinLock, L!Abstract!Spec

-----------------------------------------------------------------------------
(* The semaphore: between which labels the spin lock is held, and where it *)
(* is taken.                                                               *)
Held == {"check", "take", "waited", "add", "signalled"}
Locking == {"wait", "relock", "signal", "wake"}
InsideLabels == {"waited", "in", "signal", "add"}

Places ==
    /\ \A c \in CPUs : pc[c] \in Held <=> at[c] = "in"
    /\ \A c \in CPUs : at[c] \in {"spin", "swap"} => pc[c] \in Locking
    /\ \A c \in CPUs : at[c] # "try"

(* What sem_wait and sem_signal are about to return.                       *)
Returns ==
    \A c \in CPUs :
        /\ pc[c] \in {"wait", "check", "delay", "signal", "add", "wake", "signalled"} => ret[c] = 0
        /\ pc[c] = "relock" => ret[c] = -ETIME
        /\ pc[c] = "take" => ret[c] \in {0, -ETIME}
        /\ pc[c] = "take" /\ ret[c] = 0 => value = 1

(* The CPUs that sem_wait has let in and that have not signalled yet.      *)
Inside == {c \in CPUs : pc[c] \in InsideLabels}

(* The value and the CPUs inside make the limit: a CPU that timed out has  *)
(* taken a unit that was not there, and gives it back.                     *)
UnitsConserved == value + Cardinality(Inside) = limit

IInv == TypeOK /\ LockedByOne /\ Places /\ Returns /\ UnitsConserved /\ SuccessExcludes

-----------------------------------------------------------------------------
LEMMA InitHolds == Init => IInv
<1> SUFFICES ASSUME Init PROVE IInv
  OBVIOUS
<1> USE DEF Init, L!Init
<1>1. TypeOK
  BY DEF TypeOK, L!TypeOK, Labels
<1>2. LockedByOne
  BY DEF LockedByOne, L!LockedByOne
<1>3. Places
  BY DEF Places, Held
<1>4. Returns
  BY DEF Returns
<1>5. Inside = {}
  BY DEF Inside, InsideLabels
<1>6. UnitsConserved
  BY <1>5, FS_EmptySet DEF UnitsConserved, limit
<1>7. SuccessExcludes
  BY DEF SuccessExcludes
<1> QED BY <1>1, <1>2, <1>3, <1>4, <1>6, <1>7 DEF IInv

(* Who is inside, and how many: with somebody there, no unit is left.      *)
LEMMA Insides ==
    ASSUME TypeOK, UnitsConserved
    PROVE  /\ IsFiniteSet(Inside) /\ Cardinality(Inside) \in Nat
           /\ Inside # {} => value =< 0
<1>1. IsFiniteSet(Inside)
  <2>1. Inside \in SUBSET CPUs
    BY DEF Inside, InsideLabels
  <2> QED BY <2>1, CPUsAssumption, FS_Subset
<1>2. Cardinality(Inside) \in Nat
  BY <1>1, FS_CardinalityType
<1>3. ASSUME Inside # {} PROVE value =< 0
  <2>1. Cardinality(Inside) # 0
    BY <1>1, <1>3, FS_EmptySet
  <2> QED BY <1>2, <2>1 DEF UnitsConserved, limit, TypeOK
<1> QED BY <1>1, <1>2, <1>3

(* The spin lock does what it promises however it is used.                 *)
LockStep(c) ==
    \/ L!Call(c, "spin") \/ L!Look(c) \/ L!LockSwap(c)
    \/ L!smp_hw_spin_unlock(c) \/ UNCHANGED lock

LEMMA LockHolds ==
    ASSUME L!TypeOK, LockedByOne, NEW c \in CPUs, LockStep(c)
    PROVE  L!TypeOK' /\ LockedByOne'
<1>1. RawInv
  BY DEF RawInv, L!TypeOK, LockedByOne, L!LockedByOne
<1>2. RawInv'
  <2>1. CASE L!Call(c, "spin")
    BY <1>1, <2>1, OutsidePreserves, Zenon DEF L!Call
  <2>2. CASE L!Look(c)
    BY <1>1, <2>2, OutsidePreserves, Zenon DEF L!Look
  <2>3. CASE L!LockSwap(c)
    BY <1>1, <2>3, SwapPreserves, Zenon DEF L!LockSwap, L!Swap
  <2>4. CASE L!smp_hw_spin_unlock(c)
    BY <1>1, <2>4, UnlockPreserves, Zenon DEF L!smp_hw_spin_unlock
  <2>5. CASE UNCHANGED lock
    BY <1>1, <2>5 DEF lock, RawInv, L!TypeOK, L!LockedByOne
  <2> QED BY <2>1, <2>2, <2>3, <2>4, <2>5 DEF LockStep
<1> QED BY <1>2 DEF RawInv, L!TypeOK, LockedByOne, L!LockedByOne

-----------------------------------------------------------------------------
(* What a step of c does to the labels and to the lock.                    *)
Moves(c, to) == pc' = [pc EXCEPT ![c] = to]

(* c is on its way into the spin lock, and at `to` once it has it.         *)
LEMMA Locks ==
    ASSUME TypeOK, LockedByOne, Places, NEW c \in CPUs, NEW from \in Locking, NEW to \in Held,
           spin_lock(c, from, to)
    PROVE  /\ L!TypeOK' /\ LockedByOne' /\ Places' /\ pc' \in [CPUs -> Labels]
           /\ pc[c] = from /\ (Moves(c, to) \/ UNCHANGED pc)
<1>1. LockStep(c)
  BY DEF spin_lock, LockStep
<1>2. L!TypeOK' /\ LockedByOne'
  BY <1>1, LockHolds DEF TypeOK
<1>3. /\ pc[c] = from /\ at[c] # "in" /\ pc' \in [CPUs -> Labels]
      /\ pc' = IF at'[c] = "in" THEN [pc EXCEPT ![c] = to] ELSE pc
  BY DEF spin_lock, Places, Held, Locking, TypeOK, Labels
<1>4. /\ \A d \in CPUs \ {c} : at'[d] = at[d]
      /\ at'[c] \in {"spin", "swap", "in"}
  BY DEF spin_lock, TypeOK, L!TypeOK, L!Call, L!Look, L!LockSwap, L!Swap
<1>5. Places'
  BY <1>3, <1>4 DEF Places, Held, Locking, TypeOK
<1> QED BY <1>2, <1>3, <1>5 DEF Moves

(* c moves without the lock, or with it.                                   *)
LEMMA Stays ==
    ASSUME TypeOK, LockedByOne, Places, NEW c \in CPUs, NEW to \in Labels,
           Moves(c, to), UNCHANGED lock, pc[c] \in Held <=> to \in Held, pc[c] \notin Locking
    PROVE  L!TypeOK' /\ LockedByOne' /\ Places' /\ pc' \in [CPUs -> Labels]
<1>1. L!TypeOK' /\ LockedByOne'
  BY LockHolds DEF TypeOK, LockStep
<1>2. Places'
  BY DEF Places, TypeOK, L!TypeOK, lock, Moves
<1> QED BY <1>1, <1>2 DEF Moves, TypeOK

(* c releases the lock.                                                    *)
LEMMA Unlocks ==
    ASSUME TypeOK, LockedByOne, Places, NEW c \in CPUs, NEW to \in Labels \ Held,
           Moves(c, to), spin_unlock(c)
    PROVE  L!TypeOK' /\ LockedByOne' /\ Places' /\ pc' \in [CPUs -> Labels]
<1>1. L!TypeOK' /\ LockedByOne'
  BY LockHolds DEF TypeOK, LockStep, spin_unlock
<1>2. Places'
  BY DEF Places, TypeOK, L!TypeOK, Moves, spin_unlock, L!smp_hw_spin_unlock
<1> QED BY <1>1, <1>2 DEF Moves, TypeOK

(* A step that takes and gives no unit.                                    *)
LEMMA Conserves ==
    ASSUME TypeOK, Returns, UnitsConserved, SuccessExcludes, NEW c \in CPUs, NEW to \in Labels,
           Moves(c, to), value' = value, \A d \in CPUs \ {c} : ret'[d] = ret[d],
           pc[c] \in InsideLabels <=> to \in InsideLabels,
           to \in {"wait", "check", "delay", "signal", "add", "wake", "signalled"} => ret'[c] = 0,
           to = "relock" => ret'[c] = -ETIME,
           to = "take" => ret'[c] = -ETIME \/ (ret'[c] = 0 /\ value = 1),
           to = "in" => pc[c] = "waited" /\ ret'[c] = ret[c],
           to # "waited"
    PROVE  Returns' /\ UnitsConserved' /\ SuccessExcludes'
<1> USE DEF Moves, TypeOK
<1>1. \A d \in CPUs \ {c} : pc'[d] = pc[d]
  OBVIOUS
<1>2. Returns'
  <2> SUFFICES ASSUME NEW d \in CPUs
               PROVE  /\ pc'[d] \in {"wait", "check", "delay", "signal", "add", "wake", "signalled"} => ret'[d] = 0
                      /\ pc'[d] = "relock" => ret'[d] = -ETIME
                      /\ pc'[d] = "take" => ret'[d] \in {0, -ETIME}
                      /\ pc'[d] = "take" /\ ret'[d] = 0 => value' = 1
    BY DEF Returns
  <2>1. CASE d = c
    <3>1. -ETIME # 0
      BY DEF ETIME
    <3> QED BY <2>1, <3>1
  <2>2. CASE d # c
    BY <1>1, <2>2 DEF Returns
  <2> QED BY <2>1, <2>2
<1>3. Inside' = Inside
  BY DEF Inside, InsideLabels
<1>4. UnitsConserved'
  BY <1>3 DEF UnitsConserved
<1>5. SuccessExcludes'
  BY <1>1 DEF SuccessExcludes
<1> QED BY <1>2, <1>4, <1>5

LEMMA Idles ==
    ASSUME IInv, UNCHANGED <<value, ret, pc>>
    PROVE  Returns' /\ UnitsConserved' /\ SuccessExcludes'
<1>1. Inside' = Inside
  BY DEF Inside, InsideLabels
<1> QED BY <1>1 DEF IInv, Returns, UnitsConserved, SuccessExcludes

(* sem_wait takes a unit, which is there unless it has timed out.          *)
LEMMA TakeStep ==
    ASSUME IInv, NEW c \in CPUs, Take(c)
    PROVE  IInv'
<1>1. /\ pc[c] = "take" /\ Moves(c, "waited") /\ UNCHANGED lock /\ ret' = ret
      /\ value \in Int /\ value' = value - 1 /\ pc \in [CPUs -> Labels]
      /\ ret \in [CPUs -> {0, -ETIME, -EINVAL}]
  <2>1. ret[c] # ETIME
    BY DEF IInv, Returns, Take, Goto, ETIME
  <2> QED BY <2>1 DEF IInv, TypeOK, Take, Goto, Moves, count
<1>2. L!TypeOK' /\ LockedByOne' /\ Places' /\ pc' \in [CPUs -> Labels]
  BY <1>1, Stays DEF IInv, Held, Locking, Labels
<1>3. TypeOK'
  BY <1>1, <1>2 DEF TypeOK
<1>4. \A d \in CPUs \ {c} : pc'[d] = pc[d] /\ pc[d] # "take"
  BY <1>1 DEF Moves, IInv, Places, Held, LockedByOne, L!LockedByOne
<1>5. Returns'
  BY <1>1, <1>4 DEF IInv, Returns, Moves
<1>6. Inside' = Inside \cup {c} /\ c \notin Inside
  BY <1>1 DEF Inside, InsideLabels, Moves
<1>7. IsFiniteSet(Inside) /\ Cardinality(Inside) \in Nat /\ (Inside # {} => value =< 0)
  BY Insides DEF IInv
<1>8. UnitsConserved'
  <2>1. Cardinality(Inside') = Cardinality(Inside) + 1
    BY <1>6, <1>7, FS_AddElement
  <2> QED BY <1>1, <1>7, <2>1 DEF IInv, UnitsConserved, limit
<1>9. SuccessExcludes'
  <2>1. CASE ret[c] = 0
    <3>1. Inside = {}
      BY <1>1, <1>7, <2>1 DEF IInv, Returns
    <3>2. \A d \in CPUs \ {c} : pc'[d] \notin {"waited", "in"}
      BY <3>1, <1>4 DEF Inside, InsideLabels
    <3> QED BY <3>2 DEF SuccessExcludes
  <2>2. CASE ret[c] # 0
    BY <1>1, <1>4, <2>2 DEF IInv, SuccessExcludes
  <2> QED BY <2>1, <2>2
<1> QED BY <1>2, <1>3, <1>5, <1>8, <1>9 DEF IInv

(* sem_signal gives the unit back: it is never the one above the limit.    *)
LEMMA AddStep ==
    ASSUME IInv, NEW c \in CPUs, Add(c)
    PROVE  IInv'
<1>7. IsFiniteSet(Inside) /\ Cardinality(Inside) \in Nat /\ (Inside # {} => value =< 0)
  BY Insides DEF IInv
<1>0. value \in Int /\ value =< 0 /\ c \in Inside /\ pc[c] = "add"
  BY <1>7 DEF Add, Inside, InsideLabels, IInv, TypeOK
<1>1. /\ value' = value + 1 /\ pc \in [CPUs -> Labels] /\ ret' = ret
      /\ \/ Moves(c, "wake") /\ spin_unlock(c)
         \/ Moves(c, "signalled") /\ UNCHANGED lock
  <2>1. ~ (value + count > limit)
    BY <1>0 DEF count, limit
  <2> QED BY <1>0, <2>1 DEF Add, count, Goto, Moves, IInv, TypeOK
<1>2. L!TypeOK' /\ LockedByOne' /\ Places' /\ pc' \in [CPUs -> Labels]
  BY <1>0, <1>1, Stays, Unlocks DEF IInv, Held, Locking, Labels
<1>3. TypeOK'
  BY <1>0, <1>1, <1>2 DEF TypeOK, IInv
<1>4. \A d \in CPUs \ {c} : pc'[d] = pc[d] /\ pc[d] # "take"
  BY <1>0, <1>1 DEF Moves, IInv, Places, Held, LockedByOne, L!LockedByOne
<1>5. Returns'
  BY <1>0, <1>1, <1>4 DEF IInv, Returns, Moves
<1>6. Inside' = Inside \ {c}
  BY <1>1, <1>4 DEF Inside, InsideLabels, Moves
<1>8. UnitsConserved'
  <2>1. Cardinality(Inside') = Cardinality(Inside) - 1
    BY <1>0, <1>6, <1>7, FS_RemoveElement, Zenon
  <2> QED BY <1>0, <1>1, <1>7, <2>1 DEF IInv, UnitsConserved, limit
<1>9. SuccessExcludes'
  BY <1>0, <1>1, <1>4 DEF IInv, SuccessExcludes, Moves
<1> QED BY <1>2, <1>3, <1>5, <1>8, <1>9 DEF IInv

(* The four calls of spin_lock.                                            *)
LEMMA LockingStep ==
    ASSUME IInv, NEW c \in CPUs, NEW from \in Locking, NEW to \in Held,
           spin_lock(c, from, to), UNCHANGED <<value, ret>>,
           <<from, to>> \in {<<"wait", "check">>, <<"relock", "take">>,
                            <<"signal", "add">>, <<"wake", "signalled">>}
    PROVE  IInv'
<1>1. /\ L!TypeOK' /\ LockedByOne' /\ Places' /\ pc' \in [CPUs -> Labels]
      /\ pc[c] = from /\ (Moves(c, to) \/ UNCHANGED pc)
  BY Locks DEF IInv
<1>2. TypeOK'
  BY <1>1 DEF IInv, TypeOK
<1>3. CASE Moves(c, to)
  <2>1. /\ from = "relock" => ret[c] = -ETIME
        /\ from # "relock" => ret[c] = 0
    BY <1>1 DEF IInv, Returns
  <2>2. Returns' /\ UnitsConserved' /\ SuccessExcludes'
    BY <1>1, <1>3, <2>1, Conserves DEF IInv, Held, Labels, InsideLabels
  <2> QED BY <1>1, <1>2, <2>2 DEF IInv
<1>4. CASE UNCHANGED pc
  BY <1>1, <1>2, <1>4, Idles DEF IInv
<1> QED BY <1>1, <1>3, <1>4

LEMMA Inductive == IInv /\ [Next]_vars => IInv'
<1> SUFFICES ASSUME IInv, [Next]_vars PROVE IInv'
  OBVIOUS
<1>t. TypeOK /\ LockedByOne /\ Places /\ Returns /\ UnitsConserved /\ SuccessExcludes
  BY DEF IInv
<1>r. ret \in [CPUs -> {0, -ETIME, -EINVAL}] /\ value \in Int
  BY <1>t DEF TypeOK
<1>0. CASE UNCHANGED vars
  <2>1. TypeOK' /\ LockedByOne' /\ Places'
    BY <1>0, <1>t DEF vars, TypeOK, L!TypeOK, LockedByOne, L!LockedByOne, Places
  <2> QED BY <1>0, <2>1, Idles DEF vars, IInv
<1>1. ASSUME NEW c \in CPUs, WaitLock(c) PROVE IInv'
  BY <1>1, LockingStep DEF WaitLock, Locking, Held
<1>2. ASSUME NEW c \in CPUs, Relock(c) PROVE IInv'
  <2>1. ret[c] # 0
    BY <1>2, <1>t DEF Relock, spin_lock, Returns, ETIME
  <2> QED BY <1>2, <2>1, LockingStep DEF Relock, Locking, Held
<1>3. ASSUME NEW c \in CPUs, SignalLock(c) PROVE IInv'
  BY <1>3, LockingStep DEF SignalLock, Locking, Held
<1>4. ASSUME NEW c \in CPUs, Woken(c) PROVE IInv'
  BY <1>4, LockingStep DEF Woken, Locking, Held
<1>5. ASSUME NEW c \in CPUs, NEW to \in {"wait", "signal", "relock"}, Moves(c, to),
             NEW r \in {0, -ETIME}, SetRet(c, r), UNCHANGED <<value, lock>>,
             <<pc[c], to, r>> \in {<<"out", "wait", 0>>, <<"in", "signal", 0>>, <<"delay", "relock", -ETIME>>}
      PROVE  IInv'
  <2>1. L!TypeOK' /\ LockedByOne' /\ Places' /\ pc' \in [CPUs -> Labels]
    BY <1>5, <1>t, Stays DEF Labels, Held, Locking
  <2>2. ret' = [ret EXCEPT ![c] = r]
    BY <1>5 DEF SetRet
  <2>3. TypeOK'
    BY <1>5, <1>r, <2>1, <2>2 DEF TypeOK
  <2>4. ret'[c] = r /\ \A d \in CPUs \ {c} : ret'[d] = ret[d]
    BY <2>2, <1>r
  <2>5. Returns' /\ UnitsConserved' /\ SuccessExcludes'
    BY <1>5, <1>t, <2>4, Conserves DEF Labels, InsideLabels
  <2> QED BY <2>1, <2>3, <2>5 DEF IInv
<1>6. ASSUME NEW c \in CPUs, Acquire(c) \/ Leave(c) \/ wait_sem(c) PROVE IInv'
  <2>1. CASE Acquire(c)
    BY <2>1, <1>5, Zenon DEF Acquire, Goto, Moves
  <2>2. CASE Leave(c)
    BY <2>2, <1>5, Zenon DEF Leave, Goto, Moves
  <2>3. CASE wait_sem(c)
    BY <2>3, <1>5, Zenon DEF wait_sem, Goto, Moves
  <2> QED BY <1>6, <2>1, <2>2, <2>3
<1>7. ASSUME NEW c \in CPUs, NEW to \in {"delay", "in", "out"}, Moves(c, to),
             spin_unlock(c), UNCHANGED <<value, ret>>,
             <<pc[c], to>> \in {<<"check", "delay">>, <<"waited", "in">>, <<"signalled", "out">>}
      PROVE  IInv'
  <2>1. L!TypeOK' /\ LockedByOne' /\ Places' /\ pc' \in [CPUs -> Labels]
    BY <1>7, <1>t, Unlocks DEF Labels, Held
  <2>2. TypeOK'
    BY <1>7, <1>r, <2>1 DEF TypeOK
  <2>3. to = "delay" => ret[c] = 0
    BY <1>7, <1>t DEF Returns
  <2>4. Returns' /\ UnitsConserved' /\ SuccessExcludes'
    BY <1>7, <1>t, <2>3, Conserves DEF Labels, InsideLabels
  <2> QED BY <2>1, <2>2, <2>4 DEF IInv
<1>8. ASSUME NEW c \in CPUs, Check(c) PROVE IInv'
  <2>1. CASE value =< 0
    BY <1>8, <2>1, <1>7, <1>r DEF Check, count, Goto, Moves
  <2>2. CASE ~ (value =< 0)
    <3>1. pc[c] = "check" /\ Moves(c, "take") /\ UNCHANGED <<value, lock, ret>>
      BY <1>8, <2>2, <1>r DEF Check, count, Goto, Moves
    <3>2. L!TypeOK' /\ LockedByOne' /\ Places' /\ pc' \in [CPUs -> Labels]
      BY <3>1, <1>t, Stays DEF Labels, Held, Locking
    <3>3. TypeOK'
      BY <3>1, <3>2, <1>r DEF TypeOK
    <3>4. ret[c] = 0 /\ value = 1
      BY <2>2, <3>1, <1>t, <1>r, Insides DEF Returns, UnitsConserved, limit
    <3>5. Returns' /\ UnitsConserved' /\ SuccessExcludes'
      BY <3>1, <3>4, <1>t, Conserves DEF Labels, InsideLabels
    <3> QED BY <3>2, <3>3, <3>5 DEF IInv
  <2> QED BY <2>1, <2>2
<1>9. ASSUME NEW c \in CPUs, Waited(c) \/ Signalled(c) PROVE IInv'
  <2>1. CASE Waited(c)
    BY <2>1, <1>7, Zenon DEF Waited, Goto, Moves
  <2>2. CASE Signalled(c)
    BY <2>2, <1>7, Zenon DEF Signalled, Goto, Moves
  <2> QED BY <1>9, <2>1, <2>2
<1> QED BY <1>0, <1>1, <1>2, <1>3, <1>4, <1>6, <1>8, <1>9, TakeStep, AddStep DEF Next, Step

LEMMA Invariant == Spec => []IInv
BY InitHolds, Inductive, PTL DEF Spec

-----------------------------------------------------------------------------
(* sem_signal in acpi_os_release_mutex never fails, for any number of CPUs *)
(* and through any number of timeouts: whoever releases has taken a unit.  *)
THEOREM Releases == Spec => []ReleaseNeverFails
<1>1. IInv => ReleaseNeverFails
  BY DEF IInv, Returns, ReleaseNeverFails
<1> QED BY <1>1, Invariant, PTL

(* At most one of the CPUs inside was told 0 by sem_wait.                  *)
THEOREM Exclusion == Spec => []SuccessExcludes
<1>1. IInv => SuccessExcludes
  BY DEF IInv
<1> QED BY <1>1, Invariant, PTL

(* The spin lock of the semaphore is held by one CPU at a time, through    *)
(* the releases on the way.                                                *)
THEOREM Locked == Spec => []LockedByOne
<1>1. IInv => LockedByOne
  BY DEF IInv
<1> QED BY <1>1, Invariant, PTL
=============================================================================
