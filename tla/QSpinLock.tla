----------------------------- MODULE QSpinLock ------------------------------
(* The queued spinlock of kernel/spinlock.c: a lock word (locked, pending,  *)
(* tail) with an MCS queue of per-CPU nodes behind it.  A context is a      *)
(* thread of execution that may call qspin_lock: the main loop of a CPU or  *)
(* an interrupt nested on top of it.  Each access to shared memory is one   *)
(* step; memory is sequentially consistent.                                 *)
EXTENDS Integers

CONSTANTS CPUs,
          Levels,        \* nesting levels: 0 is the main loop, an interrupt is higher
          Nested,        \* the CPUs of the executions in which interrupts lock as well
          Observed,      \* the CPUs AlwaysFair is about: one will do, they are alike
          MaxNodes,      \* MAX_NODES, 4 in the code
          PendingLoops,  \* _Q_PENDING_LOOPS, 1 in the code
          Wide           \* TRUE: atomic_count_t is 64 bits wide (see the word, below)

ASSUME LevelsAssumption == Levels \subseteq Nat /\ 0 \in Levels /\ Nested \cup Observed \subseteq CPUs
ASSUME BoundsAssumption == MaxNodes \in Nat /\ PendingLoops \in Nat /\ Wide \in BOOLEAN

\* A context <<cpu, level>> interrupts the lower levels of its CPU, which
\* cannot run before it is done.  A lock they shared would deadlock, so every
\* level has a lock of its own, which the CPUs compete for.
Contexts == CPUs \X Levels
CpuOf(c) == c[1]
Level(c) == c[2]
L(c) == Level(c)
Locks == Levels

Nodes == CPUs \X (0 .. MaxNodes - 1)      \* qnodes[idx] of a CPU
NoNode == <<>>                            \* NULL, and the tail code of an empty queue

VARIABLES word,      \* word[l]: lock->val
          node,      \* node[n]: the mcs_spinlock of node n, its locked and next
          count,     \* count[cpu]: qnodes[0].mcs.count
          pc,        \* pc[c]: the next access c makes
          cnt,       \* cnt[c], idx[c], prev[c], next[c]: the locals of
          idx,       \*   qspin_lock_slowpath, reset when they go out of use
          prev,
          next,
          users      \* the contexts that use locks in this execution

locals == <<cnt, idx, prev, next>>
vars == <<word, node, count, pc, cnt, idx, prev, next, users>>

-----------------------------------------------------------------------------
(* The lock word.  The masks place locked in bits 0-7, pending in bit 8 and *)
(* the tail in bits 16-31.  The struct places the same three in fields that *)
(* are a quarter, a quarter and a half of atomic_count_t wide.  The two     *)
(* agree when that is 32 bits.  When it is 64 (Wide), bit 8 lies inside the *)
(* field locked, the field pending is a part of the word no mask looks at,  *)
(* and the tail lies above the 32 bits the masks reach.                     *)

Free == [locked |-> 0, pending |-> 0, tail |-> NoNode]
Words == [locked : {0, 1}, pending : {0, 1}, tail : Nodes \cup {NoNode}]

LockedVal == [Free EXCEPT !.locked = 1]
PendingVal == [Free EXCEPT !.pending = 1]

\* v & _Q_TAIL_MASK
TailOf(v) == IF Wide THEN NoNode ELSE v.tail
\* v & ~_Q_LOCKED_MASK
Contended(v) == v.pending = 1 \/ TailOf(v) # NoNode
\* WRITE_ONCE(lock->u.pending, 0)
clear_pending(w) == IF Wide THEN w ELSE [w EXCEPT !.pending = 0]
\* Mutant: pending is cleared and the lock is not taken
ClearPendingOnly(w) == [w EXCEPT !.pending = 0]
\* WRITE_ONCE(lock->u.locked_pending, _Q_LOCKED_VAL)
clear_pending_set_locked(w) == [w EXCEPT !.locked = 1, !.pending = 0]
\* WRITE_ONCE(lock->u.locked, x)
WriteLocked(w, x) ==
  IF Wide THEN [w EXCEPT !.locked = x, !.pending = 0] ELSE [w EXCEPT !.locked = x]
set_locked(w) == WriteLocked(w, 1)

-----------------------------------------------------------------------------
W(c) == word[L(c)]
Me(c) == <<CpuOf(c), idx[c]>>   \* the node of c, and its encode_tail

\* pc values: those of the pending-bit path, of the queue, and
\* of the hand-over to the next in the queue
PendingPCs == {"waitowner", "takepending"}
HandoverPCs == {"waitnext", "handover"}
PCs == {"out", "pendwait", "setpending", "undo"} \cup PendingPCs \cup
       {"queue", "fallback", "initnode", "retry", "xchgtail", "link", "waitnode",
        "readnext", "waitlock", "claim", "setlocked"} \cup HandoverPCs \cup
       {"release", "in"}

TypeOK ==
  /\ word \in [Locks -> Words]
  /\ node \in [Nodes -> [locked : {0, 1}, next : Nodes \cup {NoNode}]]
  /\ count \in [CPUs -> Nat]
  /\ pc \in [Contexts -> PCs]
  /\ cnt \in [Contexts -> 0 .. PendingLoops]
  /\ idx \in [Contexts -> Nat]
  /\ prev \in [Contexts -> Nodes \cup {NoNode}]
  /\ next \in [Contexts -> Nodes \cup {NoNode}]
  /\ users \subseteq Contexts

Init ==
  /\ word = [l \in Locks |-> Free]
  /\ node = [n \in Nodes |-> [locked |-> 0, next |-> NoNode]]
  /\ count = [u \in CPUs |-> 0]
  /\ pc = [c \in Contexts |-> "out"]
  /\ cnt = [c \in Contexts |-> PendingLoops]
  /\ idx = [c \in Contexts |-> 0]
  /\ prev = [c \in Contexts |-> NoNode]
  /\ next = [c \in Contexts |-> NoNode]
  /\ users \in {CPUs \X {0}, Nested \X Levels}

\* A context runs only while nothing has interrupted it.
Running(c) ==
  \A d \in Contexts : CpuOf(d) = CpuOf(c) /\ Level(d) > Level(c) => pc[d] = "out"

At(c, label) == pc[c] = label /\ Running(c)
Goto(c, label) == pc' = [pc EXCEPT ![c] = label]
SetWord(c, w) == word' = [word EXCEPT ![L(c)] = w]

-----------------------------------------------------------------------------
\* qspin_lock: the cmpxchg 0 -> _Q_LOCKED_VAL, and where the value it found
\* leads in the slow path
Decide(v) ==
  CASE v = PendingVal -> "pendwait"
    [] v # PendingVal /\ Contended(v) -> "queue"
    [] OTHER -> "setpending"

qspin_lock(c) ==
  /\ At(c, "out")
  /\ IF W(c) = Free
       THEN SetWord(c, LockedVal) /\ Goto(c, "in")
       ELSE Goto(c, Decide(W(c))) /\ UNCHANGED word
  /\ UNCHANGED <<node, count, locals>>

\* Mutant: the wait is not bounded
PendWaitUnbounded(c) ==
  /\ At(c, "pendwait")
  /\ IF W(c) # PendingVal
       THEN /\ Goto(c, IF Contended(W(c)) THEN "queue" ELSE "setpending")
            /\ cnt' = [cnt EXCEPT ![c] = PendingLoops]
       ELSE cnt' = [cnt EXCEPT ![c] = @ - 1] /\ UNCHANGED pc
  /\ UNCHANGED <<word, node, count, idx, prev, next>>

\* one iteration of the bounded wait for a pending -> locked hand-over
PendWait(c) ==
  /\ At(c, "pendwait")
  /\ IF W(c) # PendingVal \/ cnt[c] = 0
       THEN /\ Goto(c, IF Contended(W(c)) THEN "queue" ELSE "setpending")
            /\ cnt' = [cnt EXCEPT ![c] = PendingLoops]
       ELSE cnt' = [cnt EXCEPT ![c] = @ - 1] /\ UNCHANGED pc
  /\ UNCHANGED <<word, node, count, idx, prev, next>>

\* queued_fetch_set_pending_acquire and the tests on the value it returns
SetPending(c) ==
  /\ At(c, "setpending")
  /\ SetWord(c, [W(c) EXCEPT !.pending = 1])
  /\ Goto(c, IF Contended(W(c))
               THEN IF W(c).pending = 0 THEN "undo" ELSE "queue"
               ELSE IF W(c).locked = 1 THEN "waitowner" ELSE "takepending")
  /\ UNCHANGED <<node, count, locals>>

UndoPending(c) ==
  /\ At(c, "undo")
  /\ SetWord(c, clear_pending(W(c)))
  /\ Goto(c, "queue")
  /\ UNCHANGED <<node, count, locals>>

WaitOwner(c) ==
  /\ At(c, "waitowner")
  /\ W(c).locked = 0
  /\ Goto(c, "takepending")
  /\ UNCHANGED <<word, node, count, locals>>

TakePending(c) ==
  /\ At(c, "takepending")
  /\ SetWord(c, clear_pending_set_locked(W(c)))
  /\ Goto(c, "in")
  /\ UNCHANGED <<node, count, locals>>

\* Mutant: an interrupt takes the node its CPU is already using
QueueFirstNode(c) ==
  /\ At(c, "queue")
  /\ count' = [count EXCEPT ![CpuOf(c)] = @ + 1]
  /\ Goto(c, "initnode")
  /\ UNCHANGED <<word, node, locals>>

\* queue: take a node of this CPU, unless they are all in use
Queue(c) ==
  /\ At(c, "queue")
  /\ idx' = [idx EXCEPT ![c] = count[CpuOf(c)]]
  /\ count' = [count EXCEPT ![CpuOf(c)] = @ + 1]
  /\ Goto(c, IF count[CpuOf(c)] >= MaxNodes THEN "fallback" ELSE "initnode")
  /\ UNCHANGED <<word, node, cnt, prev, next>>

\* while (!qspin_trylock(lock)): the iteration that succeeds
Fallback(c) ==
  /\ At(c, "fallback")
  /\ W(c) = Free
  /\ SetWord(c, LockedVal)
  /\ Goto(c, "release")
  /\ UNCHANGED <<node, count, locals>>

InitNode(c) ==
  /\ At(c, "initnode")
  /\ node' = [node EXCEPT ![Me(c)] = [locked |-> 0, next |-> NoNode]]
  /\ Goto(c, "retry")
  /\ UNCHANGED <<word, count, locals>>

\* qspin_trylock once more before queueing
Retry(c) ==
  /\ At(c, "retry")
  /\ IF W(c) = Free
       THEN SetWord(c, LockedVal) /\ Goto(c, "release")
       ELSE Goto(c, "xchgtail") /\ UNCHANGED word
  /\ UNCHANGED <<node, count, locals>>

\* next is NULL from here until it is read
xchg_tail(c) ==
  /\ At(c, "xchgtail")
  /\ SetWord(c, [W(c) EXCEPT !.tail = Me(c)])
  /\ prev' = [prev EXCEPT ![c] = W(c).tail]
  /\ Goto(c, IF W(c).tail # NoNode THEN "link" ELSE "waitlock")
  /\ UNCHANGED <<node, count, cnt, idx, next>>

\* WRITE_ONCE(prev->next, node)
Link(c) ==
  /\ At(c, "link")
  /\ node' = [node EXCEPT ![prev[c]].next = Me(c)]
  /\ prev' = [prev EXCEPT ![c] = NoNode]
  /\ Goto(c, "waitnode")
  /\ UNCHANGED <<word, count, cnt, idx, next>>

\* arch_mcs_spin_lock_contended(&node->locked)
WaitNode(c) ==
  /\ At(c, "waitnode")
  /\ node[Me(c)].locked = 1
  /\ Goto(c, "readnext")
  /\ UNCHANGED <<word, node, count, locals>>

ReadNext(c) ==
  /\ At(c, "readnext")
  /\ next' = [next EXCEPT ![c] = node[Me(c)].next]
  /\ Goto(c, "waitlock")
  /\ UNCHANGED <<word, node, count, cnt, idx, prev>>

\* Mutant: the head of the queue ignores the pending CPU
WaitLockNotPending(c) ==
  /\ At(c, "waitlock")
  /\ W(c).locked = 0
  /\ Goto(c, IF TailOf(W(c)) = Me(c) THEN "claim" ELSE "setlocked")
  /\ UNCHANGED <<word, node, count, locals>>

\* the head of the queue waits for the owner and the pending CPU
WaitLock(c) ==
  /\ At(c, "waitlock")
  /\ W(c).locked = 0 /\ W(c).pending = 0
  /\ Goto(c, IF TailOf(W(c)) = Me(c) THEN "claim" ELSE "setlocked")
  /\ UNCHANGED <<word, node, count, locals>>

\* cmpxchg: alone in the queue, take the lock and empty the queue at once.
\* val, read by WaitLock, has this tail and neither locked nor pending.
Claim(c) ==
  /\ At(c, "claim")
  /\ IF W(c) = [Free EXCEPT !.tail = Me(c)]
       THEN SetWord(c, LockedVal) /\ Goto(c, "release")
       ELSE Goto(c, "setlocked") /\ UNCHANGED word
  /\ UNCHANGED <<node, count, locals>>

SetLocked(c) ==
  /\ At(c, "setlocked")
  /\ SetWord(c, set_locked(W(c)))
  /\ Goto(c, IF next[c] = NoNode THEN "waitnext" ELSE "handover")
  /\ UNCHANGED <<node, count, locals>>

WaitNext(c) ==
  /\ At(c, "waitnext")
  /\ node[Me(c)].next # NoNode
  /\ next' = [next EXCEPT ![c] = node[Me(c)].next]
  /\ Goto(c, "handover")
  /\ UNCHANGED <<word, node, count, cnt, idx, prev>>

\* Mutant: the successor is forgotten
HandoverLost(c) ==
  /\ At(c, "handover")
  /\ Goto(c, "release")
  /\ UNCHANGED <<word, node, count, locals>>

\* arch_mcs_spin_unlock_contended(&next->locked)
Handover(c) ==
  /\ At(c, "handover")
  /\ node' = [node EXCEPT ![next[c]].locked = 1]
  /\ next' = [next EXCEPT ![c] = NoNode]
  /\ Goto(c, "release")
  /\ UNCHANGED <<word, count, cnt, idx, prev>>

\* Mutant: the node is not given back
ReleaseKeeping(c) ==
  /\ At(c, "release")
  /\ Goto(c, "in")
  /\ UNCHANGED <<word, node, count, locals>>

Release(c) ==
  /\ At(c, "release")
  /\ count' = [count EXCEPT ![CpuOf(c)] = @ - 1]
  /\ idx' = [idx EXCEPT ![c] = 0]
  /\ Goto(c, "in")
  /\ UNCHANGED <<word, node, cnt, prev, next>>

\* qspin_trylock by a caller, when it succeeds (it has no effect otherwise)
qspin_trylock(c) ==
  /\ At(c, "out")
  /\ W(c) = Free
  /\ SetWord(c, LockedVal)
  /\ Goto(c, "in")
  /\ UNCHANGED <<node, count, locals>>

qspin_unlock(c) ==
  /\ At(c, "in")
  /\ SetWord(c, WriteLocked(W(c), 0))
  /\ Goto(c, "out")
  /\ UNCHANGED <<node, count, locals>>

Step(c) ==
  \/ PendWait(c) \/ SetPending(c) \/ UndoPending(c) \/ WaitOwner(c) \/ TakePending(c)
  \/ Queue(c) \/ Fallback(c) \/ InitNode(c) \/ Retry(c) \/ xchg_tail(c)
  \/ Link(c) \/ WaitNode(c) \/ ReadNext(c) \/ WaitLock(c) \/ Claim(c)
  \/ SetLocked(c) \/ WaitNext(c) \/ Handover(c) \/ Release(c)
  \/ qspin_unlock(c)

Next == \E c \in users :
  (qspin_lock(c) \/ qspin_trylock(c) \/ Step(c)) /\ UNCHANGED users

Spec == Init /\ [][Next]_vars

\* A context that is not interrupted executes, and critical sections end.
FairSpec == Spec /\ \A c \in Contexts : WF_vars(c \in users /\ Step(c) /\ UNCHANGED users)

-----------------------------------------------------------------------------
\* The contexts that own the lock: the locked byte is theirs, whether or not
\* they still have to hand the queue over and return from qspin_lock.
OwnerPCs == HandoverPCs \cup {"release", "in"}
Owners(l) == {c \in Contexts : L(c) = l /\ pc[c] \in OwnerPCs}

\* Two contexts never own the same lock.
MutualExclusion == \A l \in Locks : \A c, d \in Owners(l) : c = d

\* The locked byte says whether the lock is owned, so that a free word never
\* hides an owner and an owner-less word is never left locked.
LockedMeansOwned == \A l \in Locks : word[l].locked = 1 <=> Owners(l) # {}

\* Contexts that have a node: two of them never use the same node, even when
\* one of them interrupted the other between taking a node and giving it back.
Queued == {c \in Contexts : pc[c] \in {"initnode", "retry", "xchgtail", "link", "waitnode",
             "readnext", "waitlock", "claim", "setlocked", "waitnext", "handover"}}
NodesPrivate == \A c, d \in Queued : Me(c) = Me(d) => c = d

\* Every node that was taken is given back: nodes never leak.
NodesReturned == (\A c \in Contexts : pc[c] \in {"out", "in"}) => \A u \in CPUs : count[u] = 0

\* "Alway fair" (arch/riscv/common/Kconfig): whoever calls qspin_lock and is not
\* interrupted any more gets the lock, unless the nodes of its CPU were used up:
\* then it spins on qspin_trylock outside the queue, and nothing is promised.
Innermost(u) == CHOOSE c \in Contexts :
  CpuOf(c) = u /\ \A d \in users : CpuOf(d) = u => Level(d) <= Level(c)
AlwaysFair == \A u \in Observed :
  LET c == Innermost(u)
  IN (pc[c] \notin {"out", "in"}) ~> (pc[c] \in {"in", "fallback"})

\* For every lock, the queued lock is a spin lock; a lock is acquired when the
\* locked byte is set.
Status(c) ==
  CASE pc[c] = "out" -> "out"
    [] pc[c] \in OwnerPCs -> "in"
    [] OTHER -> "want"
Abstract == INSTANCE SpinLock WITH
  CPUs <- Contexts, LockOf <- [c \in Contexts |-> L(c)],
  status <- [c \in Contexts |-> Status(c)]
ImplementsSpinLock == Abstract!Spec

=============================================================================
