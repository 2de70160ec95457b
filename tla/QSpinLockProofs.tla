-------------------------- MODULE QSpinLockProofs ---------------------------
(***************************************************************************)
(* The queued lock on a 32-bit word, for any CPUs, any nesting of          *)
(* interrupts and any number of nodes: it excludes and implements the lock *)
(* of spinlock.h, contexts never share a node, and every node is returned. *)
(*                                                                         *)
(* The inductive invariant has three parts: the nodes of a CPU, which are  *)
(* used like a stack; the queue of a lock, which has one head; and the     *)
(* word, whose locked byte and pending bit each have one owner.            *)
(***************************************************************************)
EXTENDS QSpinLock, TLAPS

(* Most steps are first-order; the others name the SMT solver.             *)
USE Zenon

(* The parts of the words and of the nodes.                                *)
Locked(l) == word[l].locked
Pending(l) == word[l].pending
Tail(l) == word[l].tail
Granted(n) == node[n].locked
Succ(n) == node[n].next

-----------------------------------------------------------------------------
(* The nodes of a CPU are handed out like a stack: the contexts that are   *)
(* counted have the indices below count, in the order of their levels.     *)
TokenPCs == {"readnext", "waitlock", "claim", "setlocked"} \cup HandoverPCs
QueuePCs == {"link", "waitnode"} \cup TokenPCs
NodePCs == {"initnode", "retry", "xchgtail"} \cup QueuePCs
CountedPCs == {"fallback", "release"} \cup NodePCs

Counted(c) == pc[c] \in CountedPCs
HasNode(c) == pc[c] \in NodePCs
InQueue(c) == pc[c] \in QueuePCs

Indices == \A c \in Contexts :
    /\ Counted(c) => idx[c] < count[CpuOf(c)]
    /\ HasNode(c) => idx[c] < MaxNodes
Stacked == \A c, d \in Contexts :
    Counted(c) /\ Counted(d) /\ CpuOf(c) = CpuOf(d) /\ Level(c) < Level(d) => idx[c] < idx[d]
Complete == \A u \in CPUs : \A k \in Nat : k < count[u] =>
    \E c \in Contexts : CpuOf(c) = u /\ Counted(c) /\ idx[c] = k

Counts == Indices /\ Stacked /\ Complete

(* What the next three say of the contexts c and d on one lock, and of the *)
(* nodes of theirs: Me(c) is nobody else's.                                *)
Private == \A c, d \in Contexts : HasNode(c) /\ HasNode(d) /\ Me(c) = Me(d) => c = d

(* A node is clean until somebody can know of it.                          *)
Clean == \A c \in Contexts :
    /\ pc[c] \in {"retry", "xchgtail"} => Succ(Me(c)) = NoNode
    /\ pc[c] \in {"retry", "xchgtail", "link"} => Granted(Me(c)) = 0

(* c has found d in front of it: d is there, and nobody is behind d yet.   *)
Before(d, c) ==
    /\ L(d) = L(c) /\ InQueue(d) /\ d # c
    /\ Succ(Me(d)) = NoNode /\ Tail(L(d)) # Me(d)
Linking ==
    /\ \A c \in Contexts : pc[c] = "link" => \E d \in Contexts : prev[c] = Me(d) /\ Before(d, c)
    /\ \A c, d \in Contexts : pc[c] = "link" /\ pc[d] = "link" /\ prev[c] = prev[d] => c = d

(* Whom d is linked to waits for d.                                        *)
Waits(e, d) == L(e) = L(d) /\ pc[e] = "waitnode" /\ Granted(Me(e)) = 0
Linked ==
    /\ \A d \in Contexts : InQueue(d) /\ Succ(Me(d)) # NoNode =>
          Tail(L(d)) # Me(d) /\ \E e \in Contexts : Me(e) = Succ(Me(d)) /\ Waits(e, d)
    /\ \A c, d \in Contexts : InQueue(c) /\ InQueue(d) /\ Succ(Me(c)) # NoNode
          /\ Succ(Me(c)) = Succ(Me(d)) => c = d

NextRead == \A c \in Contexts :
    /\ next[c] # NoNode => InQueue(c) /\ next[c] = Succ(Me(c))
    /\ pc[c] = "handover" => next[c] # NoNode

Ended == \A l \in Locks : Tail(l) # NoNode =>
    \E d \in Contexts : L(d) = l /\ InQueue(d) /\ Me(d) = Tail(l)

(* One context at a time is the head of the queue.                         *)
AtHead(c) == pc[c] \in TokenPCs \/ (pc[c] = "waitnode" /\ Granted(Me(c)) = 1)
OneHead == \A c \in Contexts : AtHead(c) =>
    /\ Tail(L(c)) # NoNode
    /\ \A d \in Contexts : AtHead(d) /\ L(d) = L(c) => d = c

QueueInv == Clean /\ Linking /\ Linked /\ NextRead /\ Ended /\ OneHead

(* The word: who has set its bits, and what nobody can do meanwhile.       *)
Owns(c) == pc[c] \in OwnerPCs
Pends(c) == pc[c] \in {"undo"} \cup PendingPCs
Exclusive == \A c \in Contexts : Owns(c) =>
    /\ Locked(L(c)) = 1
    /\ \A d \in Contexts : Owns(d) /\ L(d) = L(c) => d = c
OnePending == \A c \in Contexts : Pends(c) =>
    /\ Pending(L(c)) = 1
    /\ \A d \in Contexts : Pends(d) /\ L(d) = L(c) => d = c
BitsOwned == \A l \in Locks :
    /\ Locked(l) = 1 => \E c \in Contexts : L(c) = l /\ Owns(c)
    /\ Pending(l) = 1 => \E c \in Contexts : L(c) = l /\ Pends(c)
Taking == \A c \in Contexts :
    /\ pc[c] \in {"takepending", "claim", "setlocked"} => Locked(L(c)) = 0
    /\ pc[c] \in {"claim", "setlocked"} =>
          \A d \in Contexts : L(d) = L(c) => pc[d] \notin PendingPCs

WordInv == Exclusive /\ OnePending /\ BitsOwned /\ Taking

IInv == TypeOK /\ Counts /\ QueueInv /\ WordInv
-----------------------------------------------------------------------------
(* Contexts, by their CPU and their level.                                 *)
LEMMA ContextType ==
    ASSUME NEW c \in Contexts
    PROVE  CpuOf(c) \in CPUs /\ Level(c) \in Nat /\ Level(c) \in Levels /\ L(c) \in Locks
BY LevelsAssumption DEF Contexts, CpuOf, Level, L, Locks

LEMMA ContextIs ==
    ASSUME NEW c \in Contexts, NEW d \in Contexts, CpuOf(c) = CpuOf(d), Level(c) = Level(d)
    PROVE  c = d
BY SMT DEF Contexts, CpuOf, Level

LEMMA NodesAreCounted == \A c \in Contexts : HasNode(c) => Counted(c)
BY DEF HasNode, Counted, CountedPCs

LEMMA NodesArePrivate ==
    ASSUME TypeOK, Counts
    PROVE  Private
<1> SUFFICES ASSUME NEW c \in Contexts, NEW d \in Contexts, HasNode(c), HasNode(d),
                    Me(c) = Me(d), c # d
             PROVE  FALSE
  BY DEF Private
<1>1. CpuOf(c) = CpuOf(d) /\ idx[c] = idx[d]
  BY DEF Me
<1>2. Counted(c) /\ Counted(d)
  BY NodesAreCounted
<1>3. Level(c) # Level(d)
  BY <1>1, ContextIs
<1>4. idx[c] \in Nat /\ idx[d] \in Nat
  BY DEF TypeOK
<1>5. Level(c) < Level(d) \/ Level(d) < Level(c)
  BY <1>3, ContextType, SMT
<1> QED BY <1>1, <1>2, <1>4, <1>5, SMT DEF Counts, Stacked

LEMMA NodeType ==
    ASSUME TypeOK, Counts, NEW c \in Contexts, HasNode(c)
    PROVE  Me(c) \in Nodes
<1>1. idx[c] \in Nat /\ idx[c] < MaxNodes
  BY DEF TypeOK, Counts, Indices
<1> QED BY <1>1, ContextType, BoundsAssumption, SMT DEF Me, Nodes

LEMMA NoNodeIsNoNode == NoNode \notin Nodes
BY SMT DEF NoNode, Nodes

Moves(c, to) == pc' = [pc EXCEPT ![c] = to]

LEMMA Others ==
    ASSUME TypeOK, NEW c \in Contexts, NEW to, Moves(c, to)
    PROVE  pc'[c] = to /\ \A d \in Contexts : d # c => pc'[d] = pc[d]
BY DEF TypeOK, Moves

-----------------------------------------------------------------------------
(* The stack of nodes.                                                     *)

LEMMA CountsKept ==
    ASSUME TypeOK, Counts, NEW c \in Contexts, NEW to, Moves(c, to), UNCHANGED <<idx, count>>,
           to \in CountedPCs <=> Counted(c), to \in NodePCs => HasNode(c)
    PROVE  Counts'
<1>1. \A d \in Contexts : (Counted(d)' <=> Counted(d)) /\ (HasNode(d)' => HasNode(d))
  BY Others DEF Counted, HasNode
<1>2. Indices'
  BY <1>1 DEF Counts, Indices
<1>3. Stacked'
  BY <1>1 DEF Counts, Stacked
<1>4. Complete'
  BY <1>1 DEF Counts, Complete
<1> QED BY <1>2, <1>3, <1>4 DEF Counts

(* Who runs is above everybody else of its CPU that is counted.            *)
LEMMA OnTop ==
    ASSUME NEW c \in Contexts, Running(c), NEW d \in Contexts, Counted(d), d # c,
           CpuOf(d) = CpuOf(c)
    PROVE  Level(d) < Level(c)
<1>1. ~ (Level(d) > Level(c))
  BY DEF Running, Counted, CountedPCs, NodePCs, QueuePCs, TokenPCs, HandoverPCs
<1>2. Level(d) # Level(c)
  BY ContextIs
<1> QED BY <1>1, <1>2, ContextType, SMT

LEMMA QueueCounts ==
    ASSUME TypeOK, Counts, NEW c \in Contexts, Queue(c)
    PROVE  Counts'
<1> DEFINE u == CpuOf(c)
<1>t. /\ u \in CPUs /\ count[u] \in Nat /\ MaxNodes \in Nat
      /\ \A d \in Contexts : idx[d] \in Nat /\ CpuOf(d) \in CPUs /\ count[CpuOf(d)] \in Nat
  BY ContextType, BoundsAssumption DEF TypeOK
<1>1. /\ pc[c] = "queue" /\ Running(c) /\ idx'[c] = count[u]
      /\ \A d \in Contexts : d # c => idx'[d] = idx[d]
      /\ \A v \in CPUs : count'[v] = IF v = u THEN count[v] + 1 ELSE count[v]
  BY <1>t DEF Queue, At, TypeOK
<1>2. pc'[c] = (IF count[u] >= MaxNodes THEN "fallback" ELSE "initnode")
      /\ \A d \in Contexts : d # c => pc'[d] = pc[d]
  BY DEF Queue, Goto, TypeOK
<1>3. ~ Counted(c) /\ (HasNode(c)' => count[u] < MaxNodes) /\ Counted(c)'
  BY <1>1, <1>2, <1>t, SMT
     DEF Counted, CountedPCs, HasNode, NodePCs, QueuePCs, TokenPCs, HandoverPCs
<1>4. \A d \in Contexts : d # c => (Counted(d)' <=> Counted(d)) /\ (HasNode(d)' <=> HasNode(d))
  BY <1>2 DEF Counted, HasNode
<1>5. Indices'
  BY <1>t, <1>1, <1>3, <1>4, SMT DEF Counts, Indices
<1>6. Stacked'
  <2> SUFFICES ASSUME NEW d \in Contexts, NEW e \in Contexts, Counted(d)', Counted(e)',
                      CpuOf(d) = CpuOf(e), Level(d) < Level(e)
               PROVE  idx'[d] < idx'[e]
    BY DEF Stacked
  <2>1. CASE d # c /\ e # c
    BY <1>1, <1>4, <2>1 DEF Counts, Stacked
  <2>2. CASE d # c /\ e = c
    BY <1>t, <1>1, <1>4, <2>2 DEF Counts, Indices
  <2>3. CASE d = c /\ e # c
    BY <1>1, <1>4, <2>3, OnTop, ContextType, SMT
  <2>4. CASE d = c /\ e = c
    BY <2>4, ContextType, SMT
  <2> QED BY <2>1, <2>2, <2>3, <2>4
<1>7. Complete'
  <2> SUFFICES ASSUME NEW v \in CPUs, NEW k \in Nat, k < count'[v]
               PROVE  \E d \in Contexts : CpuOf(d) = v /\ Counted(d)' /\ idx'[d] = k
    BY DEF Complete
  <2>1. CASE v = u /\ k = count[u]
    BY <1>1, <1>3, <2>1
  <2>2. CASE ~ (v = u /\ k = count[u])
    <3>1. k < count[v]
      BY <1>1, <1>t, <2>2, SMT DEF TypeOK
    <3>2. PICK d \in Contexts : CpuOf(d) = v /\ Counted(d) /\ idx[d] = k
      BY <3>1 DEF Counts, Complete
    <3> QED BY <1>1, <1>3, <1>4, <3>2
  <2> QED BY <2>1, <2>2
<1> QED BY <1>5, <1>6, <1>7 DEF Counts

LEMMA ReleaseCounts ==
    ASSUME TypeOK, Counts, NEW c \in Contexts, Release(c)
    PROVE  Counts' /\ count' \in [CPUs -> Nat]
<1> DEFINE u == CpuOf(c)
<1>t. /\ u \in CPUs /\ count[u] \in Nat
      /\ \A d \in Contexts : idx[d] \in Nat /\ CpuOf(d) \in CPUs /\ count[CpuOf(d)] \in Nat
  BY ContextType DEF TypeOK
<1>1. /\ pc[c] = "release" /\ Running(c)
      /\ \A d \in Contexts : d # c => idx'[d] = idx[d]
      /\ count' = [count EXCEPT ![u] = @ - 1]
  BY DEF Release, At, TypeOK
<1>2. pc'[c] = "in" /\ \A d \in Contexts : d # c => pc'[d] = pc[d]
  BY DEF Release, Goto, TypeOK
<1>3. Counted(c) /\ ~ Counted(c)' /\ ~ HasNode(c)'
  BY <1>1, <1>2
     DEF Counted, CountedPCs, HasNode, NodePCs, QueuePCs, TokenPCs, HandoverPCs
<1>4. \A d \in Contexts : d # c => (Counted(d)' <=> Counted(d)) /\ (HasNode(d)' <=> HasNode(d))
  BY <1>2 DEF Counted, HasNode
<1>5. \A d \in Contexts : d # c /\ Counted(d) /\ CpuOf(d) = u => idx[d] < idx[c]
  BY <1>1, <1>3, OnTop DEF Counts, Stacked
<1>6. idx[c] < count[u]
  BY <1>3 DEF Counts, Indices
<1>7. idx[c] = count[u] - 1
  <2>1. count[u] - 1 \in Nat /\ count[u] - 1 < count[u]
    BY <1>t, <1>6, SMT
  <2>2. PICK d \in Contexts : CpuOf(d) = u /\ Counted(d) /\ idx[d] = count[u] - 1
    BY <1>t, <2>1 DEF Counts, Complete
  <2> QED BY <1>t, <1>5, <1>6, <2>2, SMT
<1>8. /\ count' \in [CPUs -> Nat] /\ count'[u] = count[u] - 1
      /\ \A v \in CPUs : v # u => count'[v] = count[v]
  BY <1>t, <1>1, <1>7 DEF TypeOK
<1>9. Indices'
  <2> SUFFICES ASSUME NEW d \in Contexts, d # c, Counted(d)
               PROVE  idx'[d] < count'[CpuOf(d)] /\ (HasNode(d) => idx'[d] < MaxNodes)
    BY <1>3, <1>4, NodesAreCounted DEF Indices
  <2>1. idx[d] < count[CpuOf(d)] /\ (HasNode(d) => idx[d] < MaxNodes)
    BY DEF Counts, Indices
  <2> QED BY <1>t, <1>1, <1>5, <1>7, <1>8, <2>1
<1>10. Stacked'
  BY <1>1, <1>3, <1>4 DEF Counts, Stacked
<1>11. Complete'
  <2> SUFFICES ASSUME NEW v \in CPUs, NEW k \in Nat, k < count'[v]
               PROVE  \E d \in Contexts : CpuOf(d) = v /\ Counted(d)' /\ idx'[d] = k
    BY DEF Complete
  <2>1. k < count[v] /\ (v = u => k < count[u] - 1)
    BY <1>t, <1>8, SMT
  <2>2. PICK d \in Contexts : CpuOf(d) = v /\ Counted(d) /\ idx[d] = k
    BY <2>1 DEF Counts, Complete
  <2>3. d # c
    BY <1>7, <1>t, <2>1, <2>2, SMT
  <2> QED BY <1>1, <1>4, <2>2, <2>3
<1> QED BY <1>8, <1>9, <1>10, <1>11 DEF Counts

-----------------------------------------------------------------------------
(* The queue.                                                              *)

(* What c does outside the queue, it does not matter to.                   *)
LEMMA Aside ==
    ASSUME TypeOK, QueueInv, NEW c \in Contexts, NEW to, Moves(c, to),
           ~ InQueue(c), to \notin QueuePCs \cup {"retry", "xchgtail"},
           UNCHANGED <<node, prev, next>>, \A d \in Contexts : d # c => idx'[d] = idx[d],
           \A l \in Locks : Tail(l)' = Tail(l)
    PROVE  QueueInv'
<1>1. pc'[c] = to /\ \A d \in Contexts : d # c => pc'[d] = pc[d] /\ Me(d)' = Me(d)
  BY Others DEF Me
<1>2. \A d \in Contexts : InQueue(d)' <=> InQueue(d)
  BY <1>1 DEF InQueue
<1>3. pc'[c] \notin TokenPCs \cup {"link", "waitnode", "retry", "xchgtail"}
      /\ pc[c] \notin TokenPCs \cup {"link", "waitnode"}
  BY <1>1 DEF InQueue, QueuePCs
<1>4. Clean'
  BY <1>1, <1>3 DEF QueueInv, Clean, Succ, Granted
<1>5. Linking'
  BY <1>1, <1>2, <1>3, ContextType, SMT DEF QueueInv, Linking, Before, Succ
<1>6. Linked'
  BY <1>1, <1>2, <1>3, ContextType, SMT DEF QueueInv, Linked, Waits, Succ, Granted
<1>7. NextRead'
  BY <1>1, <1>2, <1>3 DEF QueueInv, NextRead, Succ, HandoverPCs, TokenPCs
<1>8. Ended'
  BY <1>1, <1>2, <1>3 DEF QueueInv, Ended
<1>9. OneHead'
  BY <1>1, <1>3, ContextType, SMT DEF QueueInv, OneHead, AtHead, Granted
<1> QED BY <1>4, <1>5, <1>6, <1>7, <1>8, <1>9 DEF QueueInv

(* c makes its node ready, which nobody knows.                             *)
LEMMA Prepares ==
    ASSUME TypeOK, Counts, QueueInv, NEW c \in Contexts, NEW to \in {"retry", "xchgtail"},
           Moves(c, to), pc[c] \in {"initnode", "retry"}, UNCHANGED <<idx, prev, next, word>>,
           node'[Me(c)] = [locked |-> 0, next |-> NoNode],
           \A n \in Nodes : n # Me(c) => node'[n] = node[n]
    PROVE  QueueInv'
<1>1. pc'[c] = to /\ \A d \in Contexts : Me(d)' = Me(d) /\ (d # c => pc'[d] = pc[d])
  BY Others DEF Me
<1>2. \A d \in Contexts : InQueue(d)' <=> InQueue(d)
  BY <1>1 DEF InQueue, QueuePCs, TokenPCs, HandoverPCs
<1>3. {pc[c], pc'[c]} \cap QueuePCs = {} /\ HasNode(c) /\ ~ InQueue(c)
  BY <1>1 DEF QueuePCs, TokenPCs, HandoverPCs, HasNode, NodePCs, InQueue
<1>4. \A d \in Contexts : HasNode(d) /\ d # c => node'[Me(d)] = node[Me(d)]
  BY <1>3, NodeType, NodesArePrivate DEF Private
<1>5. \A d \in Contexts : (InQueue(d) \/ pc[d] \in {"retry", "xchgtail", "link", "waitnode"}) => HasNode(d)
  BY DEF InQueue, HasNode, NodePCs, QueuePCs
<1>6. Clean'
  BY <1>1, <1>4, <1>5, SMT DEF QueueInv, Clean, Succ, Granted
<1>7. Linking'
  BY <1>1, <1>2, <1>3, <1>4, <1>5, SMT DEF QueueInv, Linking, Before, Succ, Tail, QueuePCs
<1>8. Linked'
  BY <1>1, <1>2, <1>3, <1>4, <1>5, SMT DEF QueueInv, Linked, Waits, Succ, Granted, Tail, QueuePCs
<1>9. NextRead'
  BY <1>1, <1>2, <1>3, <1>4, <1>5, SMT DEF QueueInv, NextRead, Succ, QueuePCs, TokenPCs, HandoverPCs
<1>10. Ended'
  BY <1>1, <1>2 DEF QueueInv, Ended, Tail
<1>11. OneHead'
  BY <1>1, <1>3, <1>4, <1>5, SMT DEF QueueInv, OneHead, AtHead, Granted, Tail, QueuePCs
<1> QED BY <1>6, <1>7, <1>8, <1>9, <1>10, <1>11 DEF QueueInv

(* xchg_tail: c is behind the last one, or the first.                      *)
LEMMA TailStep ==
    ASSUME TypeOK, Counts, QueueInv, NEW c \in Contexts, xchg_tail(c)
    PROVE  QueueInv'
<1>t. /\ L(c) \in Locks /\ \A d \in Contexts : L(d) \in Locks
      /\ pc \in [Contexts -> PCs] /\ prev \in [Contexts -> Nodes \cup {NoNode}]
  BY ContextType DEF TypeOK
<1>1. /\ pc[c] = "xchgtail" /\ UNCHANGED <<idx, node, next>>
      /\ pc' = [pc EXCEPT ![c] = IF Tail(L(c)) # NoNode THEN "link" ELSE "waitlock"]
      /\ prev' = [prev EXCEPT ![c] = Tail(L(c))]
  BY DEF xchg_tail, At, Goto, W, Tail
<1>2. Tail(L(c))' = Me(c) /\ \A l \in Locks : l # L(c) => Tail(l)' = Tail(l)
  BY <1>t DEF xchg_tail, SetWord, W, Tail, TypeOK, Words
<1>3. /\ pc'[c] = (IF Tail(L(c)) # NoNode THEN "link" ELSE "waitlock")
      /\ prev'[c] = Tail(L(c))
      /\ \A d \in Contexts : Me(d)' = Me(d) /\ (d # c => pc'[d] = pc[d] /\ prev'[d] = prev[d])
  BY <1>t, <1>1 DEF Me
<1>4. /\ ~ InQueue(c) /\ HasNode(c) /\ InQueue(c)' /\ ~ AtHead(c)
      /\ \A d \in Contexts : d # c => (InQueue(d)' <=> InQueue(d))
  BY <1>1, <1>3 DEF InQueue, HasNode, NodePCs, QueuePCs, TokenPCs, HandoverPCs, AtHead
<1>5. \A d \in Contexts : (InQueue(d) \/ pc[d] \in {"retry", "xchgtail", "link", "waitnode"}) => HasNode(d)
  BY DEF InQueue, HasNode, NodePCs, QueuePCs
<1>6. \A d \in Contexts : HasNode(d) => Me(d) \in Nodes /\ Me(d) # NoNode /\ (d # c => Me(d) # Me(c))
  BY <1>4, NodeType, NodesArePrivate, NoNodeIsNoNode DEF Private
<1>7. Succ(Me(c)) = NoNode /\ Granted(Me(c)) = 0
  BY <1>1 DEF QueueInv, Clean
<1>8. Clean'
  BY <1>1, <1>3, <1>7 DEF QueueInv, Clean, Succ, Granted
<1>9. Linking'
  <2>1. ASSUME NEW e \in Contexts, pc'[e] = "link"
        PROVE  \E d \in Contexts : prev'[e] = Me(d)' /\ Before(d, e)'
    <3>1. CASE e = c
      <4>1. PICK d \in Contexts : L(d) = L(c) /\ InQueue(d) /\ Me(d) = Tail(L(c))
        BY <1>t, <1>3, <2>1, <3>1 DEF QueueInv, Ended
      <4>2. d # c /\ Succ(Me(d)) = NoNode
        BY <1>4, <4>1 DEF QueueInv, Linked
      <4> QED BY <1>1, <1>2, <1>3, <1>4, <1>5, <1>6, <3>1, <4>1, <4>2, SMT DEF Before, Succ
    <3>2. CASE e # c
      <4>1. PICK d \in Contexts : prev[e] = Me(d) /\ Before(d, e)
        BY <1>3, <2>1, <3>2 DEF QueueInv, Linking
      <4>2. d # c /\ HasNode(d)
        BY <1>4, <1>5, <4>1 DEF Before
      <4> QED BY <1>t, <1>1, <1>2, <1>3, <1>4, <1>6, <3>2, <4>1, <4>2 DEF Before, Succ
    <3> QED BY <3>1, <3>2
  <2>2. ASSUME NEW e \in Contexts, pc[e] = "link" PROVE prev[e] # Tail(L(c))
    <3>1. PICK d \in Contexts : prev[e] = Me(d) /\ Before(d, e)
      BY <2>2 DEF QueueInv, Linking
    <3>2. SUFFICES ASSUME Tail(L(c)) = Me(d) PROVE FALSE
      BY <3>1
    <3>3. HasNode(d) /\ Me(d) # NoNode
      BY <1>5, <1>6, <3>1 DEF Before
    <3>4. PICK f \in Contexts : L(f) = L(c) /\ InQueue(f) /\ Me(f) = Tail(L(c))
      BY <1>t, <3>2, <3>3 DEF QueueInv, Ended
    <3>5. f = d
      BY <1>5, <3>2, <3>3, <3>4, NodesArePrivate DEF Private
    <3> QED BY <3>1, <3>2, <3>4, <3>5 DEF Before
  <2>3. ASSUME NEW d \in Contexts, NEW e \in Contexts, pc'[d] = "link", pc'[e] = "link",
               prev'[d] = prev'[e]
        PROVE  d = e
    BY <1>3, <2>2, <2>3 DEF QueueInv, Linking
  <2> QED BY <2>1, <2>3 DEF Linking
<1>10. Linked'
  BY <1>t, <1>1, <1>2, <1>3, <1>4, <1>5, <1>6, <1>7, SMT DEF QueueInv, Linked, Waits, Succ, Granted
<1>11. NextRead'
  BY <1>1, <1>3, <1>4, <1>7, SMT DEF QueueInv, NextRead, Succ
<1>12. Ended'
  BY <1>2, <1>3, <1>4 DEF QueueInv, Ended
<1>13. OneHead'
  <2>1. \A d \in Contexts : d # c => (AtHead(d)' <=> AtHead(d))
    BY <1>1, <1>3 DEF AtHead, Granted
  <2>2. AtHead(c)' => Tail(L(c)) = NoNode
    BY <1>3 DEF AtHead, TokenPCs, HandoverPCs
  <2>3. \A d \in Contexts : AtHead(d)' => Tail(L(d))' # NoNode
    BY <1>t, <1>2, <1>4, <1>6, <2>1 DEF QueueInv, OneHead
  <2>4. \A d \in Contexts : AtHead(c)' /\ L(d) = L(c) => ~ AtHead(d)
    BY <2>2 DEF QueueInv, OneHead
  <2>5. \A d, e \in Contexts : AtHead(d)' /\ AtHead(e)' /\ L(e) = L(d) => e = d
    BY <2>1, <2>4 DEF QueueInv, OneHead
  <2> QED BY <2>3, <2>5 DEF OneHead
<1> QED BY <1>8, <1>9, <1>10, <1>11, <1>12, <1>13 DEF QueueInv

(* WRITE_ONCE(prev->next, node): the one in front of c learns of c.        *)
LEMMA LinkStep ==
    ASSUME TypeOK, Counts, QueueInv, NEW c \in Contexts, Link(c)
    PROVE  QueueInv'
<1>t. /\ \A d \in Contexts : L(d) \in Locks
      /\ pc \in [Contexts -> PCs] /\ prev \in [Contexts -> Nodes \cup {NoNode}]
      /\ node \in [Nodes -> [locked : {0, 1}, next : Nodes \cup {NoNode}]]
  BY ContextType DEF TypeOK
<1>1. /\ pc[c] = "link" /\ UNCHANGED <<idx, word, next>>
      /\ pc'[c] = "waitnode"
      /\ \A d \in Contexts : Me(d)' = Me(d) /\ (d # c => pc'[d] = pc[d] /\ prev'[d] = prev[d])
  BY <1>t DEF Link, At, Goto, Me
<1>2. \A d \in Contexts : (InQueue(d)' <=> InQueue(d))
  BY <1>1 DEF InQueue, QueuePCs
<1>3. InQueue(c) /\ HasNode(c) /\ Me(c) \in Nodes /\ Me(c) # NoNode
  <2>1. InQueue(c) /\ HasNode(c)
    BY <1>1 DEF InQueue, HasNode, NodePCs, QueuePCs
  <2> QED BY <2>1, NodeType, NoNodeIsNoNode
<1>4. \A d \in Contexts : (InQueue(d) \/ pc[d] \in {"retry", "xchgtail", "link", "waitnode"}) => HasNode(d)
  BY DEF InQueue, HasNode, NodePCs, QueuePCs
<1>5. PICK b \in Contexts : prev[c] = Me(b) /\ Before(b, c)
  BY <1>1 DEF QueueInv, Linking
<1>6. L(b) = L(c) /\ InQueue(b) /\ HasNode(b) /\ b # c /\ Me(b) \in Nodes
      /\ Succ(Me(b)) = NoNode /\ Tail(L(b)) # Me(b)
  BY <1>4, <1>5, NodeType DEF Before
<1>7. /\ \A n \in Nodes : node'[n].locked = node[n].locked
      /\ \A n \in Nodes : n # Me(b) => node'[n] = node[n]
      /\ node'[Me(b)].next = Me(c)
  BY <1>t, <1>5, <1>6 DEF Link
<1>8. \A d \in Contexts : HasNode(d) => Me(d) \in Nodes /\ node'[Me(d)].locked = node[Me(d)].locked
  BY <1>7, NodeType
<1>9. \A d \in Contexts : HasNode(d) /\ d # b => Me(d) # Me(b) /\ node'[Me(d)] = node[Me(d)]
  BY <1>6, <1>7, <1>8, NodesArePrivate DEF Private
<1>10. Clean'
  <2>1. pc[b] \notin {"retry", "xchgtail"}
    BY <1>6 DEF InQueue, QueuePCs, TokenPCs, HandoverPCs
  <2> QED BY <1>1, <1>4, <1>8, <1>9, <2>1, SMT DEF QueueInv, Clean, Succ, Granted
<1>11. Linking'
  <2>1. ASSUME NEW e \in Contexts, pc'[e] = "link"
        PROVE  \E d \in Contexts : prev'[e] = Me(d)' /\ Before(d, e)'
    <3>1. e # c /\ pc[e] = "link" /\ prev'[e] = prev[e]
      BY <1>1, <2>1
    <3>2. PICK d \in Contexts : prev[e] = Me(d) /\ Before(d, e)
      BY <3>1 DEF QueueInv, Linking
    <3>3. d # b /\ HasNode(d)
      BY <1>1, <1>4, <1>5, <3>1, <3>2 DEF QueueInv, Linking, Before
    <3> QED BY <1>1, <1>2, <1>9, <3>1, <3>2, <3>3 DEF Before, Succ, Tail
  <2>2. ASSUME NEW d \in Contexts, NEW e \in Contexts, pc'[d] = "link", pc'[e] = "link",
               prev'[d] = prev'[e]
        PROVE  d = e
    BY <1>1, <2>2 DEF QueueInv, Linking
  <2> QED BY <2>1, <2>2 DEF Linking
<1>12. Linked'
  <2>1. \A d \in Contexts : InQueue(d) => Succ(Me(d)) # Me(c)
    BY <1>1, <1>3, <1>4, NodesArePrivate, SMT DEF QueueInv, Linked, Waits, Private
  <2>2. Waits(c, b)'
    BY <1>1, <1>3, <1>6, <1>8 DEF QueueInv, Clean, Waits, Granted
  <2>3. ASSUME NEW d \in Contexts, InQueue(d)', Succ(Me(d))' # NoNode
        PROVE  Tail(L(d))' # Me(d)' /\ \E e \in Contexts : Me(e)' = Succ(Me(d))' /\ Waits(e, d)'
    <3>1. CASE d = b
      BY <1>1, <1>6, <1>7, <2>2, <3>1 DEF Succ, Tail
    <3>2. CASE d # b
      <4>1. InQueue(d) /\ HasNode(d) /\ Succ(Me(d)) # NoNode /\ Succ(Me(d))' = Succ(Me(d))
        BY <1>1, <1>2, <1>4, <1>9, <2>3, <3>2 DEF Succ
      <4>2. PICK e \in Contexts : Me(e) = Succ(Me(d)) /\ Waits(e, d)
        BY <4>1 DEF QueueInv, Linked
      <4>3. Waits(e, d)'
        BY <1>1, <1>4, <1>8, <4>2 DEF Waits, Granted
      <4>4. Tail(L(d))' # Me(d)'
        BY <1>1, <4>1 DEF QueueInv, Linked, Tail
      <4> QED BY <1>1, <4>1, <4>2, <4>3, <4>4
    <3> QED BY <3>1, <3>2
  <2>4. ASSUME NEW d \in Contexts, NEW e \in Contexts, InQueue(d)', InQueue(e)',
               Succ(Me(d))' # NoNode, Succ(Me(d))' = Succ(Me(e))'
        PROVE  d = e
    <3>1. InQueue(d) /\ InQueue(e) /\ HasNode(d) /\ HasNode(e)
      BY <1>2, <1>4, <2>4
    <3>2. \A f \in {d, e} : f # b => Succ(Me(f))' = Succ(Me(f))
      BY <1>1, <1>9, <3>1 DEF Succ
    <3>3. Succ(Me(b))' = Me(c)
      BY <1>1, <1>7 DEF Succ
    <3> QED BY <2>1, <2>4, <3>1, <3>2, <3>3 DEF QueueInv, Linked
  <2> QED BY <2>3, <2>4 DEF Linked
<1>13. NextRead'
  <2>1. next[b] = NoNode
    BY <1>6 DEF QueueInv, NextRead
  <2> QED BY <1>1, <1>2, <1>4, <1>9, <2>1, SMT DEF QueueInv, NextRead, Succ
<1>14. Ended'
  BY <1>1, <1>2 DEF QueueInv, Ended, Tail
<1>15. OneHead'
  <2>1. ~ AtHead(c)'
    BY <1>1, <1>3, <1>8, SMT DEF QueueInv, Clean, AtHead, Granted, TokenPCs, HandoverPCs
  <2>2. \A d \in Contexts : AtHead(d)' => AtHead(d)
    BY <1>1, <1>4, <1>8, <2>1 DEF AtHead, Granted
  <2> QED BY <1>1, <2>2 DEF QueueInv, OneHead, Tail
<1> QED BY <1>10, <1>11, <1>12, <1>13, <1>14, <1>15 DEF QueueInv

(* The head of the queue goes on, and may look for its successor.          *)
LEMMA HeadMoves ==
    ASSUME TypeOK, Counts, QueueInv, NEW c \in Contexts, AtHead(c), NEW to \in TokenPCs, Moves(c, to),
           UNCHANGED <<idx, node, prev>>, \A l \in Locks : Tail(l)' = Tail(l),
           next'[c] \in {next[c], Succ(Me(c))}, to = "handover" => next'[c] # NoNode,
           \A d \in Contexts : d # c => next'[d] = next[d]
    PROVE  QueueInv'
<1>1. pc'[c] = to /\ \A d \in Contexts : Me(d)' = Me(d) /\ (d # c => pc'[d] = pc[d])
  BY Others DEF Me
<1>s. \A d \in Contexts : Succ(Me(d))' = Succ(Me(d)) /\ Granted(Me(d))' = Granted(Me(d))
  BY <1>1 DEF Succ, Granted
<1>2. /\ \A d \in Contexts : InQueue(d)' <=> InQueue(d)
      /\ \A d \in Contexts : AtHead(d)' <=> AtHead(d)
  BY <1>1 DEF InQueue, QueuePCs, AtHead, Granted
<1>3. /\ InQueue(c) /\ ~ Waits(c, c)
      /\ to \notin {"link", "retry", "xchgtail"} /\ pc[c] \notin {"link", "retry", "xchgtail"}
  BY SMT DEF InQueue, QueuePCs, AtHead, TokenPCs, HandoverPCs, Waits
<1>4. Clean'
  <2>1. \A d \in Contexts : pc'[d] \in {"retry", "xchgtail", "link"} => pc[d] = pc'[d]
    BY <1>1, <1>3
  <2> QED BY <1>s, <2>1 DEF QueueInv, Clean
<1>5. Linking'
  <2>1. \A d, e \in Contexts : Before(d, e) => Before(d, e)'
    BY <1>1, <1>2, <1>s, ContextType DEF Before
  <2>2. \A e \in Contexts : pc'[e] = "link" => pc[e] = "link" /\ prev'[e] = prev[e]
    BY <1>1, <1>3
  <2> QED BY <1>1, <2>1, <2>2 DEF QueueInv, Linking
<1>6. Linked'
  <2>1. \A d, e \in Contexts : Waits(e, d) => Waits(e, d)'
    BY <1>1, <1>3 DEF Waits, Granted
  <2> QED BY <1>1, <1>2, <1>s, <2>1, ContextType, SMT DEF QueueInv, Linked
<1>7. NextRead'
  BY <1>1, <1>2, <1>3, <1>s DEF QueueInv, NextRead
<1>8. Ended'
  BY <1>1, <1>2 DEF QueueInv, Ended
<1>9. OneHead'
  BY <1>1, <1>2, ContextType DEF QueueInv, OneHead
<1> QED BY <1>4, <1>5, <1>6, <1>7, <1>8, <1>9 DEF QueueInv

(* The cmpxchg of the head: nobody is behind it, and the queue is empty.   *)
LEMMA ClaimStep ==
    ASSUME TypeOK, Counts, QueueInv, NEW c \in Contexts, pc[c] = "claim", Moves(c, "release"),
           Tail(L(c)) = Me(c), Tail(L(c))' = NoNode,
           \A l \in Locks : l # L(c) => Tail(l)' = Tail(l),
           UNCHANGED <<idx, node, prev, next>>
    PROVE  QueueInv'
<1>1. pc'[c] = "release" /\ \A d \in Contexts : Me(d)' = Me(d) /\ (d # c => pc'[d] = pc[d])
  BY Others DEF Me
<1>s. \A d \in Contexts : Succ(Me(d))' = Succ(Me(d)) /\ Granted(Me(d))' = Granted(Me(d))
  BY <1>1 DEF Succ, Granted
<1>2. /\ InQueue(c) /\ AtHead(c) /\ ~ InQueue(c)' /\ ~ AtHead(c)'
      /\ \A d \in Contexts : d # c => (InQueue(d)' <=> InQueue(d)) /\ (AtHead(d)' <=> AtHead(d))
  BY <1>1 DEF InQueue, QueuePCs, TokenPCs, HandoverPCs, AtHead, Granted
<1>3. \A d \in Contexts : InQueue(d) => Me(d) # NoNode
  BY NodeType, NoNodeIsNoNode DEF InQueue, HasNode, NodePCs
<1>4. \A d \in Contexts : Tail(L(d))' # NoNode => Tail(L(d))' = Tail(L(d))
  BY ContextType
<1>5. Clean'
  <2>1. \A d \in Contexts : pc'[d] \in {"retry", "xchgtail", "link"} => pc[d] = pc'[d]
    BY <1>1
  <2> QED BY <1>s, <2>1 DEF QueueInv, Clean
<1>6. Linking'
  <2>1. ASSUME NEW e \in Contexts, pc'[e] = "link"
        PROVE  \E d \in Contexts : prev'[e] = Me(d)' /\ Before(d, e)'
    <3>1. PICK d \in Contexts : prev[e] = Me(d) /\ Before(d, e)
      BY <1>1, <2>1 DEF QueueInv, Linking
    <3>2. d # c
      BY <3>1 DEF Before
    <3>3. Tail(L(d))' # Me(d)
      BY <1>3, <1>4, <3>1 DEF Before
    <3> QED BY <1>1, <1>2, <1>s, <3>1, <3>2, <3>3 DEF Before
  <2>2. \A e \in Contexts : pc'[e] = "link" => pc[e] = "link" /\ prev'[e] = prev[e]
    BY <1>1
  <2> QED BY <2>1, <2>2 DEF QueueInv, Linking
<1>7. Linked'
  <2>1. \A d, e \in Contexts : Waits(e, d) => Waits(e, d)'
    BY <1>1 DEF Waits, Granted
  <2>2. \A d \in Contexts : InQueue(d)' => InQueue(d)
    BY <1>2
  <2>3. ASSUME NEW d \in Contexts, InQueue(d)', Succ(Me(d))' # NoNode
        PROVE  Tail(L(d))' # Me(d)' /\ \E e \in Contexts : Me(e)' = Succ(Me(d))' /\ Waits(e, d)'
    <3>1. InQueue(d) /\ Succ(Me(d)) # NoNode
      BY <1>s, <2>2, <2>3
    <3>2. Tail(L(d)) # Me(d) /\ \E e \in Contexts : Me(e) = Succ(Me(d)) /\ Waits(e, d)
      BY <3>1 DEF QueueInv, Linked
    <3>3. Tail(L(d))' # Me(d)
      BY <1>3, <1>4, <3>1, <3>2
    <3> QED BY <1>1, <1>s, <2>1, <3>2, <3>3
  <2> QED BY <1>s, <2>2, <2>3, SMT DEF QueueInv, Linked
<1>8. NextRead'
  <2>1. Succ(Me(c)) = NoNode
    BY <1>2 DEF QueueInv, Linked
  <2> QED BY <1>1, <1>2, <1>3, <1>s, <2>1 DEF QueueInv, NextRead
<1>9. Ended'
  <2> SUFFICES ASSUME NEW l \in Locks, Tail(l)' # NoNode
               PROVE  \E d \in Contexts : L(d) = l /\ InQueue(d)' /\ Me(d)' = Tail(l)'
    BY DEF Ended
  <2>1. l # L(c) /\ Tail(l)' = Tail(l)
    OBVIOUS
  <2>2. PICK d \in Contexts : L(d) = l /\ InQueue(d) /\ Me(d) = Tail(l)
    BY <2>1 DEF QueueInv, Ended
  <2> QED BY <1>1, <1>2, <2>1, <2>2
<1>10. OneHead'
  <2>1. \A d \in Contexts : AtHead(d)' => AtHead(d) /\ L(d) # L(c)
    BY <1>2 DEF QueueInv, OneHead
  <2> QED BY <2>1, ContextType DEF QueueInv, OneHead
<1> QED BY <1>5, <1>6, <1>7, <1>8, <1>9, <1>10 DEF QueueInv

(* arch_mcs_spin_unlock_contended: the next one is the head.               *)
LEMMA HandoverStep ==
    ASSUME TypeOK, Counts, QueueInv, NEW c \in Contexts, Handover(c)
    PROVE  QueueInv'
<1>t. /\ \A d \in Contexts : L(d) \in Locks
      /\ pc \in [Contexts -> PCs] /\ next \in [Contexts -> Nodes \cup {NoNode}]
      /\ node \in [Nodes -> [locked : {0, 1}, next : Nodes \cup {NoNode}]]
  BY ContextType DEF TypeOK
<1>1. /\ pc[c] = "handover" /\ UNCHANGED <<idx, word, prev>> /\ pc'[c] = "release" /\ next'[c] = NoNode
      /\ \A d \in Contexts : Me(d)' = Me(d) /\ (d # c => pc'[d] = pc[d] /\ next'[d] = next[d])
  BY <1>t DEF Handover, At, Goto, Me
<1>2. /\ InQueue(c) /\ AtHead(c) /\ ~ InQueue(c)' /\ ~ AtHead(c)'
      /\ \A d \in Contexts : d # c => (InQueue(d)' <=> InQueue(d))
  BY <1>1 DEF InQueue, QueuePCs, TokenPCs, HandoverPCs, AtHead
<1>3. \A d \in Contexts : (InQueue(d) \/ pc[d] \in {"retry", "xchgtail", "link", "waitnode"}) => HasNode(d)
  BY DEF InQueue, HasNode, NodePCs, QueuePCs
<1>4. next[c] = Succ(Me(c)) /\ Succ(Me(c)) # NoNode
  BY <1>1 DEF QueueInv, NextRead
<1>5. PICK s \in Contexts : Me(s) = Succ(Me(c)) /\ Waits(s, c)
  BY <1>2, <1>4 DEF QueueInv, Linked
<1>6. HasNode(s) /\ Me(s) \in Nodes /\ s # c /\ L(s) = L(c) /\ pc[s] = "waitnode"
  BY <1>1, <1>3, <1>5, NodeType DEF Waits
<1>7. /\ \A n \in Nodes : node'[n].next = node[n].next
      /\ \A n \in Nodes : n # Me(s) => node'[n] = node[n]
      /\ node'[Me(s)].locked = 1
  BY <1>t, <1>4, <1>5, <1>6 DEF Handover
<1>8. \A d \in Contexts : HasNode(d) => Me(d) \in Nodes /\ node'[Me(d)].next = node[Me(d)].next
  BY <1>7, NodeType
<1>9. \A d \in Contexts : HasNode(d) /\ d # s => Me(d) # Me(s) /\ node'[Me(d)] = node[Me(d)]
  BY <1>6, <1>7, <1>8, NodesArePrivate DEF Private
<1>10. Clean'
  BY <1>1, <1>3, <1>6, <1>8, <1>9, SMT DEF QueueInv, Clean, Succ, Granted
<1>11. Linking'
  <2>1. ASSUME NEW e \in Contexts, pc'[e] = "link"
        PROVE  \E d \in Contexts : prev'[e] = Me(d)' /\ Before(d, e)'
    <3>1. PICK d \in Contexts : prev[e] = Me(d) /\ Before(d, e)
      BY <1>1, <2>1 DEF QueueInv, Linking
    <3>2. d # c /\ HasNode(d)
      BY <1>3, <1>4, <3>1 DEF Before
    <3> QED BY <1>1, <1>2, <1>8, <3>1, <3>2 DEF Before, Succ, Tail
  <2> QED BY <1>1, <2>1, SMT DEF QueueInv, Linking
<1>12. Linked'
  <2>1. ASSUME NEW d \in Contexts, InQueue(d)', Succ(Me(d))' # NoNode
        PROVE  Tail(L(d))' # Me(d)' /\ \E e \in Contexts : Me(e)' = Succ(Me(d))' /\ Waits(e, d)'
    <3>1. InQueue(d) /\ HasNode(d) /\ d # c /\ Succ(Me(d))' = Succ(Me(d))
      BY <1>1, <1>2, <1>3, <1>8, <2>1 DEF Succ
    <3>2. PICK e \in Contexts : Me(e) = Succ(Me(d)) /\ Waits(e, d)
      BY <2>1, <3>1 DEF QueueInv, Linked
    <3>3. e # s
      BY <1>2, <1>4, <1>5, <3>1, <3>2 DEF QueueInv, Linked
    <3>4. Waits(e, d)'
      BY <1>1, <1>3, <1>9, <3>2, <3>3 DEF Waits, Granted
    <3> QED BY <1>1, <2>1, <3>1, <3>2, <3>4 DEF QueueInv, Linked, Tail
  <2>2. ASSUME NEW d \in Contexts, NEW e \in Contexts, InQueue(d)', InQueue(e)',
               Succ(Me(d))' # NoNode, Succ(Me(d))' = Succ(Me(e))'
        PROVE  d = e
    <3>1. \A f \in {d, e} : InQueue(f) /\ Succ(Me(f))' = Succ(Me(f))
      BY <1>1, <1>2, <1>3, <1>8, <2>2 DEF Succ
    <3> QED BY <2>2, <3>1 DEF QueueInv, Linked
  <2> QED BY <2>1, <2>2 DEF Linked
<1>13. NextRead'
  BY <1>1, <1>2, <1>3, <1>8 DEF QueueInv, NextRead, Succ
<1>14. Ended'
  <2>1. Tail(L(c)) # Me(c)
    BY <1>2, <1>4 DEF QueueInv, Linked
  <2> QED BY <1>1, <1>2, <2>1, SMT DEF QueueInv, Ended, Tail
<1>15. OneHead'
  <2>1. \A d \in Contexts : AtHead(d)' => d = s \/ (AtHead(d) /\ d # c)
    BY <1>1, <1>2, <1>3, <1>9 DEF AtHead, Granted
  <2>2. \A d \in Contexts : AtHead(d)' => d = s \/ L(d) # L(c)
    BY <1>2, <2>1 DEF QueueInv, OneHead
  <2>3. Tail(L(s)) # NoNode
    BY <1>2, <1>6 DEF QueueInv, OneHead
  <2> QED BY <1>1, <1>6, <2>1, <2>2, <2>3 DEF QueueInv, OneHead, Tail
<1> QED BY <1>10, <1>11, <1>12, <1>13, <1>14, <1>15 DEF QueueInv

-----------------------------------------------------------------------------
(* The word.                                                               *)

WordIs(c, locked, pending, tail) ==
    /\ Locked(L(c))' = locked /\ Pending(L(c))' = pending /\ Tail(L(c))' = tail
    /\ \A l \in Locks : l # L(c) =>
          Locked(l)' = Locked(l) /\ Pending(l)' = Pending(l) /\ Tail(l)' = Tail(l)

LEMMA Sets ==
    ASSUME TypeOK, NEW c \in Contexts, NEW w \in Words, SetWord(c, w)
    PROVE  word' \in [Locks -> Words] /\ WordIs(c, w.locked, w.pending, w.tail)
BY ContextType DEF TypeOK, SetWord, WordIs, Locked, Pending, Tail

LEMMA Keeps ==
    ASSUME NEW c \in Contexts, UNCHANGED word
    PROVE  WordIs(c, Locked(L(c)), Pending(L(c)), Tail(L(c)))
BY DEF WordIs, Locked, Pending, Tail

LEMMA WordType ==
    ASSUME TypeOK, NEW l \in Locks
    PROVE  Locked(l) \in {0, 1} /\ Pending(l) \in {0, 1}
BY DEF TypeOK, Words, Locked, Pending

(* c does nothing to the bits, and is not about to.                        *)
LEMMA WordKept ==
    ASSUME TypeOK, WordInv, NEW c \in Contexts, NEW to, NEW tail, Moves(c, to),
           WordIs(c, Locked(L(c)), Pending(L(c)), tail),
           Owns(c) <=> to \in OwnerPCs, Pends(c) <=> to \in {"undo"} \cup PendingPCs,
           to \notin PendingPCs, to \in {"claim", "setlocked"} => pc[c] \in {"claim", "setlocked"}
    PROVE  WordInv'
<1>1. pc'[c] = to /\ \A d \in Contexts : d # c => pc'[d] = pc[d]
  BY Others
<1>2. \A l \in Locks : Locked(l)' = Locked(l) /\ Pending(l)' = Pending(l)
  BY DEF WordIs
<1>3. \A d \in Contexts : (Owns(d)' <=> Owns(d)) /\ (Pends(d)' <=> Pends(d)) /\ L(d) \in Locks
  BY <1>1, ContextType DEF Owns, Pends
<1>4. Exclusive' /\ OnePending' /\ BitsOwned'
  BY <1>2, <1>3 DEF WordInv, Exclusive, OnePending, BitsOwned
<1>5. Taking'
  BY <1>1, <1>2, <1>3 DEF WordInv, Taking, PendingPCs
<1> QED BY <1>4, <1>5 DEF WordInv

(* c takes the lock, which nobody has and nobody else is about to take.    *)
LEMMA Acquires ==
    ASSUME TypeOK, WordInv, NEW c \in Contexts, NEW to \in OwnerPCs, NEW pending, NEW tail,
           Moves(c, to), Locked(L(c)) = 0, WordIs(c, 1, pending, tail),
           \A d \in Contexts : d # c /\ L(d) = L(c) => pc[d] \notin {"takepending", "claim", "setlocked"},
           IF Pends(c) THEN pending = 0 ELSE pending = Pending(L(c))
    PROVE  WordInv'
<1>1. pc'[c] = to /\ \A d \in Contexts : d # c => pc'[d] = pc[d]
  BY Others
<1>2. \A l \in Locks : l # L(c) => Locked(l)' = Locked(l) /\ Pending(l)' = Pending(l)
  BY DEF WordIs
<1>3. Locked(L(c))' = 1 /\ Pending(L(c))' = pending
  BY DEF WordIs
<1>4. /\ Owns(c)' /\ ~ Pends(c)' /\ to \notin {"takepending", "claim", "setlocked"} \cup PendingPCs
      /\ \A d \in Contexts : L(d) \in Locks
      /\ \A d \in Contexts : d # c => (Owns(d)' <=> Owns(d)) /\ (Pends(d)' <=> Pends(d))
  BY <1>1, ContextType DEF Owns, Pends, OwnerPCs, HandoverPCs, PendingPCs
<1>5. \A d \in Contexts : L(d) = L(c) => ~ Owns(d)
  BY SMT DEF WordInv, Exclusive
<1>6. Exclusive'
  BY <1>2, <1>3, <1>4, <1>5 DEF WordInv, Exclusive
<1>7. OnePending'
  BY <1>2, <1>3, <1>4 DEF WordInv, OnePending
<1>8. BitsOwned'
  <2>1. \A l \in Locks : Locked(l)' = 1 => \E d \in Contexts : L(d) = l /\ Owns(d)'
    BY <1>2, <1>3, <1>4, <1>5 DEF WordInv, BitsOwned
  <2>2. \A l \in Locks : Pending(l)' = 1 => \E d \in Contexts : L(d) = l /\ Pends(d)'
    BY <1>2, <1>3, <1>4, SMT DEF WordInv, BitsOwned
  <2> QED BY <2>1, <2>2 DEF BitsOwned
<1>9. Taking'
  BY <1>1, <1>2, <1>3, <1>4 DEF WordInv, Taking
<1> QED BY <1>6, <1>7, <1>8, <1>9 DEF WordInv

(* Nobody is about to take a lock that is free, or the head of a queue.    *)
LEMMA FreeForAll ==
    ASSUME TypeOK, QueueInv, WordInv, NEW c \in Contexts, W(c) = Free
    PROVE  /\ Locked(L(c)) = 0 /\ Pending(L(c)) = 0 /\ Tail(L(c)) = NoNode
           /\ \A d \in Contexts : L(d) = L(c) => pc[d] \notin {"takepending", "claim", "setlocked"}
<1>1. Locked(L(c)) = 0 /\ Pending(L(c)) = 0 /\ Tail(L(c)) = NoNode
  BY SMT DEF W, Free, Locked, Pending, Tail
<1>2. \A d \in Contexts : L(d) = L(c) => ~ AtHead(d) /\ ~ Pends(d)
  BY <1>1, SMT DEF QueueInv, OneHead, WordInv, OnePending
<1> QED BY <1>1, <1>2 DEF AtHead, TokenPCs, Pends, PendingPCs

LEMMA SetPendingStep ==
    ASSUME TypeOK, QueueInv, WordInv, NEW c \in Contexts, NEW to, Moves(c, to), pc[c] = "setpending",
           WordIs(c, Locked(L(c)), 1, Tail(L(c))),
           to = IF Pending(L(c)) = 1 THEN "queue"
                ELSE IF Tail(L(c)) # NoNode THEN "undo"
                ELSE IF Locked(L(c)) = 1 THEN "waitowner" ELSE "takepending"
    PROVE  WordInv'
<1>1. pc'[c] = to /\ \A d \in Contexts : d # c => pc'[d] = pc[d]
  BY Others
<1>2. /\ \A l \in Locks : Locked(l)' = Locked(l) /\ (l # L(c) => Pending(l)' = Pending(l))
      /\ Pending(L(c))' = 1
  BY DEF WordIs
<1>3. /\ Owns(c)' <=> Owns(c)
      /\ Pends(c)' <=> Pending(L(c)) # 1
      /\ ~ Pends(c) /\ to \notin {"claim", "setlocked"}
      /\ to \in PendingPCs => Tail(L(c)) = NoNode
      /\ to = "takepending" => Locked(L(c)) # 1
      /\ \A d \in Contexts : L(d) \in Locks
      /\ \A d \in Contexts : d # c => (Owns(d)' <=> Owns(d)) /\ (Pends(d)' <=> Pends(d))
  BY <1>1, ContextType DEF Owns, Pends, OwnerPCs, HandoverPCs, PendingPCs
<1>4. Exclusive'
  BY <1>2, <1>3 DEF WordInv, Exclusive
<1>5. OnePending'
  BY <1>2, <1>3 DEF WordInv, OnePending
<1>6. BitsOwned'
  <2>1. \A l \in Locks : Locked(l)' = 1 => \E d \in Contexts : L(d) = l /\ Owns(d)'
    BY <1>2, <1>3 DEF WordInv, BitsOwned
  <2>2. \A l \in Locks : Pending(l)' = 1 => \E d \in Contexts : L(d) = l /\ Pends(d)'
    BY <1>2, <1>3 DEF WordInv, BitsOwned
  <2> QED BY <2>1, <2>2 DEF BitsOwned
<1>7. Taking'
  <2>1. \A d \in Contexts : pc[d] \in {"claim", "setlocked"} => Tail(L(d)) # NoNode
    BY DEF QueueInv, OneHead, AtHead, TokenPCs
  <2> QED BY <1>1, <1>2, <1>3, <2>1, WordType DEF WordInv, Taking
<1> QED BY <1>4, <1>5, <1>6, <1>7 DEF WordInv

LEMMA UndoStep ==
    ASSUME TypeOK, WordInv, NEW c \in Contexts, Moves(c, "queue"), pc[c] = "undo",
           WordIs(c, Locked(L(c)), 0, Tail(L(c)))
    PROVE  WordInv'
<1>1. pc'[c] = "queue" /\ \A d \in Contexts : d # c => pc'[d] = pc[d]
  BY Others
<1>2. /\ \A l \in Locks : Locked(l)' = Locked(l) /\ (l # L(c) => Pending(l)' = Pending(l))
      /\ Pending(L(c))' = 0
  BY DEF WordIs
<1>3. /\ Owns(c)' <=> Owns(c)
      /\ Pends(c) /\ ~ Pends(c)'
      /\ \A d \in Contexts : L(d) \in Locks
      /\ \A d \in Contexts : d # c => (Owns(d)' <=> Owns(d)) /\ (Pends(d)' <=> Pends(d))
  BY <1>1, ContextType DEF Owns, Pends, OwnerPCs, HandoverPCs, PendingPCs
<1>4. Exclusive'
  BY <1>2, <1>3 DEF WordInv, Exclusive
<1>5. OnePending'
  BY <1>2, <1>3 DEF WordInv, OnePending
<1>6. BitsOwned'
  BY <1>2, <1>3, SMT DEF WordInv, BitsOwned
<1>7. Taking'
  BY <1>1, <1>2, <1>3 DEF WordInv, Taking, PendingPCs
<1> QED BY <1>4, <1>5, <1>6, <1>7 DEF WordInv

(* c has seen the bits it waited for cleared.                              *)
LEMMA Sees ==
    ASSUME TypeOK, WordInv, NEW c \in Contexts, NEW to, Moves(c, to), UNCHANGED word,
           Locked(L(c)) = 0,
           \/ pc[c] = "waitowner" /\ to = "takepending"
           \/ pc[c] = "waitlock" /\ to \in {"claim", "setlocked"} /\ Pending(L(c)) = 0
    PROVE  WordInv'
<1>1. pc'[c] = to /\ \A d \in Contexts : d # c => pc'[d] = pc[d]
  BY Others
<1>2. \A l \in Locks : Locked(l)' = Locked(l) /\ Pending(l)' = Pending(l)
  BY DEF Locked, Pending
<1>3. \A d \in Contexts : (Owns(d)' <=> Owns(d)) /\ (Pends(d)' <=> Pends(d)) /\ L(d) \in Locks
  BY <1>1, ContextType DEF Owns, Pends, OwnerPCs, HandoverPCs, PendingPCs
<1>4. Exclusive' /\ OnePending' /\ BitsOwned'
  BY <1>2, <1>3 DEF WordInv, Exclusive, OnePending, BitsOwned
<1>5. Pending(L(c)) = 0 => \A d \in Contexts : L(d) = L(c) => pc[d] \notin PendingPCs
  BY SMT DEF WordInv, OnePending, Pends
<1>6. Taking'
  BY <1>1, <1>2, <1>3, <1>5 DEF WordInv, Taking, PendingPCs
<1> QED BY <1>4, <1>6 DEF WordInv

LEMMA UnlockStep ==
    ASSUME TypeOK, WordInv, NEW c \in Contexts, Moves(c, "out"), pc[c] = "in",
           WordIs(c, 0, Pending(L(c)), Tail(L(c)))
    PROVE  WordInv'
<1>1. pc'[c] = "out" /\ \A d \in Contexts : d # c => pc'[d] = pc[d]
  BY Others
<1>2. /\ \A l \in Locks : Pending(l)' = Pending(l) /\ (l # L(c) => Locked(l)' = Locked(l))
      /\ Locked(L(c))' = 0
  BY DEF WordIs
<1>3. /\ Pends(c)' <=> Pends(c)
      /\ Owns(c) /\ ~ Owns(c)'
      /\ \A d \in Contexts : L(d) \in Locks
      /\ \A d \in Contexts : d # c => (Owns(d)' <=> Owns(d)) /\ (Pends(d)' <=> Pends(d))
  BY <1>1, ContextType DEF Owns, Pends, OwnerPCs, HandoverPCs, PendingPCs
<1>4. Exclusive'
  BY <1>2, <1>3 DEF WordInv, Exclusive
<1>5. OnePending'
  BY <1>2, <1>3 DEF WordInv, OnePending
<1>6. BitsOwned'
  BY <1>2, <1>3, SMT DEF WordInv, BitsOwned
<1>7. Taking'
  BY <1>1, <1>2, <1>3 DEF WordInv, Taking, PendingPCs
<1> QED BY <1>4, <1>5, <1>6, <1>7 DEF WordInv

(* The cmpxchg of qspin_lock and qspin_trylock that succeeds.              *)
LEMMA TakesFree ==
    ASSUME TypeOK, QueueInv, WordInv, NEW c \in Contexts, NEW to \in OwnerPCs, Moves(c, to),
           ~ Pends(c), W(c) = Free, SetWord(c, LockedVal)
    PROVE  word' \in [Locks -> Words] /\ (\A l \in Locks : Tail(l)' = Tail(l)) /\ WordInv'
<1>1. /\ LockedVal \in Words /\ LockedVal.locked = 1 /\ LockedVal.pending = 0
      /\ LockedVal.tail = NoNode
  BY DEF LockedVal, Free, Words
<1>2. word' \in [Locks -> Words] /\ WordIs(c, 1, 0, NoNode)
  BY <1>1, Sets
<1>3. /\ Locked(L(c)) = 0 /\ Pending(L(c)) = 0 /\ Tail(L(c)) = NoNode
      /\ \A d \in Contexts : L(d) = L(c) => pc[d] \notin {"takepending", "claim", "setlocked"}
  BY FreeForAll
<1>4. WordInv'
  BY <1>2, <1>3, Acquires
<1> QED BY <1>2, <1>3, <1>4 DEF WordIs

-----------------------------------------------------------------------------
(* Every step preserves the invariant.                                     *)

LEMMA Types ==
    ASSUME TypeOK, NEW c \in Contexts, NEW to \in PCs, Moves(c, to), word' \in [Locks -> Words],
           UNCHANGED <<node, count, cnt, idx, prev, next, users>>
    PROVE  TypeOK'
BY DEF TypeOK, Moves

Outside == {"out", "pendwait", "setpending", "undo", "queue", "in"} \cup PendingPCs

LEMMA OutsideKeeps ==
    ASSUME TypeOK, Counts, QueueInv, NEW c \in Contexts, NEW to, Moves(c, to),
           UNCHANGED <<node, count, idx, prev, next>>, \A l \in Locks : Tail(l)' = Tail(l),
           \/ pc[c] \in Outside /\ to \in Outside
           \/ pc[c] \in {"fallback", "retry"} /\ to = "release"
    PROVE  Counts' /\ QueueInv'
<1>1. /\ to \in CountedPCs <=> Counted(c)
      /\ to \notin NodePCs /\ ~ InQueue(c) /\ to \notin QueuePCs \cup {"retry", "xchgtail"}
  BY DEF Outside, Counted, InQueue, CountedPCs, NodePCs, QueuePCs, TokenPCs, PendingPCs, HandoverPCs
<1>2. Counts'
  BY <1>1, CountsKept
<1>3. QueueInv'
  BY <1>1, Aside
<1> QED BY <1>2, <1>3

LEMMA LockStep ==
    ASSUME IInv, NEW c \in Contexts, qspin_lock(c) \/ qspin_trylock(c), UNCHANGED users
    PROVE  IInv'
<1>1. PICK to \in {"in", "pendwait", "queue", "setpending"} :
         /\ Moves(c, to) /\ pc[c] = "out" /\ UNCHANGED <<node, count, cnt, idx, prev, next, users>>
         /\ \/ to = "in" /\ W(c) = Free /\ SetWord(c, LockedVal)
            \/ to # "in" /\ UNCHANGED word
  BY DEF qspin_lock, qspin_trylock, At, Goto, Moves, Decide, locals
<1>2. /\ TypeOK /\ Counts /\ QueueInv /\ WordInv /\ word \in [Locks -> Words]
      /\ to \in PCs \cap Outside /\ pc[c] \in Outside
      /\ ~ Pends(c) /\ ~ Owns(c) /\ to \notin {"undo"} \cup PendingPCs /\ "in" \in OwnerPCs
      /\ to # "in" => to \notin OwnerPCs
  BY <1>1 DEF IInv, TypeOK, PCs, Outside, Pends, Owns, PendingPCs, OwnerPCs, HandoverPCs
<1>3. CASE to = "in"
  BY <1>1, <1>2, <1>3, TakesFree, Types, OutsideKeeps DEF IInv
<1>4. CASE to # "in"
  <2>1. WordIs(c, Locked(L(c)), Pending(L(c)), Tail(L(c))) /\ \A l \in Locks : Tail(l)' = Tail(l)
    BY <1>1, <1>4, Keeps DEF Tail
  <2>2. WordInv'
    BY <1>1, <1>2, <1>4, <2>1, WordKept
  <2> QED BY <1>1, <1>2, <1>4, <2>1, <2>2, Types, OutsideKeeps DEF IInv
<1> QED BY <1>3, <1>4

LEMMA PendWaitStep ==
    ASSUME IInv, NEW c \in Contexts, PendWait(c), UNCHANGED users
    PROVE  IInv'
<1>t. cnt[c] \in 0 .. PendingLoops /\ PendingLoops \in Nat /\ pc \in [Contexts -> PCs]
  BY BoundsAssumption DEF IInv, TypeOK
<1>1. PICK to \in {"pendwait", "queue", "setpending"} :
         /\ Moves(c, to) /\ pc[c] = "pendwait"
         /\ UNCHANGED <<word, node, count, idx, prev, next, users>>
  BY <1>t DEF PendWait, At, Goto, Moves
<1>2. cnt' \in [Contexts -> 0 .. PendingLoops]
  BY <1>t, SMT DEF PendWait, IInv, TypeOK
<1>3. /\ TypeOK /\ Counts /\ QueueInv /\ WordInv
      /\ to \in PCs \cap Outside /\ pc[c] \in Outside
      /\ ~ Pends(c) /\ ~ Owns(c) /\ to \notin {"undo"} \cup PendingPCs \cup OwnerPCs
  BY <1>1 DEF IInv, PCs, Outside, Pends, Owns, PendingPCs, OwnerPCs, HandoverPCs
<1>4. TypeOK'
  BY <1>1, <1>2, <1>3 DEF TypeOK, Moves
<1>5. WordIs(c, Locked(L(c)), Pending(L(c)), Tail(L(c))) /\ \A l \in Locks : Tail(l)' = Tail(l)
  BY <1>1, Keeps DEF Tail
<1>6. WordInv'
  BY <1>1, <1>3, <1>5, WordKept
<1> QED BY <1>1, <1>3, <1>4, <1>5, <1>6, OutsideKeeps DEF IInv

(* The steps of the pending bit.                                           *)
LEMMA PendingSteps ==
    ASSUME ~ Wide, IInv, NEW c \in Contexts, UNCHANGED users,
           SetPending(c) \/ UndoPending(c) \/ WaitOwner(c) \/ TakePending(c)
    PROVE  IInv'
<1>t. /\ TypeOK /\ Counts /\ QueueInv /\ WordInv /\ L(c) \in Locks /\ W(c) \in Words
      /\ word \in [Locks -> Words]
  BY ContextType DEF IInv, TypeOK, W
<1>w. /\ W(c).locked = Locked(L(c)) /\ W(c).pending = Pending(L(c)) /\ W(c).tail = Tail(L(c))
      /\ Locked(L(c)) \in {0, 1} /\ Pending(L(c)) \in {0, 1}
  BY <1>t, WordType DEF W, Locked, Pending, Tail
<1>p. Outside \subseteq PCs /\ PendingPCs \subseteq Outside
  BY DEF Outside, PCs
<1> DEFINE Fits(to) ==
      /\ word' \in [Locks -> Words] /\ \A l \in Locks : Tail(l)' = Tail(l)
      /\ WordInv' /\ Moves(c, to) /\ pc[c] \in Outside /\ to \in Outside
      /\ UNCHANGED <<node, count, cnt, idx, prev, next, users>>
<1>1. ASSUME NEW to, Fits(to) PROVE IInv'
  <2>1. TypeOK'
    BY <1>1, <1>t, <1>p, Types
  <2>2. Counts' /\ QueueInv'
    BY <1>1, <1>t, OutsideKeeps
  <2> QED BY <1>1, <2>1, <2>2 DEF IInv
<1>2. CASE SetPending(c)
  <2> DEFINE to == IF Pending(L(c)) = 1 THEN "queue"
                   ELSE IF Tail(L(c)) # NoNode THEN "undo"
                   ELSE IF Locked(L(c)) = 1 THEN "waitowner" ELSE "takepending"
  <2> DEFINE w == [W(c) EXCEPT !.pending = 1]
  <2>1. /\ pc[c] = "setpending" /\ Moves(c, to) /\ SetWord(c, w)
        /\ UNCHANGED <<node, count, cnt, idx, prev, next, users>>
    <3>1. (IF Contended(W(c))
             THEN IF W(c).pending = 0 THEN "undo" ELSE "queue"
             ELSE IF W(c).locked = 1 THEN "waitowner" ELSE "takepending") = to
      BY <1>w, SMT DEF Contended, TailOf
    <3>2. Moves(c, to)
      BY <1>2, <3>1 DEF SetPending, Goto, Moves
    <3> QED BY <1>2, <3>2 DEF SetPending, At, locals
  <2>2. w \in Words /\ w.locked = Locked(L(c)) /\ w.pending = 1 /\ w.tail = Tail(L(c))
    BY <1>t, <1>w DEF Words
  <2>3. word' \in [Locks -> Words] /\ WordIs(c, Locked(L(c)), 1, Tail(L(c)))
    BY <1>t, <2>1, <2>2, Sets
  <2>4. WordInv'
    BY <1>t, <2>1, <2>3, SetPendingStep
  <2>5. to \in Outside /\ "setpending" \in Outside
    BY DEF Outside, PendingPCs
  <2>6. \A l \in Locks : Tail(l)' = Tail(l)
    BY <2>3 DEF WordIs
  <2> QED BY <1>1, <2>1, <2>3, <2>4, <2>5, <2>6
<1>3. CASE UndoPending(c)
  <2> DEFINE w == [W(c) EXCEPT !.pending = 0]
  <2>1. /\ pc[c] = "undo" /\ Moves(c, "queue") /\ SetWord(c, w)
        /\ UNCHANGED <<node, count, cnt, idx, prev, next, users>>
    BY <1>3 DEF UndoPending, At, Goto, Moves, clear_pending, locals
  <2>2. w \in Words /\ w.locked = Locked(L(c)) /\ w.pending = 0 /\ w.tail = Tail(L(c))
    BY <1>t, <1>w DEF Words
  <2>3. word' \in [Locks -> Words] /\ WordIs(c, Locked(L(c)), 0, Tail(L(c)))
    BY <1>t, <2>1, <2>2, Sets
  <2>4. WordInv'
    BY <1>t, <2>1, <2>3, UndoStep
  <2>5. "queue" \in Outside /\ "undo" \in Outside
    BY DEF Outside
  <2>6. \A l \in Locks : Tail(l)' = Tail(l)
    BY <2>3 DEF WordIs
  <2> QED BY <1>1, <2>1, <2>3, <2>4, <2>5, <2>6
<1>4. CASE WaitOwner(c)
  <2>1. /\ pc[c] = "waitowner" /\ Moves(c, "takepending") /\ Locked(L(c)) = 0
        /\ UNCHANGED <<word, node, count, cnt, idx, prev, next, users>>
    BY <1>4, <1>w DEF WaitOwner, At, Goto, Moves, locals
  <2>2. WordInv'
    BY <1>t, <2>1, Sees
  <2>3. \A l \in Locks : Tail(l)' = Tail(l)
    BY <2>1 DEF Tail
  <2> QED BY <1>1, <1>t, <1>p, <2>1, <2>2, <2>3 DEF PendingPCs
<1>5. CASE TakePending(c)
  <2> DEFINE w == [W(c) EXCEPT !.locked = 1, !.pending = 0]
  <2>1. /\ pc[c] = "takepending" /\ Moves(c, "in") /\ SetWord(c, w)
        /\ UNCHANGED <<node, count, cnt, idx, prev, next, users>>
    BY <1>5 DEF TakePending, At, Goto, Moves, clear_pending_set_locked, locals
  <2>2. w \in Words /\ w.locked = 1 /\ w.pending = 0 /\ w.tail = Tail(L(c))
    BY <1>t, <1>w DEF Words
  <2>3. word' \in [Locks -> Words] /\ WordIs(c, 1, 0, Tail(L(c)))
    BY <1>t, <2>1, <2>2, Sets
  <2>4. Pends(c) /\ "in" \in OwnerPCs /\ "in" \in Outside /\ "takepending" \in Outside
    BY <2>1 DEF Pends, PendingPCs, OwnerPCs, Outside
  <2>5. Locked(L(c)) = 0
    BY <1>t, <2>1 DEF WordInv, Taking
  <2>6. \A d \in Contexts : d # c /\ L(d) = L(c) => pc[d] \notin {"takepending", "claim", "setlocked"}
    BY <1>t, <2>1, <2>4 DEF WordInv, Taking, OnePending, Pends, PendingPCs
  <2>7. WordInv'
    BY <1>t, <2>1, <2>3, <2>4, <2>5, <2>6, Acquires
  <2>8. \A l \in Locks : Tail(l)' = Tail(l)
    BY <2>3 DEF WordIs
  <2> QED BY <1>1, <2>1, <2>3, <2>4, <2>7, <2>8
<1> QED BY <1>2, <1>3, <1>4, <1>5

(* The steps of one that is not in the queue yet.                          *)
LEMMA NodeSteps ==
    ASSUME IInv, NEW c \in Contexts, UNCHANGED users,
           Queue(c) \/ Fallback(c) \/ InitNode(c) \/ Retry(c)
    PROVE  IInv'
<1>t. /\ TypeOK /\ Counts /\ QueueInv /\ WordInv /\ word \in [Locks -> Words]
      /\ CpuOf(c) \in CPUs /\ count[CpuOf(c)] \in Nat /\ count \in [CPUs -> Nat]
  BY ContextType DEF IInv, TypeOK
<1> DEFINE Early == {"queue", "fallback", "initnode", "retry", "xchgtail"}
<1>p. /\ Early \cap ({"undo", "claim", "setlocked"} \cup PendingPCs \cup OwnerPCs \cup QueuePCs) = {}
      /\ Early \subseteq PCs
  BY DEF PendingPCs, OwnerPCs, HandoverPCs, PCs, QueuePCs, TokenPCs
<1>1. ASSUME NEW to \in Early, pc[c] \in Early, Moves(c, to), UNCHANGED word PROVE WordInv'
  <2>1. WordIs(c, Locked(L(c)), Pending(L(c)), Tail(L(c)))
    BY <1>1, Keeps
  <2> QED BY <1>1, <1>p, <1>t, <2>1, WordKept DEF Owns, Pends
<1>2. CASE Queue(c)
  <2>1. PICK to \in {"fallback", "initnode"} :
           Moves(c, to) /\ pc[c] = "queue" /\ UNCHANGED <<word, node, cnt, prev, next, users>>
    BY <1>2 DEF Queue, At, Goto, Moves
  <2>2. idx' \in [Contexts -> Nat] /\ \A d \in Contexts : d # c => idx'[d] = idx[d]
    BY <1>2, <1>t DEF Queue, TypeOK
  <2>3. count' \in [CPUs -> Nat]
    BY <1>2, <1>t, SMT DEF Queue
  <2>4. TypeOK'
    BY <1>t, <1>p, <2>1, <2>2, <2>3 DEF TypeOK, Moves
  <2>5. QueueInv'
    BY <1>t, <1>p, <2>1, <2>2, Aside DEF InQueue, Tail
  <2> QED BY <1>1, <1>2, <1>t, <2>1, <2>4, <2>5, QueueCounts DEF IInv
<1>3. CASE (Fallback(c) \/ Retry(c)) /\ ~ UNCHANGED word
  <2>1. /\ pc[c] \in {"fallback", "retry"} /\ Moves(c, "release")
        /\ W(c) = Free /\ SetWord(c, LockedVal)
        /\ UNCHANGED <<node, count, cnt, idx, prev, next, users>>
    BY <1>3 DEF Fallback, Retry, At, Goto, Moves, locals
  <2>2. ~ Pends(c) /\ "release" \in OwnerPCs /\ "release" \in PCs
    BY <2>1 DEF Pends, PendingPCs, OwnerPCs, PCs
  <2> QED BY <1>t, <2>1, <2>2, TakesFree, Types, OutsideKeeps DEF IInv
<1>4. CASE InitNode(c)
  <2>1. /\ pc[c] = "initnode" /\ Moves(c, "retry")
        /\ node' = [node EXCEPT ![Me(c)] = [locked |-> 0, next |-> NoNode]]
        /\ UNCHANGED <<word, count, cnt, idx, prev, next, users>>
    BY <1>4 DEF InitNode, At, Goto, Moves, locals
  <2>2. HasNode(c) /\ Counted(c) /\ "retry" \in NodePCs /\ "retry" \in CountedPCs
    BY <2>1 DEF HasNode, Counted, CountedPCs, NodePCs
  <2>3. Me(c) \in Nodes
    BY <1>t, <2>2, NodeType
  <2>4. /\ node'[Me(c)] = [locked |-> 0, next |-> NoNode]
        /\ \A n \in Nodes : n # Me(c) => node'[n] = node[n]
        /\ node' \in [Nodes -> [locked : {0, 1}, next : Nodes \cup {NoNode}]]
    BY <1>t, <2>1, <2>3 DEF TypeOK
  <2>5. TypeOK'
    BY <1>t, <1>p, <2>1, <2>4 DEF TypeOK, Moves
  <2>6. Counts'
    BY <1>t, <2>1, <2>2, CountsKept
  <2>7. QueueInv'
    BY <1>t, <2>1, <2>4, Prepares
  <2> QED BY <1>1, <2>1, <2>5, <2>6, <2>7 DEF IInv
<1>5. CASE Retry(c) /\ UNCHANGED word
  <2>1. /\ pc[c] = "retry" /\ Moves(c, "xchgtail")
        /\ UNCHANGED <<word, node, count, cnt, idx, prev, next, users>>
    <3>1. W(c) # Free
      <4>1. SUFFICES ASSUME W(c) = Free PROVE FALSE
        OBVIOUS
      <4>2. word'[L(c)] = LockedVal
        BY <1>5, <1>t, <4>1, ContextType DEF Retry, SetWord
      <4>3. word'[L(c)] = Free
        BY <1>5, <4>1 DEF W
      <4> QED BY <4>2, <4>3, SMT DEF LockedVal, Free
    <3> QED BY <1>5, <3>1 DEF Retry, At, Goto, Moves, locals
  <2>2. HasNode(c) /\ Counted(c) /\ "xchgtail" \in NodePCs /\ "xchgtail" \in CountedPCs
    BY <2>1 DEF HasNode, Counted, CountedPCs, NodePCs
  <2>3. Me(c) \in Nodes /\ Succ(Me(c)) = NoNode /\ Granted(Me(c)) = 0
    BY <1>t, <2>1, <2>2, NodeType DEF QueueInv, Clean
  <2>4. node[Me(c)] = [locked |-> 0, next |-> NoNode]
    BY <1>t, <2>3 DEF TypeOK, Succ, Granted
  <2>5. TypeOK'
    BY <1>t, <1>p, <2>1, Types
  <2>6. Counts'
    BY <1>t, <2>1, <2>2, CountsKept
  <2>7. QueueInv'
    BY <1>t, <2>1, <2>4, Prepares
  <2> QED BY <1>1, <2>1, <2>5, <2>6, <2>7 DEF IInv
<1>6. ~ (Fallback(c) /\ UNCHANGED word)
  <2>1. SUFFICES ASSUME Fallback(c), UNCHANGED word PROVE FALSE
    OBVIOUS
  <2>2. word'[L(c)] = LockedVal /\ word[L(c)] = Free
    BY <1>t, <2>1, ContextType DEF Fallback, SetWord, W
  <2> QED BY <2>1, <2>2, SMT DEF LockedVal, Free
<1> QED BY <1>2, <1>3, <1>4, <1>5, <1>6

(* Into the queue, and to the one in front.                                *)
LEMMA QueueSteps ==
    ASSUME IInv, NEW c \in Contexts, UNCHANGED users, xchg_tail(c) \/ Link(c)
    PROVE  IInv'
<1>t. /\ TypeOK /\ Counts /\ QueueInv /\ WordInv /\ word \in [Locks -> Words]
      /\ L(c) \in Locks /\ W(c) \in Words
  BY ContextType DEF IInv, TypeOK, W
<1>1. HasNode(c) /\ Counted(c) /\ Me(c) \in Nodes /\ ~ Owns(c) /\ ~ Pends(c)
  <2>1. pc[c] \in {"xchgtail", "link"}
    BY DEF xchg_tail, Link, At
  <2>2. HasNode(c) /\ Counted(c) /\ ~ Owns(c) /\ ~ Pends(c)
    BY <2>1 DEF HasNode, Counted, CountedPCs, NodePCs, QueuePCs, Owns, OwnerPCs, HandoverPCs,
                Pends, PendingPCs
  <2> QED BY <1>t, <2>2, NodeType
<1>2. \A to \in {"link", "waitlock", "waitnode"} :
        /\ to \in NodePCs /\ to \in CountedPCs /\ to \in PCs
        /\ to \notin {"undo", "claim", "setlocked"} \cup PendingPCs \cup OwnerPCs
  BY DEF CountedPCs, NodePCs, QueuePCs, TokenPCs, PCs, PendingPCs, OwnerPCs, HandoverPCs
<1>3. CASE xchg_tail(c)
  <2> DEFINE w == [W(c) EXCEPT !.tail = Me(c)]
  <2>1. PICK to \in {"link", "waitlock"} :
           Moves(c, to) /\ UNCHANGED <<node, count, cnt, idx, next, users>>
    BY <1>3 DEF xchg_tail, Goto, Moves
  <2>2. w \in Words /\ w.locked = Locked(L(c)) /\ w.pending = Pending(L(c)) /\ w.tail = Me(c)
    BY <1>t, <1>1 DEF Words, W, Locked, Pending
  <2>3. SetWord(c, w) /\ prev' = [prev EXCEPT ![c] = W(c).tail]
    BY <1>3 DEF xchg_tail
  <2>4. word' \in [Locks -> Words] /\ WordIs(c, Locked(L(c)), Pending(L(c)), Me(c))
    BY <1>t, <2>2, <2>3, Sets
  <2>5. prev' \in [Contexts -> Nodes \cup {NoNode}]
    BY <1>t, <2>3 DEF TypeOK, Words
  <2>6. TypeOK'
    BY <1>t, <1>2, <2>1, <2>4, <2>5 DEF TypeOK, Moves
  <2>7. Counts'
    BY <1>t, <1>1, <1>2, <2>1, CountsKept
  <2>8. WordInv'
    BY <1>t, <1>1, <1>2, <2>1, <2>4, WordKept
  <2> QED BY <1>3, <1>t, <2>6, <2>7, <2>8, TailStep DEF IInv
<1>4. CASE Link(c)
  <2>1. Moves(c, "waitnode") /\ UNCHANGED <<word, count, cnt, idx, next, users>>
    BY <1>4 DEF Link, Goto, Moves
  <2>2. prev' \in [Contexts -> Nodes \cup {NoNode}]
    BY <1>4, <1>t DEF Link, TypeOK
  <2>3. node' \in [Nodes -> [locked : {0, 1}, next : Nodes \cup {NoNode}]]
    BY <1>4, <1>t, <1>1 DEF Link, TypeOK
  <2>4. TypeOK'
    BY <1>t, <1>2, <2>1, <2>2, <2>3 DEF TypeOK, Moves
  <2>5. Counts'
    BY <1>t, <1>1, <1>2, <2>1, CountsKept
  <2>6. WordIs(c, Locked(L(c)), Pending(L(c)), Tail(L(c)))
    BY <2>1, Keeps
  <2>7. WordInv'
    BY <1>t, <1>1, <1>2, <2>1, <2>6, WordKept
  <2> QED BY <1>4, <1>t, <2>4, <2>5, <2>7, LinkStep DEF IInv
<1> QED BY <1>3, <1>4

(* The steps of the head of the queue.                                     *)
LEMMA HeadSteps ==
    ASSUME ~ Wide, IInv, NEW c \in Contexts, UNCHANGED users,
           \/ WaitNode(c) \/ ReadNext(c) \/ WaitLock(c) \/ SetLocked(c) \/ WaitNext(c)
           \/ Claim(c) /\ W(c) # [Free EXCEPT !.tail = Me(c)]
    PROVE  IInv'
<1>t. /\ TypeOK /\ Counts /\ QueueInv /\ WordInv /\ word \in [Locks -> Words]
      /\ L(c) \in Locks /\ W(c) \in Words /\ next \in [Contexts -> Nodes \cup {NoNode}]
  BY ContextType DEF IInv, TypeOK, W
<1>w. W(c).locked = Locked(L(c)) /\ W(c).pending = Pending(L(c)) /\ W(c).tail = Tail(L(c))
  BY DEF W, Locked, Pending, Tail
<1>p. /\ TokenPCs \subseteq PCs /\ TokenPCs \subseteq NodePCs /\ NodePCs \subseteq CountedPCs
      /\ "waitnode" \in NodePCs /\ HandoverPCs \subseteq TokenPCs /\ HandoverPCs \subseteq OwnerPCs
      /\ TokenPCs \cap ({"undo"} \cup PendingPCs) = {}
      /\ {"waitnode", "readnext", "waitlock", "claim", "setlocked"}
           \cap (OwnerPCs \cup {"undo"} \cup PendingPCs) = {}
      /\ {"readnext", "waitlock", "claim", "setlocked"} \subseteq TokenPCs
  BY DEF TokenPCs, HandoverPCs, OwnerPCs, PCs, NodePCs, QueuePCs, CountedPCs, PendingPCs
<1> DEFINE Keep(to) ==
      /\ AtHead(c) /\ to \in TokenPCs /\ Moves(c, to)
      /\ word' \in [Locks -> Words] /\ \A l \in Locks : Tail(l)' = Tail(l)
      /\ UNCHANGED <<node, count, cnt, idx, prev, users>>
      /\ next' \in [Contexts -> Nodes \cup {NoNode}]
      /\ next'[c] \in {next[c], Succ(Me(c))} /\ (to = "handover" => next'[c] # NoNode)
      /\ \A d \in Contexts : d # c => next'[d] = next[d]
<1>1. ASSUME NEW to, Keep(to), WordInv' PROVE IInv'
  <2>1. TypeOK'
    BY <1>1, <1>t, <1>p DEF TypeOK, Moves
  <2>2. to \in CountedPCs /\ Counted(c) /\ HasNode(c)
    BY <1>1, <1>p DEF AtHead, Counted, HasNode
  <2>3. Counts'
    BY <1>1, <1>t, <2>2, CountsKept
  <2>4. QueueInv'
    BY <1>1, <1>t, HeadMoves
  <2> QED BY <1>1, <2>1, <2>3, <2>4 DEF IInv
<1>2. ASSUME UNCHANGED word
      PROVE  /\ WordIs(c, Locked(L(c)), Pending(L(c)), Tail(L(c)))
             /\ word' \in [Locks -> Words] /\ \A l \in Locks : Tail(l)' = Tail(l)
  BY <1>2, <1>t, Keeps DEF Tail
<1>3. CASE WaitNode(c)
  <2>1. /\ pc[c] = "waitnode" /\ AtHead(c) /\ Moves(c, "readnext")
        /\ UNCHANGED <<word, node, count, cnt, idx, prev, next, users>>
    BY <1>3 DEF WaitNode, At, Goto, Moves, AtHead, Granted, locals
  <2>2. WordInv'
    BY <1>2, <1>p, <1>t, <2>1, WordKept DEF Owns, Pends
  <2> QED BY <1>1, <1>2, <1>p, <1>t, <2>1, <2>2
<1>4. CASE ReadNext(c)
  <2>1. /\ pc[c] = "readnext" /\ Moves(c, "waitlock")
        /\ UNCHANGED <<word, node, count, cnt, idx, prev, users>>
        /\ next' = [next EXCEPT ![c] = Succ(Me(c))]
    BY <1>4 DEF ReadNext, At, Goto, Moves, Succ
  <2>2. AtHead(c) /\ HasNode(c)
    BY <2>1, <1>p DEF AtHead, HasNode
  <2>3. Succ(Me(c)) \in Nodes \cup {NoNode}
    BY <1>t, <2>2, NodeType DEF TypeOK, Succ
  <2>4. WordInv'
    BY <1>2, <1>p, <1>t, <2>1, WordKept DEF Owns, Pends
  <2> QED BY <1>1, <1>2, <1>p, <1>t, <2>1, <2>2, <2>3, <2>4
<1>5. CASE WaitLock(c)
  <2>1. PICK to \in {"claim", "setlocked"} :
           /\ pc[c] = "waitlock" /\ Moves(c, to) /\ Locked(L(c)) = 0 /\ Pending(L(c)) = 0
           /\ UNCHANGED <<word, node, count, cnt, idx, prev, next, users>>
    BY <1>5, <1>w DEF WaitLock, At, Goto, Moves, locals
  <2>2. WordInv'
    BY <1>t, <2>1, Sees
  <2> QED BY <1>1, <1>2, <1>p, <1>t, <2>1, <2>2 DEF AtHead
<1>6. CASE SetLocked(c)
  <2> DEFINE w == [W(c) EXCEPT !.locked = 1]
  <2> DEFINE to == IF next[c] = NoNode THEN "waitnext" ELSE "handover"
  <2>1. /\ pc[c] = "setlocked" /\ Moves(c, to) /\ SetWord(c, w)
        /\ UNCHANGED <<node, count, cnt, idx, prev, next, users>>
    BY <1>6 DEF SetLocked, At, Goto, Moves, set_locked, WriteLocked, locals
  <2>2. w \in Words /\ w.locked = 1 /\ w.pending = Pending(L(c)) /\ w.tail = Tail(L(c))
    BY <1>t, <1>w DEF Words
  <2>3. word' \in [Locks -> Words] /\ WordIs(c, 1, Pending(L(c)), Tail(L(c)))
    BY <1>t, <2>1, <2>2, Sets
  <2>4. AtHead(c) /\ ~ Pends(c) /\ to \in OwnerPCs /\ to \in TokenPCs
    BY <2>1, <1>p DEF AtHead, Pends, HandoverPCs
  <2>5. Locked(L(c)) = 0
    BY <1>t, <2>1 DEF WordInv, Taking
  <2>6. \A d \in Contexts : d # c /\ L(d) = L(c) => pc[d] \notin {"takepending", "claim", "setlocked"}
    <3>1. \A d \in Contexts : d # c /\ L(d) = L(c) => pc[d] \notin TokenPCs
      BY <1>t, <2>4 DEF QueueInv, OneHead, AtHead
    <3> QED BY <1>t, <1>p, <2>1, <3>1 DEF WordInv, Taking, PendingPCs
  <2>7. WordInv'
    BY <1>t, <2>1, <2>3, <2>4, <2>5, <2>6, Acquires
  <2>8. \A l \in Locks : Tail(l)' = Tail(l)
    BY <2>3 DEF WordIs
  <2> QED BY <1>1, <1>t, <2>1, <2>3, <2>4, <2>7, <2>8
<1>7. CASE WaitNext(c)
  <2>1. /\ pc[c] = "waitnext" /\ Moves(c, "handover") /\ Succ(Me(c)) # NoNode
        /\ UNCHANGED <<word, node, count, cnt, idx, prev, users>>
        /\ next' = [next EXCEPT ![c] = Succ(Me(c))]
    BY <1>7 DEF WaitNext, At, Goto, Moves, Succ
  <2>2. AtHead(c) /\ HasNode(c) /\ "handover" \in OwnerPCs /\ "waitnext" \in OwnerPCs
        /\ "handover" \in TokenPCs /\ "waitnext" \in TokenPCs
    BY <2>1, <1>p DEF AtHead, HasNode, HandoverPCs
  <2>3. Succ(Me(c)) \in Nodes \cup {NoNode}
    BY <1>t, <2>2, NodeType DEF TypeOK, Succ
  <2>4. WordInv'
    BY <1>2, <1>p, <1>t, <2>1, <2>2, WordKept DEF Owns, Pends
  <2> QED BY <1>1, <1>2, <1>t, <2>1, <2>2, <2>3, <2>4
<1>8. CASE Claim(c) /\ W(c) # [Free EXCEPT !.tail = Me(c)]
  <2>1. /\ pc[c] = "claim" /\ Moves(c, "setlocked")
        /\ UNCHANGED <<word, node, count, cnt, idx, prev, next, users>>
    BY <1>8 DEF Claim, At, Goto, Moves, locals
  <2>2. WordInv'
    BY <1>2, <1>p, <1>t, <2>1, WordKept DEF Owns, Pends
  <2> QED BY <1>1, <1>2, <1>p, <1>t, <2>1, <2>2 DEF AtHead
<1> QED BY <1>3, <1>4, <1>5, <1>6, <1>7, <1>8

(* Out of the queue, and out of the lock.                                  *)
LEMMA LeavingSteps ==
    ASSUME ~ Wide, IInv, NEW c \in Contexts, UNCHANGED users,
           \/ Claim(c) /\ W(c) = [Free EXCEPT !.tail = Me(c)]
           \/ Handover(c) \/ Release(c) \/ qspin_unlock(c)
    PROVE  IInv'
<1>t. /\ TypeOK /\ Counts /\ QueueInv /\ WordInv /\ word \in [Locks -> Words]
      /\ L(c) \in Locks /\ W(c) \in Words
  BY ContextType DEF IInv, TypeOK, W
<1>w. W(c).locked = Locked(L(c)) /\ W(c).pending = Pending(L(c)) /\ W(c).tail = Tail(L(c))
  BY DEF W, Locked, Pending, Tail
<1>p. /\ {"release", "in", "handover"} \subseteq OwnerPCs \cap PCs
      /\ OwnerPCs \cap ({"undo", "claim", "setlocked"} \cup PendingPCs) = {}
      /\ "release" \notin NodePCs /\ {"release", "handover", "claim"} \subseteq CountedPCs
      /\ {"handover", "claim"} \subseteq TokenPCs /\ "claim" \notin {"undo"} \cup PendingPCs
      /\ "in" \notin QueuePCs \cup {"retry", "xchgtail"} /\ "release" \notin QueuePCs
      /\ "in" \in Outside /\ "out" \in Outside /\ "out" \in PCs
  BY DEF TokenPCs, HandoverPCs, OwnerPCs, PCs, NodePCs, QueuePCs, CountedPCs, PendingPCs, Outside
<1>1. CASE Claim(c) /\ W(c) = [Free EXCEPT !.tail = Me(c)]
  <2>1. /\ pc[c] = "claim" /\ Moves(c, "release") /\ SetWord(c, LockedVal)
        /\ UNCHANGED <<node, count, cnt, idx, prev, next, users>>
    BY <1>1 DEF Claim, At, Goto, Moves, locals
  <2>2. Locked(L(c)) = 0 /\ Pending(L(c)) = 0 /\ Tail(L(c)) = Me(c)
    BY <1>1, <1>w DEF Free
  <2>3. /\ LockedVal \in Words /\ LockedVal.locked = 1 /\ LockedVal.pending = 0
        /\ LockedVal.tail = NoNode
    BY DEF LockedVal, Free, Words
  <2>4. word' \in [Locks -> Words] /\ WordIs(c, 1, 0, NoNode)
    BY <1>t, <2>1, <2>3, Sets
  <2>5. TypeOK'
    BY <1>t, <1>p, <2>1, <2>4, Types
  <2>6. Counts'
    BY <1>t, <1>p, <2>1, CountsKept DEF Counted
  <2>7. QueueInv'
    BY <1>t, <2>1, <2>2, <2>4, ClaimStep DEF WordIs
  <2>8. \A d \in Contexts : d # c /\ L(d) = L(c) => pc[d] \notin {"takepending", "claim", "setlocked"}
    <3>1. \A d \in Contexts : d # c /\ L(d) = L(c) => pc[d] \notin TokenPCs
      BY <1>t, <1>p, <2>1 DEF QueueInv, OneHead, AtHead
    <3> QED BY <1>t, <2>1, <3>1 DEF WordInv, Taking, PendingPCs, TokenPCs
  <2>9. WordInv'
    BY <1>t, <1>p, <2>1, <2>2, <2>4, <2>8, Acquires DEF Pends
  <2> QED BY <2>5, <2>6, <2>7, <2>9 DEF IInv
<1>2. CASE Handover(c)
  <2>1. /\ pc[c] = "handover" /\ Moves(c, "release")
        /\ UNCHANGED <<word, count, cnt, idx, prev, users>>
    BY <1>2 DEF Handover, At, Goto, Moves
  <2>2. next' \in [Contexts -> Nodes \cup {NoNode}]
    BY <1>2, <1>t DEF Handover, TypeOK
  <2>3. node' \in [Nodes -> [locked : {0, 1}, next : Nodes \cup {NoNode}]]
    BY <1>2, <1>t DEF Handover, TypeOK
  <2>4. TypeOK'
    BY <1>t, <1>p, <2>1, <2>2, <2>3 DEF TypeOK, Moves
  <2>5. Counts'
    BY <1>t, <1>p, <2>1, CountsKept DEF Counted
  <2>6. WordIs(c, Locked(L(c)), Pending(L(c)), Tail(L(c)))
    BY <2>1, Keeps
  <2>7. WordInv'
    BY <1>t, <1>p, <2>1, <2>6, WordKept DEF Owns, Pends
  <2> QED BY <1>2, <1>t, <2>4, <2>5, <2>7, HandoverStep DEF IInv
<1>3. CASE Release(c)
  <2>1. /\ pc[c] = "release" /\ Moves(c, "in") /\ UNCHANGED <<word, node, cnt, prev, next, users>>
    BY <1>3 DEF Release, At, Goto, Moves
  <2>2. idx' \in [Contexts -> Nat] /\ \A d \in Contexts : d # c => idx'[d] = idx[d]
    BY <1>3, <1>t DEF Release, TypeOK
  <2>3. Counts' /\ count' \in [CPUs -> Nat]
    BY <1>3, <1>t, ReleaseCounts
  <2>4. TypeOK'
    BY <1>t, <1>p, <2>1, <2>2, <2>3 DEF TypeOK, Moves
  <2>5. QueueInv'
    BY <1>t, <1>p, <2>1, <2>2, Aside DEF InQueue, Tail
  <2>6. WordIs(c, Locked(L(c)), Pending(L(c)), Tail(L(c)))
    BY <2>1, Keeps
  <2>7. WordInv'
    BY <1>t, <1>p, <2>1, <2>6, WordKept DEF Owns, Pends
  <2> QED BY <2>3, <2>4, <2>5, <2>7 DEF IInv
<1>4. CASE qspin_unlock(c)
  <2> DEFINE w == [W(c) EXCEPT !.locked = 0]
  <2>1. /\ pc[c] = "in" /\ Moves(c, "out") /\ SetWord(c, w)
        /\ UNCHANGED <<node, count, cnt, idx, prev, next, users>>
    BY <1>4 DEF qspin_unlock, At, Goto, Moves, WriteLocked, locals
  <2>2. w \in Words /\ w.locked = 0 /\ w.pending = Pending(L(c)) /\ w.tail = Tail(L(c))
    BY <1>t, <1>w DEF Words
  <2>3. word' \in [Locks -> Words] /\ WordIs(c, 0, Pending(L(c)), Tail(L(c)))
    BY <1>t, <2>1, <2>2, Sets
  <2>4. \A l \in Locks : Tail(l)' = Tail(l)
    BY <2>3 DEF WordIs
  <2>5. TypeOK'
    BY <1>t, <1>p, <2>1, <2>3, Types
  <2>6. Counts' /\ QueueInv'
    BY <1>t, <1>p, <2>1, <2>4, OutsideKeeps
  <2>7. WordInv'
    BY <1>t, <2>1, <2>3, UnlockStep
  <2> QED BY <2>5, <2>6, <2>7 DEF IInv
<1> QED BY <1>1, <1>2, <1>3, <1>4

LEMMA InitHolds == Init => IInv
<1> SUFFICES ASSUME Init PROVE IInv
  OBVIOUS
<1>1. TypeOK
  BY LevelsAssumption, BoundsAssumption, SMT
     DEF Init, TypeOK, Words, Free, PCs, Contexts
<1>2. \A c \in Contexts : pc[c] = "out" /\ next[c] = NoNode
  BY DEF Init
<1>3. \A c \in Contexts : ~ Counted(c) /\ ~ HasNode(c) /\ ~ InQueue(c) /\ ~ Owns(c) /\ ~ Pends(c)
      /\ ~ AtHead(c)
  BY <1>2 DEF Counted, HasNode, InQueue, Owns, Pends, CountedPCs, NodePCs, QueuePCs, TokenPCs,
              HandoverPCs, OwnerPCs, PendingPCs, AtHead
<1>4. \A l \in Locks : Locked(l) = 0 /\ Pending(l) = 0 /\ Tail(l) = NoNode
  BY DEF Init, Locked, Pending, Tail, Free
<1>5. \A u \in CPUs : count[u] = 0
  BY DEF Init
<1>6. Counts
  BY <1>3, <1>5, SMT DEF Counts, Indices, Stacked, Complete
<1>7. QueueInv
  BY <1>2, <1>3, <1>4 DEF QueueInv, Clean, Linking, Linked, NextRead, Ended, OneHead
<1>8. WordInv
  BY <1>2, <1>3, <1>4, SMT DEF WordInv, Exclusive, OnePending, BitsOwned, Taking
<1> QED BY <1>1, <1>6, <1>7, <1>8 DEF IInv

LEMMA StutterHolds == IInv /\ UNCHANGED vars => IInv'
<1> SUFFICES ASSUME IInv, UNCHANGED vars PROVE IInv'
  OBVIOUS
<1>1. /\ TypeOK /\ Counts /\ QueueInv /\ WordInv
      /\ UNCHANGED <<word, node, count, pc, cnt, idx, prev, next, users>>
  BY DEF IInv, vars
<1>2. TypeOK'
  BY <1>1 DEF TypeOK
<1>3. Counts'
  BY <1>1 DEF Counts, Indices, Stacked, Complete, Counted, HasNode
<1>4. QueueInv'
  <2>1. /\ \A d \in Contexts : Me(d)' = Me(d) /\ pc'[d] = pc[d] /\ (InQueue(d)' <=> InQueue(d))
        /\ \A d \in Contexts : AtHead(d)' <=> AtHead(d)
        /\ \A c, d \in Contexts : (Before(d, c)' <=> Before(d, c)) /\ (Waits(d, c)' <=> Waits(d, c))
        /\ \A l \in Locks : Tail(l)' = Tail(l)
    BY <1>1 DEF Me, InQueue, AtHead, Before, Waits, Succ, Granted, Tail
  <2>2. Clean' /\ NextRead' /\ Ended'
    BY <1>1, <2>1, SMT DEF QueueInv, Clean, NextRead, Ended, Succ, Granted
  <2>3. Linking'
    BY <1>1, <2>1, SMT DEF QueueInv, Linking
  <2>4. Linked'
    BY <1>1, <2>1, ContextType, SMT DEF QueueInv, Linked, Succ
  <2>5. OneHead'
    BY <1>1, <2>1, ContextType, SMT DEF QueueInv, OneHead
  <2> QED BY <2>2, <2>3, <2>4, <2>5 DEF QueueInv
<1>5. WordInv'
  BY <1>1 DEF WordInv, Exclusive, OnePending, BitsOwned, Taking, Owns, Pends, Locked, Pending
<1> QED BY <1>2, <1>3, <1>4, <1>5 DEF IInv

LEMMA NextHolds == ASSUME ~ Wide PROVE IInv /\ [Next]_vars => IInv'
<1> SUFFICES ASSUME IInv, [Next]_vars PROVE IInv'
  OBVIOUS
<1>1. CASE UNCHANGED vars
  BY <1>1, StutterHolds
<1>2. ASSUME NEW c \in users, qspin_lock(c) \/ qspin_trylock(c) \/ Step(c), UNCHANGED users
      PROVE  IInv'
  <2>1. c \in Contexts
    BY DEF IInv, TypeOK
  <2>2. CASE qspin_lock(c) \/ qspin_trylock(c)
    BY <1>2, <2>1, <2>2, LockStep
  <2>3. CASE Step(c)
    BY <1>2, <2>1, <2>3, PendWaitStep, PendingSteps, NodeSteps, QueueSteps, HeadSteps, LeavingSteps
       DEF Step
  <2> QED BY <1>2, <2>2, <2>3
<1> QED BY <1>1, <1>2 DEF Next

LEMMA Invariance == ASSUME ~ Wide PROVE Spec => []IInv
BY InitHolds, NextHolds, PTL DEF Spec

-----------------------------------------------------------------------------
(* The nodes in use on a CPU are never counted below zero, and the tail of *)
(* a word, or the next of a node, never names a node that does not exist.  *)
THEOREM TypeCorrect == ASSUME ~ Wide PROVE Spec => []TypeOK
<1>1. IInv => TypeOK
  BY DEF IInv
<1> QED BY <1>1, Invariance, PTL

(* Two contexts never own a lock at once, and its locked byte says whether *)
(* it is owned: for any CPUs and interrupts in qspin_lock, qspin_trylock   *)
(* and qspin_unlock on a 32-bit word.                                      *)
THEOREM Exclusion == ASSUME ~ Wide PROVE Spec => [](MutualExclusion /\ LockedMeansOwned)
<1>1. IInv => MutualExclusion /\ LockedMeansOwned
  <2> SUFFICES ASSUME IInv PROVE MutualExclusion /\ LockedMeansOwned
    OBVIOUS
  <2>1. \A l \in Locks : \A c \in Owners(l) : c \in Contexts /\ L(c) = l /\ Owns(c)
    BY DEF Owners, Owns
  <2>2. MutualExclusion
    BY <2>1 DEF MutualExclusion, IInv, WordInv, Exclusive
  <2>3. \A l \in Locks : Locked(l) = 1 => Owners(l) # {}
    BY DEF IInv, WordInv, BitsOwned, Owners, Owns
  <2>4. \A l \in Locks : Owners(l) # {} => Locked(l) = 1
    BY <2>1 DEF IInv, WordInv, Exclusive
  <2> QED BY <2>2, <2>3, <2>4 DEF LockedMeansOwned, Locked
<1> QED BY <1>1, Invariance, PTL

(* A context that takes a node of its CPU in qspin_lock_slowpath shares it *)
(* with nobody, whatever it has interrupted and wherever.                  *)
THEOREM NodesStayPrivate == ASSUME ~ Wide PROVE Spec => []NodesPrivate
<1>1. IInv => NodesPrivate
  <2> SUFFICES ASSUME IInv PROVE NodesPrivate
    OBVIOUS
  <2>1. Private
    BY NodesArePrivate DEF IInv
  <2>2. \A c \in Queued : c \in Contexts /\ HasNode(c)
    BY DEF Queued, HasNode, NodePCs, QueuePCs, TokenPCs, HandoverPCs
  <2> QED BY <2>1, <2>2 DEF NodesPrivate, Private
<1> QED BY <1>1, Invariance, PTL

(* When nobody is between the call and the return of qspin_lock, all nodes *)
(* of all CPUs have been given back.                                       *)
THEOREM NodesComeBack == ASSUME ~ Wide PROVE Spec => []NodesReturned
<1>1. IInv => NodesReturned
  <2> SUFFICES ASSUME IInv, \A c \in Contexts : pc[c] \in {"out", "in"}, NEW u \in CPUs, count[u] # 0
               PROVE  FALSE
    BY DEF NodesReturned
  <2>1. 0 \in Nat /\ 0 < count[u]
    BY SMT DEF IInv, TypeOK
  <2>2. PICK c \in Contexts : Counted(c)
    BY <2>1 DEF IInv, Counts, Complete
  <2> QED BY <2>2 DEF Counted, CountedPCs, NodePCs, QueuePCs, TokenPCs, HandoverPCs
<1> QED BY <1>1, Invariance, PTL

-----------------------------------------------------------------------------
(* Where the contexts are, seen by the callers of spinlock.h.              *)
StatusAt(label) ==
    IF label = "out" THEN "out" ELSE IF label \in OwnerPCs THEN "in" ELSE "want"
Statuses == [c \in Contexts |-> Status(c)]

LEMMA StatusIs == \A c \in Contexts : Status(c) = StatusAt(pc[c])
BY DEF Status, StatusAt, OwnerPCs, HandoverPCs

LEMMA InitRefines == Init => Abstract!Init
<1> SUFFICES ASSUME Init PROVE Abstract!Init
  OBVIOUS
<1>1. \A c \in Contexts : Status(c) = "out"
  BY StatusIs DEF Init, StatusAt
<1> QED BY <1>1 DEF Abstract!Init

LEMMA StatusMoves ==
    ASSUME TypeOK, NEW c \in Contexts, NEW to, Moves(c, to)
    PROVE  Statuses' = [Statuses EXCEPT ![c] = StatusAt(to)]
BY Others DEF Statuses, Status, StatusAt, OwnerPCs, HandoverPCs

(* c moves to a place with the status it has.                              *)
LEMMA StatusStays ==
    ASSUME TypeOK, NEW c \in Contexts, NEW to, Moves(c, to), StatusAt(to) = StatusAt(pc[c])
    PROVE  Statuses' = Statuses
BY StatusMoves, StatusIs DEF Statuses

(* A step into OwnerPCs finds no owner there, for it finds or is the one   *)
(* that may set the locked byte.                                           *)
LEMMA NobodyOwns ==
    ASSUME IInv, NEW c \in Contexts, Locked(L(c)) = 0
    PROVE  \A d \in Contexts : L(d) = L(c) => Status(d) # "in"
<1>1. \A d \in Contexts : L(d) = L(c) => ~ Owns(d)
  BY SMT DEF IInv, WordInv, Exclusive
<1> QED BY <1>1, StatusIs DEF Owns, StatusAt

LEMMA AcquireRefines ==
    ASSUME IInv, NEW c \in Contexts, NEW to \in OwnerPCs, Moves(c, to), Locked(L(c)) = 0
    PROVE  Abstract!Acquire(c)
<1>1. Status(c) # "in" /\ \A d \in Contexts : L(d) = L(c) => Status(d) # "in"
  BY NobodyOwns
<1>2. StatusAt(to) = "in"
  BY DEF StatusAt, OwnerPCs, HandoverPCs
<1>3. Statuses' = [Statuses EXCEPT ![c] = "in"]
  BY <1>2, StatusMoves DEF IInv
<1> QED BY <1>1, <1>3 DEF Abstract!Acquire, Statuses

LEMMA LockRefines ==
    ASSUME IInv, NEW c \in Contexts, qspin_lock(c) \/ qspin_trylock(c)
    PROVE  Abstract!Request(c) \/ Abstract!Acquire(c)
<1>1. CASE W(c) = Free
  <2>1. Moves(c, "in") /\ "in" \in OwnerPCs
    BY <1>1 DEF qspin_lock, qspin_trylock, Goto, Moves, OwnerPCs
  <2>2. Locked(L(c)) = 0
    BY <1>1, SMT DEF W, Free, Locked
  <2> QED BY <2>1, <2>2, AcquireRefines
<1>2. CASE W(c) # Free
  <2>1. PICK to \in {"pendwait", "queue", "setpending"} : Moves(c, to) /\ pc[c] = "out"
    BY <1>2 DEF qspin_lock, qspin_trylock, At, Goto, Moves, Decide
  <2>2. StatusAt(to) = "want" /\ Status(c) = "out"
    BY <2>1, StatusIs DEF StatusAt, OwnerPCs, HandoverPCs
  <2>3. Statuses' = [Statuses EXCEPT ![c] = "want"]
    BY <2>1, <2>2, StatusMoves DEF IInv
  <2> QED BY <2>2, <2>3 DEF Abstract!Request, Statuses
<1> QED BY <1>1, <1>2

LEMMA StepRefines ==
    ASSUME ~ Wide, IInv, NEW c \in Contexts, Step(c)
    PROVE  Abstract!Acquire(c) \/ Abstract!Release(c) \/ Statuses' = Statuses
<1>t. TypeOK /\ pc \in [Contexts -> PCs]
  BY DEF IInv, TypeOK
<1> DEFINE Wanting == {"pendwait", "setpending", "undo", "waitowner", "takepending", "queue", "fallback",
                       "initnode", "retry", "xchgtail", "link", "waitnode", "readnext", "waitlock",
                       "claim", "setlocked"}
<1>p. /\ \A label \in Wanting : StatusAt(label) = "want"
      /\ \A label \in OwnerPCs : StatusAt(label) = "in"
      /\ {"in", "release", "handover", "waitnext"} \subseteq OwnerPCs
  BY DEF StatusAt, OwnerPCs, HandoverPCs
<1>1. ASSUME NEW to, Moves(c, to), {pc[c], to} \subseteq Wanting \/ {pc[c], to} \subseteq OwnerPCs
      PROVE  Statuses' = Statuses
  BY <1>1, <1>t, <1>p, StatusStays
<1>2. ASSUME PendWait(c) \/ SetPending(c) \/ UndoPending(c) \/ WaitOwner(c)
      PROVE  Statuses' = Statuses
  <2>1. PICK to \in Wanting : Moves(c, to) /\ pc[c] \in Wanting
    BY <1>2, <1>t DEF PendWait, SetPending, UndoPending, WaitOwner, At, Goto, Moves
  <2> QED BY <1>1, <2>1, SMT
<1>3. ASSUME Queue(c) \/ InitNode(c) \/ xchg_tail(c) \/ Link(c) \/ WaitNode(c) \/ ReadNext(c) \/ WaitLock(c)
      PROVE  Statuses' = Statuses
  <2>1. PICK to \in Wanting : Moves(c, to) /\ pc[c] \in Wanting
    BY <1>3 DEF Queue, InitNode, xchg_tail, Link, WaitNode, ReadNext, WaitLock, At, Goto, Moves
  <2> QED BY <1>1, <2>1, SMT
<1>4. ASSUME WaitNext(c) \/ Handover(c) \/ Release(c)
      PROVE  Statuses' = Statuses
  <2>1. PICK to \in OwnerPCs : Moves(c, to) /\ pc[c] \in OwnerPCs
    BY <1>4, <1>p DEF WaitNext, Handover, Release, At, Goto, Moves
  <2> QED BY <1>1, <2>1
<1>5. ASSUME TakePending(c) \/ SetLocked(c) PROVE Abstract!Acquire(c)
  <2>1. PICK to \in OwnerPCs : Moves(c, to) /\ pc[c] \in {"takepending", "setlocked"}
    BY <1>5, <1>p DEF TakePending, SetLocked, At, Goto, Moves
  <2>2. Locked(L(c)) = 0
    BY <2>1 DEF IInv, WordInv, Taking
  <2> QED BY <2>1, <2>2, AcquireRefines
<1>6. ASSUME Fallback(c) \/ Retry(c) \/ Claim(c) PROVE Abstract!Acquire(c) \/ Statuses' = Statuses
  <2>1. \/ Moves(c, "release") /\ W(c).locked = 0
        \/ \E to \in Wanting : Moves(c, to) /\ pc[c] \in Wanting
    BY <1>6, SMT DEF Fallback, Retry, Claim, At, Goto, Moves, Free
  <2> QED BY <1>1, <1>p, <2>1, AcquireRefines DEF W, Locked
<1>7. ASSUME qspin_unlock(c) PROVE Abstract!Release(c)
  <2>1. Moves(c, "out") /\ pc[c] = "in"
    BY <1>7 DEF qspin_unlock, At, Goto, Moves
  <2>2. Status(c) = "in" /\ StatusAt("out") = "out"
    BY <1>p, <2>1, StatusIs DEF StatusAt
  <2>3. Statuses' = [Statuses EXCEPT ![c] = "out"]
    BY <1>t, <2>1, <2>2, StatusMoves
  <2> QED BY <2>2, <2>3 DEF Abstract!Release, Statuses
<1> QED BY <1>2, <1>3, <1>4, <1>5, <1>6, <1>7 DEF Step

LEMMA NextRefines == ASSUME ~ Wide PROVE IInv /\ [Next]_vars => [Abstract!Next]_Statuses
<1> SUFFICES ASSUME IInv, [Next]_vars PROVE Abstract!Next \/ Statuses' = Statuses
  OBVIOUS
<1>1. CASE UNCHANGED vars
  BY <1>1, SMT DEF vars, Statuses, Status
<1>2. ASSUME NEW c \in users, qspin_lock(c) \/ qspin_trylock(c) \/ Step(c)
      PROVE  Abstract!Next \/ Statuses' = Statuses
  <2>1. c \in Contexts
    BY DEF IInv, TypeOK
  <2> QED BY <1>2, <2>1, LockRefines, StepRefines DEF Abstract!Next
<1> QED BY <1>1, <1>2 DEF Next

(* The queued lock implements the lock of include/target/spinlock.h, on    *)
(* every lock of any CPUs and interrupts: every behaviour of qspin_lock,   *)
(* qspin_trylock and qspin_unlock is one its callers are promised.         *)
THEOREM Refinement == ASSUME ~ Wide PROVE Spec => ImplementsSpinLock
<1>1. IInv /\ [Next]_vars => [Abstract!Next]_[c \in Contexts |-> Status(c)]
  BY NextRefines DEF Statuses
<1> QED BY <1>1, InitRefines, Invariance, PTL DEF Spec, ImplementsSpinLock, Abstract!Spec
=============================================================================
