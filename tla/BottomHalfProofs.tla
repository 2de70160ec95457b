-------------------------- MODULE BottomHalfProofs --------------------------
(***************************************************************************)
(* What bh_loop and bh_sync guarantee for any number of bottom halves and  *)
(* any nesting: no wake-up is lost in an SMP build, whose bit operations   *)
(* are atomic, and interrupts are masked exactly in handlers unless the    *)
(* build is SYS_REALTIME.                                                  *)
(***************************************************************************)
EXTENDS BottomHalf, TLAPS, SequenceTheorems, WellFoundedInduction

(* Where bh is the index of a bottom half, and not a position that may be  *)
(* INVALID_BH.                                                             *)
Chosen == Handlers \cup {"suspend", "clear", "start", "set"}

(* The scans nest properly: a scan that has a caller finds it on the       *)
(* stack, and only the outermost one has none.                             *)
Nested == /\ pc \in Chosen => bh \in BHs
          /\ sync \/ pc = "set" => stack # <<>>
          /\ \A i \in 1 .. Len(stack) : stack[i].sync => i > 1

(* set_bit and clear_bit are split only in builds that are not SMP, and    *)
(* set_bit only where a handler can be interrupted.                        *)
Unsplit == /\ Atomic => pc \notin {"clear", "set"}
           /\ ~Realtime => pc # "set"

Masked == MaskedExactlyInHandlers
Kept == SmpKeepsWakeups

IInv == TypeOK /\ Nested /\ Unsplit /\ Masked /\ Kept

(* What every step leaves alone.                                           *)
SameBuild == build' = build /\ Atomic' = Atomic /\ Realtime' = Realtime

LEMMA Flags == Atomic \in BOOLEAN /\ Realtime \in BOOLEAN
BY DEF Atomic, Realtime

(* find_next_set_bit returns a member of the set, or INVALID_BH.           *)
LEMMA FindNext ==
    ASSUME NEW set \in SUBSET BHs, NEW off \in Int
    PROVE  find_next_set_bit(set, off) \in set \cup {INVALID_BH}
<1>1. CASE ~ \E b \in set : b >= off
  BY <1>1 DEF find_next_set_bit
<1>2. CASE \E b \in set : b >= off
  <2> DEFINE S == {b \in set : b >= off}
  <2>1. BHs \subseteq Nat
    BY BhsAssumption DEF BHs
  <2>2. S \subseteq Nat /\ S # {}
    BY <1>2, <2>1
  <2>3. PICK m \in S : \A n \in S : ~ (<<n, m>> \in OpToRel(<, Nat))
    <3> HIDE DEF S
    <3> QED BY <2>2, WFMin, NatLessThanWellFounded, Zenon
  <2>4. \A n \in S : ~ (n < m)
    <3> SUFFICES ASSUME NEW n \in S, n < m PROVE FALSE
      OBVIOUS
    <3>1. <<n, m>> \in Nat \X Nat
      BY <2>2
    <3>2. <<n, m>>[1] < <<n, m>>[2]
      OBVIOUS
    <3>3. <<n, m>> \in OpToRel(<, Nat)
      BY <3>1, <3>2, Zenon DEF OpToRel
    <3> QED BY <2>3, <3>3
  <2>5. \E b \in set : b >= off /\ \A d \in set : d >= off => b <= d
    BY <2>2, <2>4
  <2> QED BY <1>2, <2>5 DEF find_next_set_bit
<1> QED BY <1>1, <1>2

(* Leaving a nested scan: the caller is a handler that was running.        *)
LEMMA ReturnTo ==
    ASSUME stack \in Seq(Frames), stack # <<>>, Return,
           \A i \in 1 .. Len(stack) : stack[i].sync => i > 1
    PROVE  /\ stack' \in Seq(Frames)
           /\ pc' \in Handlers /\ bh' \in BHs /\ sync' \in BOOLEAN
           /\ sync' => stack' # <<>>
           /\ \A i \in 1 .. Len(stack') : stack'[i].sync => i > 1
<1>1. Len(stack) \in Nat /\ Len(stack) >= 1
  BY EmptySeq, LenProperties
<1>2. \A i \in 1 .. Len(stack) : stack[i] \in Frames
  BY ElementOfSeq
<1>3. /\ stack' \in Seq(Frames)
      /\ Len(stack') = Len(stack) - 1
      /\ \A i \in 1 .. Len(stack) - 1 : stack'[i] = stack[i]
  <2> DEFINE n == Len(stack) - 1
  <2>1. n \in Int /\ \A i \in 1 .. n : stack[i] \in Frames
    BY <1>1, <1>2
  <2>2. /\ SubSeq(stack, 1, n) \in Seq(Frames)
        /\ Len(SubSeq(stack, 1, n)) = IF 1 <= n THEN n - 1 + 1 ELSE 0
        /\ \A i \in 1 .. n - 1 + 1 : SubSeq(stack, 1, n)[i] = stack[1 + i - 1]
    BY <2>1, SubSeqProperties
  <2> DEFINE t == SubSeq(stack, 1, n)
  <2>3. stack' = t
    BY DEF Return
  <2>4. /\ t \in Seq(Frames)
        /\ Len(t) = IF 1 <= n THEN n - 1 + 1 ELSE 0
        /\ \A i \in 1 .. n - 1 + 1 : t[i] = stack[1 + i - 1]
    BY <2>2
  <2> HIDE DEF t
  <2>5. Len(t) = n
    <3>1. \A k \in Nat : k >= 1 => k - 1 - 1 + 1 = k - 1 /\ (1 <= k - 1 \/ k - 1 = 0)
      OBVIOUS
    <3>2. n - 1 + 1 = n /\ (1 <= n \/ n = 0)
      BY <1>1, <3>1, Zenon
    <3> HIDE DEF n
    <3> QED BY <2>4, <3>2
  <2>6. \A i \in 1 .. n : t[i] = stack[i]
    BY <1>1, <2>4
  <2> QED BY <2>3, <2>4, <2>5, <2>6
<1>4. Caller \in Frames /\ (Caller.sync => Len(stack) > 1)
  BY <1>1, <1>2 DEF Caller
<1>5. pc' \in Handlers /\ bh' \in BHs /\ sync' \in BOOLEAN /\ sync' = Caller.sync
  BY <1>4 DEF Return, Frames
<1>6. sync' => stack' # <<>>
  BY <1>1, <1>3, <1>4, <1>5, EmptySeq
<1>7. \A i \in 1 .. Len(stack') : stack'[i].sync => i > 1
  BY <1>1, <1>3
<1> QED BY <1>3, <1>5, <1>6, <1>7

(* Entering a nested scan, or the two steps of set_bit.                    *)
LEMMA CallFrom ==
    ASSUME NEW label, stack \in Seq(Frames), Call(label),
           pc \in Handlers, bh \in BHs, sync \in BOOLEAN,
           sync => stack # <<>>,
           \A i \in 1 .. Len(stack) : stack[i].sync => i > 1
    PROVE  /\ stack' \in Seq(Frames) /\ stack' # <<>> /\ pc' = label
           /\ \A i \in 1 .. Len(stack') : stack'[i].sync => i > 1
<1> DEFINE f == [pc |-> pc, bh |-> bh, sync |-> sync]
<1>1. f \in Frames /\ f.sync = sync
  BY DEF Frames
<1>2. /\ stack' \in Seq(Frames) /\ Len(stack') = Len(stack) + 1
      /\ \A i \in 1 .. Len(stack) : stack'[i] = stack[i]
      /\ stack'[Len(stack) + 1] = f
  BY <1>1, AppendProperties DEF Call
<1>3. Len(stack) \in Nat /\ (sync => Len(stack) >= 1)
  BY EmptySeq, LenProperties
<1>4. stack' # <<>>
  BY <1>2, <1>3, EmptySeq
<1>5. \A i \in 1 .. Len(stack') : stack'[i].sync => i > 1
  BY <1>1, <1>2, <1>3
<1> QED BY <1>2, <1>4, <1>5 DEF Call

-----------------------------------------------------------------------------
USE DEF Handlers, Labels, Chosen, INVALID_BH, locals, SameBuild, SmpKeepsWakeups

LEMMA InitIInv == Init => IInv
<1> SUFFICES ASSUME Init PROVE IInv
  OBVIOUS
<1>1. stack \in Seq(Frames) /\ Len(stack) = 0
  BY EmptySeq DEF Init
<1>2. TypeOK
  <2>1. 0 \in 0 .. NR_BHS
    BY BhsAssumption
  <2> QED BY <1>1, <2>1, Zenon DEF Init, TypeOK
<1>3. Nested
  BY <1>1 DEF Init, Nested
<1>4. Unsplit /\ Masked /\ Kept
  BY DEF Init, Unsplit, Masked, Kept, MaskedExactlyInHandlers, NoLostWakeup
<1> QED BY <1>2, <1>3, <1>4 DEF IInv

(* Somebody sets a bit, and owes the call: an interrupt, another CPU or a  *)
(* handler that cannot be interrupted.                                     *)
LEMMA ResumePreserves ==
    ASSUME IInv, SameBuild, NEW b \in BHs, do_IRQ(b) \/ bh_resume_smp(b) \/ bh_resume(b)
    PROVE  IInv'
BY DEF IInv, TypeOK, Nested, Unsplit, Masked, Kept, MaskedExactlyInHandlers,
       NoLostWakeup, do_IRQ, bh_resume_smp, bh_resume, Owe

(* Before bh_loop, and its first step.                                     *)
LEMMA StartPreserves ==
    ASSUME IInv, SameBuild, bh_register_handler \/ bh_loop \/ \E b \in BHs : irq_register_poller(b)
    PROVE  IInv'
<1>1. CASE bh_register_handler
  BY <1>1, BhsAssumption
     DEF bh_register_handler, IInv, TypeOK, Nested, Unsplit, Masked, Kept,
         MaskedExactlyInHandlers, NoLostWakeup
<1>2. CASE bh_loop
  BY <1>2
     DEF bh_loop, IInv, TypeOK, Nested, Unsplit, Masked, Kept,
         MaskedExactlyInHandlers, NoLostWakeup
<1>3. ASSUME NEW b \in BHs, irq_register_poller(b)
      PROVE  IInv'
  BY <1>3
     DEF irq_register_poller, IInv, TypeOK, Nested, Unsplit, Masked, Kept,
         MaskedExactlyInHandlers, NoLostWakeup
<1> QED BY <1>1, <1>2, <1>3

(* The search for the next bit changes neither bits nor masking; if it     *)
(* found one, it is that of a bottom half.                                 *)
LEMMA FoundPreserves ==
    ASSUME IInv, SameBuild, pc \in {"scan", "wrap"}, NEW b \in BHs \cup {INVALID_BH}, Found(b),
           UNCHANGED <<nr, pollers, awakes, irq, sync, word, stack, owed>>
    PROVE  IInv'
BY BhsAssumption
   DEF IInv, TypeOK, Nested, Unsplit, Masked, Kept, MaskedExactlyInHandlers,
       NoLostWakeup, Found, BHs

LEMMA ScanPreserves ==
    ASSUME IInv, SameBuild, Scan \/ Wrap
    PROVE  IInv'
<1>1. awakes \in SUBSET BHs /\ bh \in Int /\ 0 \in Int
  BY BhsAssumption DEF IInv, TypeOK
<1>2. \A off \in {bh, 0} : find_next_set_bit(awakes, off) \in BHs \cup {INVALID_BH}
  BY <1>1, FindNext
<1>3. CASE Wrap
  BY <1>2, <1>3, FoundPreserves DEF Wrap
<1>4. CASE Scan /\ \E b \in BHs \cup {INVALID_BH} : Found(b)
  BY <1>4, FoundPreserves DEF Scan
<1>5. CASE Scan /\ bh' = bh + 1 /\ pc' = pc /\ bh # INVALID_BH
  BY <1>5, BhsAssumption
     DEF Scan, IInv, TypeOK, Nested, Unsplit, Masked, Kept, MaskedExactlyInHandlers,
         NoLostWakeup
<1>6. CASE Scan /\ pc' = "wrap" /\ bh' = bh
  BY <1>6
     DEF Scan, IInv, TypeOK, Nested, Unsplit, Masked, Kept, MaskedExactlyInHandlers,
         NoLostWakeup
<1>7. Scan => \/ \E b \in BHs \cup {INVALID_BH} : Found(b)
              \/ bh' = bh + 1 /\ pc' = pc /\ bh # INVALID_BH
              \/ pc' = "wrap" /\ bh' = bh
  BY <1>2, Zenon DEF Scan
<1> QED BY <1>3, <1>4, <1>5, <1>6, <1>7

(* Taking the bit and calling the handler.  The bit leaves bh_awakes for   *)
(* the place NoLostWakeup allows it, and the call answers it.              *)
LEMMA RunPreserves ==
    ASSUME IInv, SameBuild, bh_suspend \/ ClearStore \/ bh_run
    PROVE  IInv'
<1>1. CASE bh_suspend
  BY <1>1, Flags
     DEF bh_suspend, IInv, TypeOK, Nested, Unsplit, Masked, Kept,
         MaskedExactlyInHandlers, NoLostWakeup
<1>2. CASE ClearStore
  BY <1>2
     DEF ClearStore, IInv, TypeOK, Nested, Unsplit, Masked, Kept,
         MaskedExactlyInHandlers, NoLostWakeup
<1>3. CASE bh_run
  BY <1>3, Flags
     DEF bh_run, lock_bh, IInv, TypeOK, Nested, Unsplit, Masked, Kept,
         MaskedExactlyInHandlers, NoLostWakeup
<1> QED BY <1>1, <1>2, <1>3

(* A handler returns, or a poller is called.                               *)
LEMMA EndPreserves ==
    ASSUME IInv, SameBuild, RunEnd \/ Poll \/ PollEnd \/ LoopEnd
    PROVE  IInv'
<1>a. pc \in Handlers => bh + 1 \in 0 .. INVALID_BH
  BY BhsAssumption DEF IInv, Nested, BHs
<1>b. unlock_bh => irq' \in BOOLEAN /\ (~Realtime => irq')
  BY Flags DEF unlock_bh, IInv, TypeOK
<1>1. CASE RunEnd
  <2>1. bh' \in 0 .. INVALID_BH
    BY <1>1, <1>a, BhsAssumption DEF RunEnd
  <2>2. TypeOK'
    BY <1>1, <1>b, <2>1 DEF RunEnd, IInv, TypeOK
  <2>3. Nested' /\ Unsplit' /\ Masked' /\ Kept'
    BY <1>1, <1>b
       DEF RunEnd, IInv, TypeOK, Nested, Unsplit, Masked, Kept,
           MaskedExactlyInHandlers, NoLostWakeup
  <2> QED BY <2>2, <2>3 DEF IInv
<1>2. CASE Poll
  BY <1>2, Flags, BhsAssumption
     DEF Poll, Polling, lock_bh, BHs, IInv, TypeOK, Nested, Unsplit, Masked, Kept,
         MaskedExactlyInHandlers, NoLostWakeup
<1>3. CASE PollEnd
  <2>1. TypeOK'
    BY <1>3, <1>a, <1>b DEF PollEnd, IInv, TypeOK
  <2>2. Nested' /\ Unsplit' /\ Masked' /\ Kept'
    BY <1>3, <1>b
       DEF PollEnd, IInv, TypeOK, Nested, Unsplit, Masked, Kept,
           MaskedExactlyInHandlers, NoLostWakeup
  <2> QED BY <2>1, <2>2 DEF IInv
<1>4. CASE LoopEnd
  BY <1>4, BhsAssumption
     DEF LoopEnd, IInv, TypeOK, Nested, Unsplit, Masked, Kept,
         MaskedExactlyInHandlers, NoLostWakeup
<1> QED BY <1>1, <1>2, <1>3, <1>4

(* The steps that push or pop the stack.                                   *)
LEMMA StackPreserves ==
    ASSUME IInv, SameBuild, bh_sync \/ SyncEnd \/ SetStore \/ \E b \in BHs : SetLoad(b)
    PROVE  IInv'
<1>1. CASE bh_sync
  <2>1. /\ stack' \in Seq(Frames) /\ stack' # <<>> /\ pc' = "scan"
        /\ \A i \in 1 .. Len(stack') : stack'[i].sync => i > 1
    BY <1>1, CallFrom DEF bh_sync, IInv, TypeOK, Nested
  <2> QED BY <1>1, <2>1, BhsAssumption
          DEF bh_sync, IInv, TypeOK, Nested, Unsplit, Masked, Kept,
              MaskedExactlyInHandlers, NoLostWakeup
<1>2. ASSUME NEW b \in BHs, SetLoad(b)
      PROVE  IInv'
  <2>1. /\ stack' \in Seq(Frames) /\ stack' # <<>> /\ pc' = "set"
        /\ \A i \in 1 .. Len(stack') : stack'[i].sync => i > 1
    BY <1>2, CallFrom DEF SetLoad, IInv, TypeOK, Nested
  <2>2. ~Atomic /\ Realtime
    BY <1>2, Flags
       DEF SetLoad, IInv, TypeOK, Masked, MaskedExactlyInHandlers
  <2> QED BY <1>2, <2>1, <2>2, BhsAssumption
          DEF SetLoad, BHs, IInv, TypeOK, Nested, Unsplit, Masked, Kept,
              MaskedExactlyInHandlers
<1>3. CASE SetStore
  <2>1. /\ stack' \in Seq(Frames)
        /\ pc' \in Handlers /\ bh' \in BHs /\ sync' \in BOOLEAN
        /\ sync' => stack' # <<>>
        /\ \A i \in 1 .. Len(stack') : stack'[i].sync => i > 1
    BY <1>3, ReturnTo DEF SetStore, IInv, TypeOK, Nested
  <2>2. ~Atomic /\ Realtime /\ bh \in BHs
    BY <1>3, Flags DEF SetStore, IInv, Unsplit, Nested
  <2> QED BY <1>3, <2>1, <2>2, BhsAssumption
          DEF SetStore, Owe, BHs, IInv, TypeOK, Nested, Unsplit, Masked, Kept,
              MaskedExactlyInHandlers
<1>4. CASE SyncEnd
  <2>1. /\ stack' \in Seq(Frames)
        /\ pc' \in Handlers /\ bh' \in BHs /\ sync' \in BOOLEAN
        /\ sync' => stack' # <<>>
        /\ \A i \in 1 .. Len(stack') : stack'[i].sync => i > 1
    BY <1>4, ReturnTo DEF SyncEnd, IInv, TypeOK, Nested
  <2>2. bh' \in 0 .. INVALID_BH
    BY <2>1, BhsAssumption DEF BHs
  <2>3. TypeOK'
    BY <1>4, <2>1, <2>2 DEF SyncEnd, IInv, TypeOK
  <2>4. Nested' /\ Unsplit' /\ Masked'
    BY <1>4, <2>1
       DEF SyncEnd, IInv, Nested, Unsplit, Masked, MaskedExactlyInHandlers
  <2>5. Kept'
    BY <1>4, <2>1 DEF SyncEnd, IInv, Kept, NoLostWakeup
  <2> QED BY <2>3, <2>4, <2>5 DEF IInv
<1> QED BY <1>1, <1>2, <1>3, <1>4

LEMMA NextIInv == IInv /\ [Next]_vars => IInv'
<1> SUFFICES ASSUME IInv, [Next]_vars PROVE IInv'
  OBVIOUS
<1>1. build' = build
  BY DEF Next, Step, vars
<1>2. SameBuild
  BY <1>1 DEF Atomic, Realtime
<1>3. CASE UNCHANGED vars
  BY <1>2, <1>3 DEF vars, IInv, TypeOK, Nested, Unsplit, Masked, Kept,
                    MaskedExactlyInHandlers, NoLostWakeup
<1>4. CASE Next
  <2> HIDE DEF SameBuild
  <2> QED BY <1>2, <1>4, ResumePreserves, StartPreserves, ScanPreserves,
             RunPreserves, EndPreserves, StackPreserves DEF Next, Step
<1> QED BY <1>3, <1>4

LEMMA Invariance == Spec => []IInv
BY InitIInv, NextIInv, PTL DEF Spec

-----------------------------------------------------------------------------
(* The state of bh.c and irq.c keeps its types, for any nesting: the stack *)
(* of scans holds handlers that are running, the position never passes     *)
(* INVALID_BH.                                                             *)
THEOREM TypeCorrect == Spec => []TypeOK
<1>1. IInv => TypeOK
  BY DEF IInv
<1> QED BY <1>1, Invariance, PTL

(* No wake-up is lost in an SMP build: bh_suspend before bh_run and the    *)
(* atomic clear_bit keep every bh_resume until a handler call answers it.  *)
THEOREM WakeupsKept == Spec => []SmpKeepsWakeups
<1>1. IInv => SmpKeepsWakeups
  BY DEF IInv, Kept
<1> QED BY <1>1, Invariance, PTL

(* Unless the build is SYS_REALTIME, interrupts are masked in handlers and *)
(* nowhere else, through any nesting of bh_run and bh_sync.                *)
THEOREM Masking == Spec => []MaskedExactlyInHandlers
<1>1. IInv => MaskedExactlyInHandlers
  BY DEF IInv, Masked
<1> QED BY <1>1, Invariance, PTL
=============================================================================
