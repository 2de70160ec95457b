------------------------------ MODULE T1Proofs ------------------------------
(***************************************************************************)
(* Proofs about T1: whatever is lost or garbled on the line, whatever the  *)
(* card asks for in between, for every length and every buffer that has    *)
(* room for a block (Roomy), the command arrives whole and once and no     *)
(* BUG_ON on a length or an offset fires; the response is whole in the     *)
(* buffer when the exchange is reported done, if it is not longer than the *)
(* buffer allows for (Lawful); and no block runs over the buffer, if the   *)
(* reader's blocks are not too long for a uint8_t (Snug).                  *)
(*                                                                         *)
(* The invariant IInv says what each side knows of the other, and where    *)
(* the bytes of the command and of the response are while a block that     *)
(* overwrites some of them is out.  The proof follows the code: what       *)
(* saving, building, storing and restoring do to the buffer; that every    *)
(* block ifd_t1_xchg_aval builds is the one that is due (AvalSentOut);     *)
(* that every block taken leaves the reader ready for the next             *)
(* (ErrorFreeContinues, ErrorReady); then one lemma for each action.       *)
(***************************************************************************)
EXTENDS T1, TLAPS

USE Zenon DEF IFD_T1_PROLOGUE_SIZE, IFD_T1_SAFE_IFSD

(* What the build and the cards must satisfy. int is wider than the        *)
(* uint16_t offsets, so that tx - ifsd_rx may be negative (line 684 of     *)
(* ifd_t1.c); the longest block fits into the buffer; and a piece of any   *)
(* IFSC fits beside the shortest answer.                                   *)
Roomy ==
    /\ IntBits = 32
    /\ IFD_T1_PROLOGUE_SIZE + Epilogue + IFD_T1_MAX_IFSD <= IFD_BUF_SIZE
    /\ \A v \in CardIfs :
          v + IFD_T1_PROLOGUE_SIZE + Epilogue + IFD_T1_SAFE_IFSD + Epilogue <= IFD_BUF_SIZE

(* ifd_t1_safe_size fits into its uint8_t (line 657). Where it does not, a *)
(* block near the end of the buffer is placed as if it were a short one,   *)
(* and its last bytes come to lie behind the end.                          *)
Snug == IFD_T1_PROLOGUE_SIZE + Epilogue + IFD_T1_MAX_IFSD <= 255

(* Those bytes do not belong to the response if this is no longer than a   *)
(* short APDU may be: 256 bytes, SW1 and SW2 (SCS_APDU_MAX + 2), where the *)
(* buffer has 5 bytes more than SCS_APDU_MAX. What is said below of the    *)
(* bytes of the response is said for Lawful only.                          *)
Lawful == Snug \/ \A r \in Responses : r + IFD_T1_PROLOGUE_SIZE <= IFD_BUF_SIZE

(* The types of the state.                                                 *)
Bits == {0, 1}
SBlocks == {"RESYNC", "IFS", "WTX"}
Pcbs == {I(n, m) : n \in Bits, m \in BOOLEAN} \cup {R(n) : n \in Bits}
        \cup {S(s, r) : s \in SBlocks, r \in BOOLEAN}

Ifds == [ns : Bits, nr : Bits, tx_cmpl : BOOLEAN, rx_cmpl : BOOLEAN, pcb : Pcbs,
         ack_type : SBlocks, ack_info : Nat, level : Int, retry : Int,
         tx : Nat, rx : Nat, nc : Nat, tx_blk : Nat, rx_blk : Nat, ifsc : Nat, ifsd : Nat,
         ack_ifsc : Nat, saved_buf : Seq(Int), buf : Seq(Int),
         conf_ifsc : CardIfs, conf_ifsd : Nat, bug : BOOLEAN]

Cards == [ns : Bits, nr : Bits, got : Seq(Int), last : {"I", "R"}, resp : Nat, pos : Nat,
          piece : Nat, ifsd : Nat, req : {"none", "WTX", "IFS"}, info : Nat]

Blocks == [pcb : Pcbs, inf : Seq(Int)]

(* The reader's state is well typed, its buffer keeps its size, and no     *)
(* BUG_ON has fired; an S(IFS) to be answered asks for one byte at least.  *)
Sound(e) ==
    /\ e \in Ifds /\ Len(e.buf) = IFD_BUF_SIZE /\ ~e.bug
    /\ e.ack_type = "IFS" => e.ack_info >= IFD_T1_SAFE_IFSD
    /\ e.conf_ifsd \in 1 .. 254

(* Where ifd_t1_save_buffer puts a piece of the command: behind the        *)
(* longest answer that may come while the command is being sent.           *)
SafeIndex == IFD_T1_PROLOGUE_SIZE + Epilogue + IFD_T1_SAFE_IFSD

(* How many bytes of the response the next block would overwrite.          *)
Saved(e) == IF IFD_BUF_SIZE - e.rx < Safe(e) THEN Safe(e) - (IFD_BUF_SIZE - e.rx) ELSE 0

(* cnt bytes of the command from pos on, or of the response, lie at at.    *)
CommandAt(s, at, pos, cnt) == \A i \in 1 .. cnt : s[at + i] = pos + i
ResponseAt(s, at, pos, cnt) == Lawful => \A i \in 1 .. cnt : s[at + i] = -(pos + i)

(* A block is out and the command is not all sent: the piece it carries    *)
(* lies at SafeIndex, what the frame of the block covers behind the piece  *)
(* is in saved_buf, and the rest of the command is where it was. The       *)
(* answer, of one byte, can reach none of this.                            *)
ParkedTx(e) ==
    LET end == e.tx + e.ifsc
        last == Higher(end, SaveEnd(e))
    IN /\ e.rx = 0 /\ e.ifsd = IFD_T1_SAFE_IFSD /\ e.rx_blk = 0
       /\ end <= e.nc /\ e.nc <= IFD_BUF_SIZE
       /\ SafeIndex + e.ifsc + Epilogue <= IFD_BUF_SIZE
       /\ CommandAt(e.buf, SafeIndex, e.tx, e.ifsc)
       /\ SaveEnd(e) > end =>
            Len(e.saved_buf) = SaveEnd(e) - end /\ CommandAt(e.saved_buf, 0, end, SaveEnd(e) - end)
       /\ CommandAt(e.buf, last, last, e.nc - last)

(* A block is out and the response is coming in: what has come of it lies  *)
(* in the buffer and, as far as the next block may cover it, in saved_buf. *)
ParkedRx(e) ==
    /\ e.rx < IFD_BUF_SIZE /\ e.ifsd <= IFD_BUF_SIZE - e.rx
    /\ e.ifsd \in 1 .. IFD_T1_MAX_IFSD
    /\ e.rx_blk = e.rx - Saved(e)
    /\ ResponseAt(e.buf, 0, 0, e.rx_blk)
    /\ Saved(e) > 0 =>
         Len(e.saved_buf) = Saved(e) /\ ResponseAt(e.saved_buf, 0, e.rx_blk, Saved(e))

Parked(e) == IF e.tx < e.nc THEN ParkedTx(e) ELSE ParkedRx(e)

(* No block is out: the command that is left, or the response so far, is   *)
(* where it belongs.                                                       *)
InPlace(e) ==
    IF e.tx < e.nc THEN CommandAt(e.buf, e.tx, e.tx, e.nc - e.tx)
    ELSE ResponseAt(e.buf, 0, 0, e.rx)

(* The card has nothing outstanding from its last answer: it acknowledged, *)
(* or the last I-block of its response has been taken.                     *)
Settled(e, c) ==
    /\ c.req = "none"
    /\ \/ c.last = "R" /\ c.ns = e.nr
       \/ c.last = "I" /\ c.ns # e.nr /\ c.pos + c.piece = c.resp

(* The card has taken the command up to tx, and waits for the next piece.  *)
Waiting(e, c) ==
    /\ ~e.tx_cmpl /\ e.tx < e.nc /\ e.rx = 0
    /\ c.nr = e.ns /\ c.got = Command(e.tx) /\ Settled(e, c)

(* The card has taken the piece that is out; the reader has not heard so.  *)
Arrived(e, c) ==
    /\ ~e.tx_cmpl /\ e.tx < e.nc /\ e.rx = 0
    /\ c.nr # e.ns /\ e.ack_ifsc > 0 /\ e.tx + e.ack_ifsc <= e.nc
    /\ c.got = Command(e.tx + e.ack_ifsc) /\ c.ns = e.nr
    /\ IF e.tx + e.ack_ifsc < e.nc THEN c.last = "R"
       ELSE c.last = "I" /\ c.pos = 0 /\ c.resp \in Responses /\ c.piece <= c.resp

(* The command is delivered and the response under way: rx is before or    *)
(* behind the piece the card sent last, as the numbers nr and ns tell.     *)
Complete(e, c) ==
    /\ e.tx_cmpl /\ e.tx = e.nc
    /\ c.nr = e.ns /\ c.got = Command(e.nc)
    /\ c.last = "I" /\ c.resp \in Responses
    /\ c.pos + c.piece <= c.resp /\ e.rx < c.resp
    /\ IF c.ns = e.nr THEN e.rx = c.pos ELSE e.rx = c.pos + c.piece /\ c.req = "none"

(* The two ends agree on how far the exchange has come, as well as they    *)
(* can.                                                                    *)
Agreed(e, c) ==
    /\ ~e.rx_cmpl /\ e.nc \in Commands
    /\ Waiting(e, c) \/ Arrived(e, c) \/ Complete(e, c)

(* Before ifd_t1_xchg_aval builds a block. Between the pieces of a command *)
(* the reader never takes an answer of more than one byte; when an I-block *)
(* is to be built, the card does not already have the piece.               *)
Ready(e, c) ==
    /\ Sound(e) /\ Agreed(e, c) /\ InPlace(e)
    /\ e.tx < e.nc => e.ifsd <= IFD_T1_SAFE_IFSD
    /\ e.conf_ifsd # IFD_T1_SAFE_IFSD => e.tx = e.nc \/ (e.pcb.t = "I" /\ e.tx = 0)
    /\ e.tx = e.nc => e.pcb.t = "I" \/ e.conf_ifsd = Lower(IFD_T1_MAX_IFSD, IFD_BUF_SIZE - e.rx)
    /\ e.pcb.t = "I" => ~Arrived(e, c)

(* While a block is out.                                                   *)
Out(e, c) ==
    /\ Sound(e) /\ Agreed(e, c) /\ Parked(e)
    /\ e.tx < e.nc => e.conf_ifsd = IFD_T1_SAFE_IFSD
    /\ e.tx = e.nc => /\ e.conf_ifsd = Lower(IFD_T1_MAX_IFSD, IFD_BUF_SIZE - e.rx)
                      /\ e.pcb.t # "I"
    /\ e.pcb.t = "S" /\ ~e.pcb.r => ~Arrived(e, c)

(* The block w on its way to the card is the one the reader's state says.  *)
Outgoing(e, c, w) ==
    /\ w \in Blocks
    /\ w.pcb = e.pcb
    /\ e.pcb.t = "I" =>
         /\ Waiting(e, c) /\ e.pcb.n = e.ns
         /\ e.ack_ifsc > 0 /\ e.tx + e.ack_ifsc <= e.nc
         /\ e.pcb.m = (e.nc > e.tx + e.ack_ifsc)
         /\ w.inf = [i \in 1 .. e.ack_ifsc |-> e.tx + i]
    /\ e.pcb.t = "R" => e.pcb.n = e.nr
    /\ e.pcb.t = "S" /\ ~e.pcb.r => e.pcb.s = "IFS" /\ Len(w.inf) = 1 /\ w.inf[1] \in Nat

(* The block w on its way to the reader is one the card's state allows: an *)
(* R-block tells what the card expects, an I-block has the piece of the    *)
(* response that is due, and no answer with data comes before the command  *)
(* is all there.                                                           *)
Incoming(e, c, w) ==
    /\ w \in Blocks
    /\ w.pcb.t = "R" => w.pcb.n = c.nr /\ c.req = "none"
    /\ w.pcb.t = "I" => /\ c.last = "I" /\ c.req = "none" /\ c.ns = e.nr
                        /\ ~Waiting(e, c)
                        /\ w.pcb.m = (c.pos + c.piece < c.resp)
                        /\ w.inf = Piece(c)
    /\ w.pcb.t = "S" /\ ~w.pcb.r =>
          w.pcb.s = c.req /\ w.inf = <<c.info>> /\ ~Waiting(e, c)
    /\ w.pcb.t = "S" /\ w.pcb.r => w.pcb.s = "IFS"

(* Between two commands the sequence numbers of both sides agree.          *)
AtRest(e, c) == Sound(e) /\ e.rx_cmpl /\ c.nr = e.ns /\ Settled(e, c)

(* The command has been answered, and the buffer holds the response.       *)
Done(e, c) ==
    /\ AtRest(e, c)
    /\ c.got = Command(e.nc)
    /\ e.rx = c.resp /\ c.resp \in Responses
    /\ ResponseAt(e.buf, 0, 0, e.rx)

(* The three accounts of an exchange agree: the reader's e, the card's c   *)
(* and the block w.                                                        *)
Coherent(e, p, w, c) ==
    /\ Sound(e) /\ p \in {"idle", "card", "ifd", "done", "failed"} /\ w \in Blocks /\ c \in Cards
    /\ Len(c.got) <= e.nc /\ c.got = Command(Len(c.got))
    /\ c.req = "IFS" => c.info \in CardIfs
    /\ p = "idle" => AtRest(e, c)
    /\ p = "done" => Done(e, c)
    /\ p \in {"card", "ifd"} => Out(e, c)
    /\ p = "card" => Outgoing(e, c, w)
    /\ p = "ifd" => Incoming(e, c, w)

(* The inductive invariant.                                                *)
IInv == Coherent(ifd, phase, wire, card)

-----------------------------------------------------------------------------
(* Cutting, joining, reading and writing sequences of bytes.               *)

(* The operators on sequences that the buffer functions are made of.       *)
LEMMA FramingIs ==
    ASSUME NEW n \in Nat
    PROVE  Framing(n) \in Seq(Int) /\ Len(Framing(n)) = n
  BY SMT DEF Framing, Junk

LEMMA LenIs ==
    \A s \in Seq(Int) : Len(s) \in Nat
  BY SMT

LEMMA CutIs ==
    ASSUME NEW s \in Seq(Int), NEW m \in Nat, m > 0, NEW n \in Nat, n <= Len(s), m <= n + 1
    PROVE  /\ SubSeq(s, m, n) \in Seq(Int)
           /\ Len(SubSeq(s, m, n)) = n - m + 1
           /\ \A i \in 1 .. n - m + 1 : SubSeq(s, m, n)[i] = s[m + i - 1]
<1>1. CASE m <= n
  BY <1>1, SMT
<1>2. CASE m = n + 1
  BY <1>2, SMT
<1>3. QED
  BY <1>1, <1>2, SMT

LEMMA JoinIs ==
    ASSUME NEW s \in Seq(Int), NEW t \in Seq(Int)
    PROVE  /\ s \o t \in Seq(Int)
           /\ Len(s \o t) = Len(s) + Len(t)
           /\ Len(s) \in Nat /\ Len(t) \in Nat
           /\ \A i \in 1 .. Len(s) : (s \o t)[i] = s[i]
           /\ \A i \in 1 .. Len(t) : (s \o t)[Len(s) + i] = t[i]
<1>1. /\ s \o t \in Seq(Int)
      /\ Len(s \o t) = Len(s) + Len(t)
      /\ \A i \in 1 .. Len(s) + Len(t) : (s \o t)[i] = IF i <= Len(s) THEN s[i] ELSE t[i - Len(s)]
  BY SMT
<1>2. Len(s) \in Nat /\ Len(t) \in Nat
  BY LenIs
<1>3. ASSUME NEW i \in 1 .. Len(s) PROVE (s \o t)[i] = s[i]
  BY <1>1, <1>2, SMT
<1>4. ASSUME NEW i \in 1 .. Len(t) PROVE (s \o t)[Len(s) + i] = t[i]
  <2> DEFINE k == Len(s) + i
  <2>1. k \in 1 .. Len(s) + Len(t) /\ ~(k <= Len(s)) /\ k - Len(s) = i
    BY <1>2, SMT
  <2> HIDE DEF k
  <2>2. (s \o t)[k] = t[k - Len(s)]
    BY <1>1, <2>1
  <2>3. QED
    BY <2>1, <2>2 DEF k
<1>5. QED
  BY <1>1, <1>2, <1>3, <1>4

Written(w, buf, at, bytes) ==
    /\ w \in Seq(Int) /\ Len(w) = Len(buf)
    /\ \A i \in 1 .. Len(buf) : (i <= at \/ i > at + Len(bytes)) => w[i] = buf[i]
    /\ \A i \in 1 .. Len(bytes) : w[at + i] = bytes[i]

(* ifd_write: the bytes lie at their place, the others are as before.      *)
LEMMA WriteIs ==
    ASSUME NEW buf \in Seq(Int), NEW at \in Nat, NEW bytes \in Seq(Int),
           at + Len(bytes) <= Len(buf)
    PROVE  Written(Write(buf, at, bytes), buf, at, bytes)
<1> DEFINE A == SubSeq(buf, 1, at)
           B == SubSeq(buf, at + Len(bytes) + 1, Len(buf))
           AB == A \o bytes
           W == AB \o B
           V == SubSeq(W, 1, Len(buf))
<1>1. Len(buf) \in Nat /\ Len(bytes) \in Nat
  BY LenIs
<1>2. A \in Seq(Int) /\ Len(A) = at /\ \A i \in 1 .. at : A[i] = buf[i]
  BY <1>1, CutIs, SMT
<1>3. B \in Seq(Int) /\ Len(B) = Len(buf) - (at + Len(bytes))
      /\ \A i \in 1 .. Len(B) : B[i] = buf[at + Len(bytes) + i]
  BY <1>1, CutIs, SMT
<1> HIDE DEF A, B
<1>4. AB \in Seq(Int) /\ Len(AB) = at + Len(bytes)
      /\ (\A i \in 1 .. at : AB[i] = buf[i])
      /\ (\A i \in 1 .. Len(bytes) : AB[at + i] = bytes[i])
  <2>1. AB \in Seq(Int) /\ Len(AB) = Len(A) + Len(bytes)
        /\ (\A i \in 1 .. Len(A) : AB[i] = A[i])
        /\ (\A i \in 1 .. Len(bytes) : AB[Len(A) + i] = bytes[i])
    BY <1>2, JoinIs
  <2>2. QED
    BY <1>2, <2>1
<1> HIDE DEF AB
<1>5. W \in Seq(Int) /\ Len(W) = Len(buf)
      /\ (\A i \in 1 .. Len(AB) : W[i] = AB[i])
      /\ (\A i \in 1 .. Len(B) : W[Len(AB) + i] = B[i])
  <2>1. W \in Seq(Int) /\ Len(W) = Len(AB) + Len(B)
        /\ (\A i \in 1 .. Len(AB) : W[i] = AB[i])
        /\ (\A i \in 1 .. Len(B) : W[Len(AB) + i] = B[i])
    BY <1>3, <1>4, JoinIs
  <2> HIDE DEF W
  <2>2. QED
    BY <1>1, <1>3, <1>4, <2>1, SMT
<1> HIDE DEF W
<1>6. V \in Seq(Int) /\ Len(V) = Len(buf) /\ \A i \in 1 .. Len(buf) : V[i] = W[i]
  BY <1>1, <1>5, CutIs, SMT
<1>7. Write(buf, at, bytes) = V
  BY DEF Write, A, B, AB, W
<1> HIDE DEF V
<1>8. ASSUME NEW i \in 1 .. Len(buf), i <= at \/ i > at + Len(bytes)
      PROVE  V[i] = buf[i]
  <2>1. CASE i <= at
    <3>1. i \in 1 .. at /\ i \in 1 .. Len(AB)
      BY <1>1, <1>4, <2>1, SMT
    <3>2. QED
      BY <1>4, <1>5, <1>6, <3>1
  <2>2. CASE i > at + Len(bytes)
    <3> DEFINE k == i - (at + Len(bytes))
    <3>1. k \in 1 .. Len(B) /\ Len(AB) + k = i /\ at + Len(bytes) + k = i
      <4> DEFINE m == Len(buf)
                 n == Len(bytes)
      <4>1. m \in Nat /\ n \in Nat /\ i \in 1 .. m /\ i > at + n
            /\ Len(B) = m - (at + n) /\ Len(AB) = at + n
        BY <1>1, <1>3, <1>4, <2>2
      <4> HIDE DEF m, n
      <4>2. i - (at + n) \in 1 .. m - (at + n) /\ at + n + (i - (at + n)) = i
        BY <4>1, SMT
      <4>3. QED
        BY <4>1, <4>2 DEF m, n
    <3> HIDE DEF k
    <3>2. W[Len(AB) + k] = buf[at + Len(bytes) + k]
      BY <1>3, <1>5, <3>1
    <3>3. QED
      BY <1>6, <3>1, <3>2
  <2>3. QED
    BY <1>8, <2>1, <2>2
<1>9. ASSUME NEW i \in 1 .. Len(bytes) PROVE V[at + i] = bytes[i]
  <2> DEFINE m == Len(buf)
             n == Len(bytes)
  <2>1. at + i \in 1 .. m /\ at + i \in 1 .. at + n
    <3>1. m \in Nat /\ n \in Nat /\ i \in 1 .. n /\ at + n <= m
      BY <1>1
    <3> HIDE DEF m, n
    <3>2. QED
      BY <3>1, SMT
  <2>2. QED
    BY <1>4, <1>5, <1>6, <2>1
<1>10. QED
  BY <1>6, <1>7, <1>8, <1>9 DEF Written

Prefix(w, buf, at) == w \in Seq(Int) /\ Len(w) = Len(buf) /\ \A i \in 1 .. at : w[i] = buf[i]
Filled(w, at, bytes) == \A i \in 1 .. Len(bytes) : at + i <= Len(w) => w[at + i] = bytes[i]

(* Bytes that run past the end of the buffer are lost, and cover nothing   *)
(* before their place.                                                     *)
LEMMA WriteKeeps ==
    ASSUME NEW buf \in Seq(Int), NEW at \in Nat, NEW bytes \in Seq(Int), at <= Len(buf)
    PROVE  Prefix(Write(buf, at, bytes), buf, at) /\ Filled(Write(buf, at, bytes), at, bytes)
<1> DEFINE A == SubSeq(buf, 1, at)
           B == SubSeq(buf, at + Len(bytes) + 1, Len(buf))
           AB == A \o bytes
           W == AB \o B
           V == SubSeq(W, 1, Len(buf))
<1>1. Len(buf) \in Nat /\ Len(bytes) \in Nat
  BY LenIs
<1>2. A \in Seq(Int) /\ Len(A) = at /\ \A i \in 1 .. at : A[i] = buf[i]
  BY <1>1, CutIs, SMT
<1>3. B \in Seq(Int) /\ Len(B) \in Nat /\ Len(B) >= Len(buf) - (at + Len(bytes))
  <2>1. CASE at + Len(bytes) <= Len(buf)
    BY <1>1, <2>1, CutIs, SMT
  <2>2. CASE ~(at + Len(bytes) <= Len(buf))
    BY <1>1, <2>2, SMT
  <2>3. QED
    BY <2>1, <2>2
<1> HIDE DEF A, B
<1>4. /\ AB \in Seq(Int) /\ Len(AB) = at + Len(bytes) /\ (\A i \in 1 .. at : AB[i] = buf[i])
      /\ \A i \in 1 .. Len(bytes) : AB[at + i] = bytes[i]
  <2>1. /\ AB \in Seq(Int) /\ Len(AB) = Len(A) + Len(bytes) /\ (\A i \in 1 .. Len(A) : AB[i] = A[i])
        /\ \A i \in 1 .. Len(bytes) : AB[Len(A) + i] = bytes[i]
    BY <1>2, JoinIs
  <2>2. QED
    BY <1>2, <2>1
<1> HIDE DEF AB
<1>5. W \in Seq(Int) /\ Len(W) = Len(AB) + Len(B) /\ (\A i \in 1 .. Len(AB) : W[i] = AB[i])
  BY <1>3, <1>4, JoinIs
<1> HIDE DEF W
<1>6. Len(buf) <= Len(W)
  BY <1>1, <1>3, <1>4, <1>5, SMT
<1>7. V \in Seq(Int) /\ Len(V) = Len(buf) /\ \A i \in 1 .. Len(buf) : V[i] = W[i]
  <2> DEFINE m == Len(buf)
             k == 1
  <2>1. m \in Nat /\ m <= Len(W) /\ W \in Seq(Int)
    BY <1>1, <1>5, <1>6
  <2>2. k \in Nat /\ k > 0 /\ k <= m + 1 /\ m - k + 1 = m /\ \A i \in 1 .. m : k + i - 1 = i
    BY <2>1, SMT
  <2> HIDE DEF m, k
  <2>3. /\ SubSeq(W, k, m) \in Seq(Int) /\ Len(SubSeq(W, k, m)) = m - k + 1
        /\ \A i \in 1 .. m - k + 1 : SubSeq(W, k, m)[i] = W[k + i - 1]
    BY <2>1, <2>2, CutIs
  <2>4. QED
    BY <2>2, <2>3 DEF m, k
<1>8. Write(buf, at, bytes) = V
  BY DEF Write, A, B, AB, W
<1> HIDE DEF V
<1>9. ASSUME NEW i \in 1 .. at PROVE V[i] = buf[i]
  <2>1. i \in 1 .. Len(buf) /\ i \in 1 .. Len(AB)
    BY <1>1, <1>4, SMT
  <2>2. QED
    BY <1>4, <1>5, <1>7, <2>1
<1>10. ASSUME NEW i \in 1 .. Len(bytes), at + i <= Len(V) PROVE V[at + i] = bytes[i]
  <2>1. at + i \in 1 .. Len(buf) /\ at + i \in 1 .. Len(AB)
    BY <1>1, <1>4, <1>7, <1>10, SMT
  <2>2. QED
    BY <1>4, <1>5, <1>7, <2>1
<1>11. QED
  BY <1>7, <1>8, <1>9, <1>10 DEF Prefix, Filled

IsRead(r, buf, at, cnt) ==
    r \in Seq(Int) /\ Len(r) = cnt /\ \A i \in 1 .. cnt : r[i] = buf[at + i]

(* What is read is what lies there.                                        *)
LEMMA ReadIs ==
    ASSUME NEW buf \in Seq(Int), NEW at \in Nat, NEW cnt \in Nat, at + cnt <= Len(buf)
    PROVE  IsRead(Read(buf, at, cnt), buf, at, cnt)
<1> DEFINE W == buf \o Framing(cnt)
<1>1. Len(buf) \in Nat
  BY LenIs
<1>2. W \in Seq(Int) /\ Len(W) = Len(buf) + cnt /\ \A i \in 1 .. Len(buf) : W[i] = buf[i]
  <2> DEFINE F == Framing(cnt)
  <2>1. F \in Seq(Int) /\ Len(F) = cnt
    BY FramingIs
  <2> HIDE DEF F
  <2>2. /\ buf \o F \in Seq(Int) /\ Len(buf \o F) = Len(buf) + Len(F)
        /\ \A i \in 1 .. Len(buf) : (buf \o F)[i] = buf[i]
    BY <2>1, JoinIs
  <2>3. QED
    BY <2>1, <2>2 DEF F
<1> HIDE DEF W
<1>3. Read(buf, at, cnt) = SubSeq(W, at + 1, at + cnt)
  BY DEF Read, W
<1>4. at + 1 \in Nat /\ at + 1 > 0 /\ at + cnt \in Nat /\ at + cnt <= Len(W) /\ at + 1 <= (at + cnt) + 1
  BY <1>1, <1>2, SMT
<1>5. /\ SubSeq(W, at + 1, at + cnt) \in Seq(Int)
      /\ Len(SubSeq(W, at + 1, at + cnt)) = (at + cnt) - (at + 1) + 1
      /\ \A i \in 1 .. (at + cnt) - (at + 1) + 1 : SubSeq(W, at + 1, at + cnt)[i] = W[(at + 1) + i - 1]
  BY <1>2, <1>4, CutIs
<1>6. (at + cnt) - (at + 1) + 1 = cnt
  BY SMT
<1>7. ASSUME NEW i \in 1 .. cnt PROVE SubSeq(W, at + 1, at + cnt)[i] = buf[at + i]
  <2>1. (at + 1) + i - 1 = at + i /\ at + i \in 1 .. Len(buf)
    BY <1>1, SMT
  <2>2. QED
    BY <1>2, <1>5, <1>6, <2>1
<1>8. QED
  BY <1>3, <1>5, <1>6, <1>7 DEF IsRead

LEMMA ReadTyped ==
    ASSUME NEW buf \in Seq(Int), NEW at \in Nat, NEW cnt \in Nat, at <= Len(buf)
    PROVE  Read(buf, at, cnt) \in Seq(Int)
<1> DEFINE F == Framing(cnt)
           W == buf \o F
<1>1. F \in Seq(Int) /\ Len(F) = cnt
  BY FramingIs
<1> HIDE DEF F
<1>2. W \in Seq(Int) /\ Len(W) = Len(buf) + cnt /\ Len(buf) \in Nat
  BY <1>1, JoinIs
<1> HIDE DEF W
<1>3. at + 1 \in Nat /\ at + 1 > 0 /\ at + cnt \in Nat /\ at + cnt <= Len(W) /\ at + 1 <= (at + cnt) + 1
  BY <1>2, SMT
<1>4. SubSeq(W, at + 1, at + cnt) \in Seq(Int)
  BY <1>2, <1>3, CutIs
<1>5. QED
  BY <1>4 DEF Read, W, F

LEMMA FramedIs ==
    ASSUME NEW inf \in Seq(Int)
    PROVE  /\ Framed(inf) \in Seq(Int)
           /\ Len(inf) \in Nat
           /\ Len(Framed(inf)) = IFD_T1_PROLOGUE_SIZE + Len(inf) + Epilogue
           /\ \A i \in 1 .. Len(inf) : Framed(inf)[IFD_T1_PROLOGUE_SIZE + i] = inf[i]
<1> DEFINE P == Framing(IFD_T1_PROLOGUE_SIZE)
           E == Framing(Epilogue)
           PI == P \o inf
<1>1. P \in Seq(Int) /\ Len(P) = IFD_T1_PROLOGUE_SIZE
  <2>1. 3 \in Nat
    BY SMT
  <2>2. QED
    BY <2>1, FramingIs
<1>2. E \in Seq(Int) /\ Len(E) = Epilogue /\ Epilogue \in Nat
  <2>1. Epilogue \in Nat
    BY SMT, SizesAssumption
  <2>2. QED
    BY <2>1, FramingIs
<1> HIDE DEF P, E
<1>3. /\ PI \in Seq(Int) /\ Len(PI) = Len(P) + Len(inf) /\ Len(inf) \in Nat
      /\ \A i \in 1 .. Len(inf) : PI[Len(P) + i] = inf[i]
  BY <1>1, JoinIs
<1> HIDE DEF PI
<1>4. /\ PI \o E \in Seq(Int) /\ Len(PI \o E) = Len(PI) + Len(E)
      /\ \A i \in 1 .. Len(PI) : (PI \o E)[i] = PI[i]
  BY <1>2, <1>3, JoinIs
<1>5. Framed(inf) = PI \o E
  BY DEF Framed, PI, P, E
<1>6. ASSUME NEW i \in 1 .. Len(inf) PROVE IFD_T1_PROLOGUE_SIZE + i \in 1 .. Len(PI)
  BY <1>1, <1>3, SMT DEF IFD_T1_PROLOGUE_SIZE
<1>7. Len(Framed(inf)) = IFD_T1_PROLOGUE_SIZE + Len(inf) + Epilogue
  BY <1>1, <1>2, <1>3, <1>4, <1>5
<1>8. QED
  BY <1>1, <1>3, <1>4, <1>5, <1>6, <1>7

Moved(w, buf, to, from, cnt) ==
    /\ w \in Seq(Int) /\ Len(w) = Len(buf)
    /\ \A i \in 1 .. Len(buf) : (i <= to \/ i > to + cnt) => w[i] = buf[i]
    /\ \A i \in 1 .. cnt : w[to + i] = buf[from + i]

(* ifd_xchg_move copies as if source and target did not overlap.           *)
LEMMA MoveIs ==
    ASSUME NEW buf \in Seq(Int), NEW to \in Nat, NEW from \in Nat, NEW cnt \in Nat,
           to + cnt <= Len(buf), from + cnt <= Len(buf)
    PROVE  Moved(ifd_xchg_move(buf, to, from, cnt), buf, to, from, cnt)
<1> DEFINE T == Read(buf, from, cnt)
<1>1. T \in Seq(Int) /\ Len(T) = cnt /\ \A i \in 1 .. cnt : T[i] = buf[from + i]
  BY ReadIs DEF IsRead
<1> HIDE DEF T
<1>2. to + Len(T) <= Len(buf)
  BY <1>1
<1>3. ifd_xchg_move(buf, to, from, cnt) = Write(buf, to, T)
  BY DEF ifd_xchg_move, T
<1>4. Written(Write(buf, to, T), buf, to, T)
  BY <1>1, <1>2, WriteIs
<1>5. QED
  BY <1>1, <1>3, <1>4 DEF Written, Moved

LEMMA MoveKeeps ==
    ASSUME NEW buf \in Seq(Int), NEW to \in Nat, NEW from \in Nat, NEW cnt \in Nat,
           to <= Len(buf), from <= Len(buf)
    PROVE  Prefix(ifd_xchg_move(buf, to, from, cnt), buf, to)
  BY ReadTyped, WriteKeeps DEF ifd_xchg_move

-----------------------------------------------------------------------------
(* Numbers.                                                                *)

(* The uint8_t conversion leaves a byte alone.                             *)
LEMMA Uint8 ==
    ASSUME NEW n \in 0 .. 255
    PROVE  uint8(n) = n
  BY SMT DEF uint8

(* What the assumptions say of the constants.                              *)
LEMMA Sizes ==
    /\ IFD_BUF_SIZE \in Nat /\ Epilogue \in 1 .. 2
    /\ SafeIndex = 4 + Epilogue /\ SafeIndex \in 5 .. 6
    /\ IFD_T1_MAX_IFSD \in 1 .. 254 /\ IFD_T1_IFS_IMPLICIT \in 1 .. 254 /\ IFD_T1_MAX_RETRY \in Nat
<1>1. /\ IFD_BUF_SIZE \in Nat /\ Epilogue \in {1, 2} /\ IFD_T1_MAX_RETRY \in Nat
      /\ IFD_T1_MAX_IFSD \in 1 .. 254 /\ IFD_T1_IFS_IMPLICIT \in 1 .. 254
  BY SizesAssumption
<1>2. Epilogue \in 1 .. 2
  BY <1>1, SMT
<1>3. SafeIndex = 4 + Epilogue
  BY <1>2, SMT DEF SafeIndex
<1>4. SafeIndex \in 5 .. 6
  BY <1>2, <1>3, SMT
<1>5. QED
  BY <1>1, <1>2, <1>3, <1>4

-----------------------------------------------------------------------------
(* The buffer while the command is being sent.                             *)

LEMMA InPlaceIs ==
    ASSUME NEW b, NEW m \in Nat, NEW n \in Nat
    PROVE  CommandAt(b, m, m, n - m) <=> \A i \in 1 .. n : i > m => b[i] = i
<1>1. ASSUME CommandAt(b, m, m, n - m), NEW i \in 1 .. n, i > m PROVE b[i] = i
  <2> DEFINE k == i - m
  <2>1. k \in 1 .. n - m /\ m + k = i
    BY <1>1, SMT
  <2> HIDE DEF k
  <2>2. QED
    BY <1>1, <2>1 DEF CommandAt
<1>2. ASSUME \A i \in 1 .. n : i > m => b[i] = i, NEW i \in 1 .. n - m PROVE b[m + i] = m + i
  <2>1. m + i \in 1 .. n /\ m + i > m
    BY SMT
  <2>2. QED
    BY <1>2, <2>1
<1>3. QED
  BY <1>1, <1>2 DEF CommandAt

Aside(b, tx, nc, ifsc) ==
    /\ b \in Seq(Int) /\ Len(b) = IFD_BUF_SIZE
    /\ CommandAt(b, SafeIndex, tx, ifsc)
    /\ \A i \in 1 .. nc : i > tx => (i > SafeIndex + ifsc => b[i] = i)

(* The piece is moved out of the way.                                      *)
LEMMA MovedPiece ==
    ASSUME NEW buf \in Seq(Int), Len(buf) = IFD_BUF_SIZE,
           NEW tx \in Nat, NEW nc \in Nat, NEW ifsc \in Nat,
           nc <= IFD_BUF_SIZE, tx + ifsc <= nc, SafeIndex + ifsc + Epilogue <= IFD_BUF_SIZE,
           CommandAt(buf, tx, tx, nc - tx)
    PROVE  Aside(ifd_xchg_move(buf, SafeIndex, tx, ifsc), tx, nc, ifsc)
<1> DEFINE b == ifd_xchg_move(buf, SafeIndex, tx, ifsc)
<1>1. SafeIndex \in Nat /\ SafeIndex + ifsc <= Len(buf) /\ tx + ifsc <= Len(buf)
  BY Sizes, SMT
<1>2. Moved(b, buf, SafeIndex, tx, ifsc)
  BY <1>1, MoveIs
<1> HIDE DEF b
<1>3. b \in Seq(Int) /\ Len(b) = IFD_BUF_SIZE
  BY <1>2 DEF Moved
<1>4. ASSUME NEW i \in 1 .. ifsc PROVE b[SafeIndex + i] = tx + i
  <2>1. i \in 1 .. nc - tx
    BY SMT
  <2>2. QED
    BY <1>2, <2>1 DEF Moved, CommandAt
<1>5. ASSUME NEW i \in 1 .. nc, i > tx, i > SafeIndex + ifsc PROVE b[i] = i
  <2>1. i \in 1 .. Len(buf)
    BY Sizes, SMT
  <2>2. buf[i] = i
    BY <1>5, InPlaceIs
  <2>3. QED
    BY <1>2, <1>5, <2>1, <2>2 DEF Moved
<1>6. CommandAt(b, SafeIndex, tx, ifsc)
  BY <1>4 DEF CommandAt
<1>7. QED
  BY <1>3, <1>5, <1>6 DEF b, Aside

Placed(w, tx, nc, ifsc, last) ==
    LET m == Higher(tx + ifsc, last) IN
    /\ w \in Seq(Int) /\ Len(w) = IFD_BUF_SIZE
    /\ CommandAt(w, SafeIndex, tx, ifsc)
    /\ CommandAt(w, m, m, nc - m)

(* The block is put into place: in front of the piece, or of the buffer.   *)
LEMMA PlacedTx ==
    ASSUME NEW b, NEW tx \in Nat, NEW nc \in Nat, NEW ifsc \in Nat, NEW last \in Nat,
           nc <= IFD_BUF_SIZE, tx + ifsc <= nc, SafeIndex + ifsc + Epilogue <= IFD_BUF_SIZE,
           last = nc \/ last = SafeIndex + ifsc + Epilogue,
           Aside(b, tx, nc, ifsc),
           NEW blk \in Nat, NEW data \in Seq(Int), Len(data) = ifsc,
           \/ blk = SafeIndex - 3 /\ CommandAt(data, 0, tx, ifsc)
           \/ blk = 0 /\ ifsc <= 1
    PROVE  Placed(Write(b, blk, Framed(data)), tx, nc, ifsc, last)
<1> DEFINE w == Write(b, blk, Framed(data))
           m == Higher(tx + ifsc, last)
           cnt == 3 + ifsc + Epilogue
<1>1. /\ Framed(data) \in Seq(Int) /\ Len(Framed(data)) = cnt
      /\ \A i \in 1 .. ifsc : Framed(data)[3 + i] = data[i]
  BY FramedIs
<1>2. cnt \in Nat /\ blk + cnt <= IFD_BUF_SIZE
  BY Sizes, SMT
<1>3. Written(w, b, blk, Framed(data))
  BY <1>1, <1>2, WriteIs DEF Aside
<1> HIDE DEF w
<1>4. /\ w \in Seq(Int) /\ Len(w) = IFD_BUF_SIZE
      /\ \A i \in 1 .. IFD_BUF_SIZE : (i <= blk \/ i > blk + cnt) => w[i] = b[i]
      /\ \A i \in 1 .. cnt : w[blk + i] = Framed(data)[i]
  BY <1>1, <1>3 DEF Written, Aside
<1>5. ASSUME NEW i \in 1 .. ifsc PROVE w[SafeIndex + i] = tx + i
  <2>1. CASE blk = SafeIndex - 3 /\ CommandAt(data, 0, tx, ifsc)
    <3>1. 3 + i \in 1 .. cnt /\ blk + (3 + i) = SafeIndex + i /\ 0 + i = i
      BY <2>1, Sizes, SMT
    <3>2. data[0 + i] = tx + i
      BY <2>1 DEF CommandAt
    <3>3. QED
      BY <1>1, <1>4, <3>1, <3>2
  <2>2. CASE blk = 0 /\ ifsc <= 1
    <3>1. SafeIndex + i \in 1 .. IFD_BUF_SIZE /\ SafeIndex + i > blk + cnt
      BY <2>2, Sizes, SMT
    <3>2. QED
      BY <1>4, <3>1 DEF CommandAt, Aside
  <2>3. QED
    BY <2>1, <2>2
<1>6. m \in Nat /\ m >= tx + ifsc /\ m >= last
  BY SMT DEF Higher
<1> HIDE DEF m
<1>7. ASSUME NEW i \in 1 .. nc, i > m PROVE w[i] = i
  <2>1. i \in 1 .. IFD_BUF_SIZE /\ i > blk + cnt /\ i > tx /\ i > SafeIndex + ifsc
    BY <1>6, <1>7, Sizes, SMT
  <2>2. QED
    BY <1>4, <2>1 DEF Aside
<1>8. CommandAt(w, m, m, nc - m)
  BY <1>6, <1>7, InPlaceIs
<1>9. CommandAt(w, SafeIndex, tx, ifsc)
  BY <1>5 DEF CommandAt
<1>10. QED
  BY <1>4, <1>8, <1>9 DEF w, m, Placed

-----------------------------------------------------------------------------
(* Building a block.                                                       *)

LEMMA NoBugStep ==
    ASSUME NEW e \in Ifds, ~e.bug, NEW cond, ~cond
    PROVE  Bug(e, cond) = e
  BY DEF Bug, Ifds

(* The fields that saving and restoring leave alone.                       *)
Kept(r, e) ==
    /\ r.ns = e.ns /\ r.nr = e.nr /\ r.tx_cmpl = e.tx_cmpl /\ r.rx_cmpl = e.rx_cmpl
    /\ r.pcb = e.pcb /\ r.ack_type = e.ack_type /\ r.ack_info = e.ack_info
    /\ r.level = e.level /\ r.retry = e.retry
    /\ r.tx = e.tx /\ r.rx = e.rx /\ r.nc = e.nc /\ r.ifsc = e.ifsc /\ r.ifsd = e.ifsd
    /\ r.ack_ifsc = e.ack_ifsc /\ r.conf_ifsc = e.conf_ifsc /\ r.conf_ifsd = e.conf_ifsd

With(e, rb, tb, sb, b) ==
    [e EXCEPT !.rx_blk = rb, !.tx_blk = tb, !.saved_buf = sb, !.buf = b]

IsWith(r, e, rb, tb, sb, b) ==
    /\ r \in Ifds /\ Kept(r, e) /\ r.bug = e.bug
    /\ r.rx_blk = rb /\ r.tx_blk = tb /\ r.saved_buf = sb /\ r.buf = b

LEMMA WithIs ==
    ASSUME NEW e \in Ifds, NEW rb \in Nat, NEW tb \in Nat, NEW sb \in Seq(Int), NEW b \in Seq(Int)
    PROVE  IsWith(With(e, rb, tb, sb, b), e, rb, tb, sb, b)
<1> DEFINE r == With(e, rb, tb, sb, b)
<1>1. r \in Ifds
  BY DEF Ifds, With
<1>2. Kept(r, e)
  BY DEF Ifds, With, Kept
<1>3. /\ r.bug = e.bug
      /\ r.rx_blk = rb /\ r.tx_blk = tb /\ r.saved_buf = sb /\ r.buf = b
  BY DEF Ifds, With
<1>4. QED
  BY <1>1, <1>2, <1>3 DEF IsWith

LEMMA SoundIs ==
    ASSUME NEW e, Sound(e)
    PROVE  /\ e \in Ifds /\ ~e.bug /\ e.bug \in BOOLEAN
           /\ e.tx \in Nat /\ e.rx \in Nat /\ e.nc \in Nat /\ e.ifsc \in Nat /\ e.ifsd \in Nat
           /\ e.tx_blk \in Nat /\ e.rx_blk \in Nat
           /\ e.buf \in Seq(Int) /\ Len(e.buf) = IFD_BUF_SIZE /\ e.saved_buf \in Seq(Int)
           /\ e.pcb \in Pcbs /\ e.conf_ifsc \in CardIfs /\ e.conf_ifsd \in 1 .. 254
           /\ e.ns \in Bits /\ e.nr \in Bits /\ e.ack_ifsc \in Nat /\ e.ack_info \in Nat
           /\ e.tx_cmpl \in BOOLEAN /\ e.rx_cmpl \in BOOLEAN
           /\ e.level \in Int /\ e.retry \in Int /\ e.ack_type \in SBlocks
  BY DEF Sound, Ifds

LEMMA SoundKept ==
    ASSUME NEW e, Sound(e), NEW r \in Ifds, Kept(r, e), Len(r.buf) = IFD_BUF_SIZE, r.bug = e.bug
    PROVE  Sound(r)
  BY DEF Sound, Kept

(* What is known of the buffer before a block is built while the command   *)
(* is being sent.                                                          *)
PlainTx(e) ==
    /\ e.tx < e.nc /\ e.nc <= IFD_BUF_SIZE /\ e.rx = 0 /\ e.ifsd = 1
    /\ e.tx + e.ifsc <= e.nc /\ SafeIndex + e.ifsc + Epilogue <= IFD_BUF_SIZE
    /\ IF e.pcb.t = "I" THEN e.ifsc > 0 ELSE e.ifsc <= 1
    /\ CommandAt(e.buf, e.tx, e.tx, e.nc - e.tx)

TxSizes(e) == e.tx < e.nc /\ e.tx + e.ifsc <= e.nc /\ e.ifsd = 1

(* What ifd_t1_save_buffer saves of the command fits into saved_buf.       *)
LEMMA SaveEndTx ==
    ASSUME NEW e, Sound(e), TxSizes(e)
    PROVE  /\ Safe(e) = SafeIndex
           /\ SaveEnd(e) \in Nat /\ SaveEnd(e) <= e.nc
           /\ SaveEnd(e) = e.nc \/ SaveEnd(e) = SafeIndex + e.ifsc + Epilogue
           /\ SaveEnd(e) - (e.tx + e.ifsc) <= 8
           /\ SaveEnd(e) > e.tx + e.ifsc => uint8(SaveEnd(e) - (e.tx + e.ifsc)) = SaveEnd(e) - (e.tx + e.ifsc)
<1> DEFINE tx == e.tx
           nc == e.nc
           ifsc == e.ifsc
           last == SaveEnd(e)
           over == last - (tx + ifsc)
<1>1. tx \in Nat /\ nc \in Nat /\ ifsc \in Nat /\ tx < nc /\ tx + ifsc <= nc /\ e.ifsd = 1
  BY SoundIs DEF TxSizes
<1>2. Safe(e) = SafeIndex
  <2>1. SafeIndex \in 0 .. 255
    BY Sizes, SMT
  <2>2. QED
    BY <1>1, <2>1, Uint8 DEF Safe, SafeIndex
<1>3. last = IF SafeIndex + ifsc + Epilogue < nc THEN SafeIndex + ifsc + Epilogue ELSE nc
  BY <1>2 DEF SaveEnd, Lower
<1> HIDE DEF tx, nc, ifsc, last
<1>4. last \in Nat /\ last <= nc /\ (last = nc \/ last = SafeIndex + ifsc + Epilogue) /\ over <= 8
      /\ (last > tx + ifsc => over \in 0 .. 255)
  <2>1. SafeIndex \in Nat /\ Epilogue \in Nat /\ SafeIndex + Epilogue <= 8
    BY Sizes, SMT
  <2>2. last \in Nat /\ last <= nc /\ (last = nc \/ last = SafeIndex + ifsc + Epilogue)
        /\ last <= SafeIndex + ifsc + Epilogue
    BY <1>1, <1>3, <2>1, SMT
  <2>3. over <= 8 /\ (last > tx + ifsc => over \in 0 .. 255)
    BY <1>1, <2>1, <2>2, SMT
  <2>4. QED
    BY <2>2, <2>3
<1>5. QED
  BY <1>2, <1>4, Uint8 DEF tx, nc, ifsc, last

(* Building a block while the command is being sent parks the command, and *)
(* no BUG_ON fires.                                                        *)
LEMMA BuildTx ==
    ASSUME NEW e, Sound(e), PlainTx(e)
    PROVE  /\ Sound(Build(e)) /\ Kept(Build(e), e) /\ ParkedTx(Build(e))
           /\ e.pcb.t = "I" => Build(e).tx_blk = SafeIndex - 3
<1> DEFINE buf == e.buf
           tx == e.tx
           nc == e.nc
           ifsc == e.ifsc
           type == e.pcb.t
           last == SaveEnd(e)
           end == tx + ifsc
           blk == IF type = "I" THEN SafeIndex - 3 ELSE 0
           sb == IF last > end THEN Read(buf, end, last - end) ELSE e.saved_buf
           b1 == ifd_xchg_move(buf, SafeIndex, tx, ifsc)
           data == IF type = "I" THEN Read(b1, blk + 3, ifsc) ELSE Framing(ifsc)
           b2 == Write(b1, blk, Framed(data))
           f == With(e, 0, blk, sb, b1)
           g == With(e, 0, blk, sb, b2)
<1>1. /\ e \in Ifds /\ ~e.bug /\ e.rx = 0 /\ e.ifsd = 1 /\ e.saved_buf \in Seq(Int)
  BY SoundIs DEF PlainTx
<1>2. /\ tx \in Nat /\ nc \in Nat /\ ifsc \in Nat
      /\ buf \in Seq(Int) /\ Len(buf) = IFD_BUF_SIZE
      /\ tx < nc /\ nc <= IFD_BUF_SIZE
      /\ tx + ifsc <= nc /\ SafeIndex + ifsc + Epilogue <= IFD_BUF_SIZE
      /\ IF type = "I" THEN ifsc > 0 ELSE ifsc <= 1
  BY SoundIs DEF PlainTx
<1>3. CommandAt(buf, tx, tx, nc - tx)
  BY DEF PlainTx
<1>4. /\ last \in Nat /\ last <= nc
      /\ last = nc \/ last = SafeIndex + ifsc + Epilogue
      /\ last - end <= 8
      /\ last > end => uint8(last - end) = last - end
  BY SaveEndTx DEF PlainTx, TxSizes
<1>5. Safe(e) = SafeIndex
  BY SaveEndTx DEF PlainTx, TxSizes
<1> HIDE DEF buf, tx, nc, ifsc, type, last
<1>6. /\ sb \in Seq(Int)
      /\ last > end => /\ Len(sb) = last - end
                       /\ CommandAt(sb, 0, end, last - end)
  <2>1. CASE last > end
    <3>1. end \in Nat /\ last - end \in Nat /\ end + (last - end) <= Len(buf)
      BY <1>2, <1>4, <2>1, Sizes, SMT
    <3>2. /\ sb \in Seq(Int) /\ Len(sb) = last - end
          /\ \A i \in 1 .. last - end : sb[i] = buf[end + i]
      BY <1>2, <2>1, <3>1, ReadIs DEF IsRead
    <3>3. ASSUME NEW i \in 1 .. last - end PROVE sb[0 + i] = end + i
      <4>1. end + i \in 1 .. nc /\ end + i > tx /\ 0 + i = i
        BY <1>2, <1>4, SMT
      <4>2. buf[end + i] = end + i
        BY <1>2, <1>3, <4>1, InPlaceIs
      <4>3. QED
        BY <3>2, <4>1, <4>2
    <3>4. CommandAt(sb, 0, end, last - end)
      BY <3>3 DEF CommandAt
    <3>5. QED
      BY <3>2, <3>4
  <2>2. CASE ~(last > end)
    BY <1>1, <2>2
  <2>3. QED
    BY <2>1, <2>2
<1>7. /\ Aside(b1, tx, nc, ifsc)
      /\ b1 \in Seq(Int) /\ Len(b1) = IFD_BUF_SIZE
      /\ CommandAt(b1, SafeIndex, tx, ifsc)
  <2>1. Aside(b1, tx, nc, ifsc)
    BY <1>2, <1>3, MovedPiece
  <2>2. QED
    BY <2>1 DEF Aside
<1>8. blk \in Nat /\ (type = "I" => blk + 3 = SafeIndex) /\ (type # "I" => blk = 0)
      /\ ~(blk + 3 + ifsc + Epilogue > IFD_BUF_SIZE)
      /\ ~(IFD_BUF_SIZE < blk + 1 + 3 + Epilogue)
      /\ ~(last > IFD_BUF_SIZE)
  <2>1. CASE type = "I"
    BY <1>2, <1>4, <2>1, Sizes, SMT
  <2>2. CASE type # "I"
    BY <1>2, <1>4, <2>2, Sizes, SMT
  <2>3. QED
    BY <2>1, <2>2
<1> HIDE DEF sb, b1, blk
<1>9. data \in Seq(Int) /\ Len(data) = ifsc
      /\ (type = "I" => CommandAt(data, 0, tx, ifsc))
  <2>1. CASE type = "I"
    <3>1. SafeIndex \in Nat /\ SafeIndex + ifsc <= Len(b1)
      BY <1>2, <1>7, Sizes, SMT
    <3>2. data = Read(b1, SafeIndex, ifsc)
      BY <1>8, <2>1
    <3>3. IsRead(data, b1, SafeIndex, ifsc)
      BY <1>2, <1>7, <3>1, <3>2, ReadIs
    <3>4. ASSUME NEW i \in 1 .. ifsc PROVE 0 + i = i
      BY SMT
    <3>5. CommandAt(data, 0, tx, ifsc)
      BY <1>7, <3>3, <3>4 DEF CommandAt, IsRead
    <3>6. QED
      BY <3>3, <3>5 DEF IsRead
  <2>2. CASE type # "I"
    BY <1>2, <2>2, FramingIs
  <2>3. QED
    BY <2>1, <2>2
<1> HIDE DEF data
<1>10. /\ b2 \in Seq(Int) /\ Len(b2) = IFD_BUF_SIZE
       /\ CommandAt(b2, SafeIndex, tx, ifsc)
       /\ CommandAt(b2, Higher(end, last), Higher(end, last), nc - Higher(end, last))
  <2>1. \/ blk = SafeIndex - 3 /\ CommandAt(data, 0, tx, ifsc)
        \/ blk = 0 /\ ifsc <= 1
    BY <1>2, <1>8, <1>9 DEF blk
  <2>2. Placed(b2, tx, nc, ifsc, last)
    BY <1>2, <1>4, <1>7, <1>8, <1>9, <2>1, PlacedTx
  <2>3. QED
    BY <2>2 DEF Placed
<1> HIDE DEF b2
<1>11. ifd_t1_save_buffer(e) = f
  <2> DEFINE h == [e EXCEPT !.rx_blk = 0, !.tx_blk = blk]
             l == [h EXCEPT !.saved_buf = sb]
             k == IF last > end THEN ifd_t1_save(h, end, uint8(last - end)) ELSE h
             bad == \/ IFD_BUF_SIZE < blk + 1 + 3 + Epilogue
                    \/ last > IFD_BUF_SIZE
  <2>1. h \in Ifds /\ ~h.bug /\ h.buf = buf /\ h.saved_buf = e.saved_buf
    BY <1>1, <1>8 DEF Ifds, buf
  <2>2. Bug(h, bad) = h
    BY <1>8, <2>1, NoBugStep
  <2> HIDE DEF h
  <2>3. l \in Ifds /\ ~l.bug /\ l.buf = buf
    BY <1>6, <2>1 DEF Ifds
  <2>4. k = l
    <3>1. CASE last > end
      <4>1. ~(last - end > IFD_T1_SAVE_SIZE)
        BY <1>2, <1>4, SMT DEF IFD_T1_SAVE_SIZE
      <4>2. sb = Read(h.buf, end, uint8(last - end))
        BY <1>4, <2>1, <3>1 DEF sb
      <4>3. k = Bug(l, last - end > IFD_T1_SAVE_SIZE)
        BY <1>4, <3>1, <4>2 DEF ifd_t1_save
      <4>4. QED
        BY <2>3, <4>1, <4>3, NoBugStep
    <3>2. CASE ~(last > end)
      <4>1. k = h /\ sb = h.saved_buf
        BY <2>1, <3>2 DEF sb
      <4>2. QED
        BY <2>1, <4>1 DEF Ifds
    <3>3. QED
      BY <3>1, <3>2
  <2>5. ifd_t1_save_buffer(e) = [k EXCEPT !.buf = ifd_xchg_move(@, SafeIndex, tx, ifsc)]
    <3>1. e.tx < e.nc
      BY <1>2 DEF tx, nc
    <3>2. QED
      BY <1>1, <1>5, <2>2, <3>1 DEF ifd_t1_save_buffer, blk, h, last, tx, ifsc, type
  <2> HIDE DEF k, l
  <2>6. ifd_t1_save_buffer(e) = [l EXCEPT !.buf = b1]
    BY <2>3, <2>4, <2>5 DEF b1
  <2>7. QED
    BY <1>1, <2>1, <2>6 DEF Ifds, With, h, l
<1>12. Build(e) = g
  <2>1. f \in Ifds /\ ~f.bug /\ f.buf = b1 /\ f.tx_blk = blk
    <3>1. 0 \in Nat
      BY SMT
    <3>2. IsWith(f, e, 0, blk, sb, b1)
      BY <1>1, <1>6, <1>7, <1>8, <3>1, WithIs
    <3> HIDE DEF f
    <3>3. QED
      BY <1>1, <3>2 DEF IsWith
  <2>2. [f EXCEPT !.buf = b2] = g
    BY <1>1 DEF Ifds, With
  <2>3. g \in Ifds /\ ~g.bug
    <3>1. 0 \in Nat
      BY SMT
    <3>2. IsWith(g, e, 0, blk, sb, b2)
      BY <1>1, <1>6, <1>8, <1>10, <3>1, WithIs
    <3> HIDE DEF g
    <3>3. QED
      BY <1>1, <3>2 DEF IsWith
  <2>4. Build(e) = Bug([f EXCEPT !.buf = Write(@, f.tx_blk, Framed(data))],
                       f.tx_blk + 3 + ifsc + Epilogue > IFD_BUF_SIZE)
    BY <1>11, <2>1 DEF Build, data, type, ifsc
  <2> HIDE DEF f, g
  <2>5. [f EXCEPT !.buf = Write(@, f.tx_blk, Framed(data))] = g
    BY <2>1, <2>2 DEF b2
  <2>6. QED
    BY <1>8, <2>1, <2>3, <2>4, <2>5, NoBugStep
<1>13. /\ g \in Ifds /\ Kept(g, e) /\ g.bug = e.bug
       /\ g.rx_blk = 0 /\ g.tx_blk = blk /\ g.saved_buf = sb /\ g.buf = b2
  <2>1. 0 \in Nat
    BY SMT
  <2>2. IsWith(g, e, 0, blk, sb, b2)
    BY <1>1, <1>6, <1>8, <1>10, <2>1, WithIs
  <2> HIDE DEF g
  <2>3. QED
    BY <1>1, <2>2 DEF IsWith
<1> HIDE DEF g
<1>14. Sound(g)
  BY <1>10, <1>13, SoundKept
<1>15. SaveEnd(g) = last /\ g.rx = 0 /\ g.ifsd = 1 /\ g.ifsc = ifsc /\ g.tx = tx /\ g.nc = nc
  BY <1>1, <1>13 DEF Kept, SaveEnd, Safe, last, ifsc, tx, nc
<1>16. ParkedTx(g)
  BY <1>2, <1>6, <1>10, <1>13, <1>15 DEF ParkedTx
<1>17. QED
  BY <1>12, <1>13, <1>14, <1>16 DEF blk, type

RxSizes(e) ==
    e.rx < IFD_BUF_SIZE /\ e.ifsd \in 1 .. IFD_T1_MAX_IFSD /\ e.ifsd <= IFD_BUF_SIZE - e.rx

(* What is saved of the response fits into saved_buf.                      *)
LEMMA SavedRx ==
    ASSUME Roomy, NEW e, Sound(e), RxSizes(e)
    PROVE  /\ Saved(e) \in Nat /\ Saved(e) <= 8 /\ Saved(e) <= e.rx
           /\ e.rx - Saved(e) \in Nat /\ (e.rx - Saved(e)) + SafeIndex <= IFD_BUF_SIZE
           /\ Snug => (e.rx - Saved(e)) + (3 + Epilogue + e.ifsd) <= IFD_BUF_SIZE
           /\ IFD_BUF_SIZE - e.rx < Safe(e) <=> Saved(e) > 0
           /\ IFD_BUF_SIZE - e.rx < Safe(e) => uint8(Safe(e) - (IFD_BUF_SIZE - e.rx)) = Saved(e)
<1> DEFINE rx == e.rx
           ifsd == e.ifsd
           size == 3 + Epilogue + ifsd
           safe == Safe(e)
           saved == Saved(e)
<1>1. /\ rx \in Nat /\ ifsd \in 1 .. IFD_T1_MAX_IFSD
      /\ rx < IFD_BUF_SIZE /\ ifsd <= IFD_BUF_SIZE - rx
  BY SoundIs DEF RxSizes
<1>2. 3 + Epilogue + IFD_T1_MAX_IFSD <= IFD_BUF_SIZE
  BY DEF Roomy
<1>3. safe = uint8(size)
  BY DEF Safe, ifsd
<1>4. saved = IF IFD_BUF_SIZE - rx < safe THEN safe - (IFD_BUF_SIZE - rx) ELSE 0
  BY DEF Saved, rx
<1> HIDE DEF rx, ifsd, safe, saved
<1>5. /\ safe = size \/ (safe <= 3 /\ ifsd >= 251)
      /\ safe \in 0 .. 255 /\ (Snug => safe = size) /\ size <= IFD_BUF_SIZE
  BY <1>1, <1>2, <1>3, Sizes, SMT DEF uint8, Snug
<1>6. /\ saved \in Nat /\ saved <= 8 /\ saved <= rx
      /\ rx - saved \in Nat /\ (rx - saved) + SafeIndex <= IFD_BUF_SIZE
      /\ Snug => (rx - saved) + size <= IFD_BUF_SIZE
      /\ IFD_BUF_SIZE - rx < safe <=> saved > 0
      /\ IFD_BUF_SIZE - rx < safe => safe - (IFD_BUF_SIZE - rx) = saved
      /\ saved \in 0 .. 255
  <2>1. CASE IFD_BUF_SIZE - rx < safe
    BY <1>1, <1>4, <1>5, <2>1, Sizes, SMT
  <2>2. CASE ~(IFD_BUF_SIZE - rx < safe)
    BY <1>1, <1>4, <1>5, <2>2, Sizes, SMT
  <2>3. QED
    BY <2>1, <2>2
<1>7. uint8(saved) = saved
  BY <1>6, Uint8
<1>8. QED
  BY <1>6, <1>7 DEF rx, ifsd, safe, saved

PlainRx(e) ==
    /\ ~(e.tx < e.nc) /\ RxSizes(e) /\ e.pcb.t # "I" /\ e.ifsc <= 1
    /\ ResponseAt(e.buf, 0, 0, e.rx)

(* Building a block while the response comes in parks the response.        *)
LEMMA BuildRx ==
    ASSUME Roomy, NEW e, Sound(e), PlainRx(e)
    PROVE  Sound(Build(e)) /\ Kept(Build(e), e) /\ ParkedRx(Build(e))
<1> DEFINE buf == e.buf
           rx == e.rx
           ifsc == e.ifsc
           ifsd == e.ifsd
           saved == Saved(e)
           blk == rx - saved
           beyond == IFD_BUF_SIZE - rx < Safe(e)
           sb == IF beyond THEN Read(buf, blk, saved) ELSE e.saved_buf
           data == Framing(ifsc)
           b2 == Write(buf, blk, Framed(data))
           f == With(e, blk, blk, sb, buf)
           g == With(e, blk, blk, sb, b2)
<1>1. /\ e \in Ifds /\ ~e.bug /\ ~(e.tx < e.nc) /\ e.pcb.t # "I" /\ e.saved_buf \in Seq(Int) /\ RxSizes(e)
  BY SoundIs DEF PlainRx
<1>2. /\ rx \in Nat /\ ifsc \in Nat /\ ifsd \in Nat
      /\ buf \in Seq(Int) /\ Len(buf) = IFD_BUF_SIZE
      /\ ifsc <= 1 /\ ifsd >= 1 /\ rx < IFD_BUF_SIZE /\ ResponseAt(buf, 0, 0, rx)
  <2>1. ifsd >= 1
    BY Sizes, SMT DEF PlainRx, RxSizes
  <2>2. QED
    BY <2>1, SoundIs DEF PlainRx, RxSizes
<1>3. /\ saved \in Nat /\ saved <= 8 /\ saved <= rx
      /\ blk \in Nat /\ blk + SafeIndex <= IFD_BUF_SIZE
      /\ beyond <=> saved > 0
      /\ beyond => uint8(Safe(e) - (IFD_BUF_SIZE - rx)) = saved
  BY <1>1, SavedRx
<1> HIDE DEF buf, rx, ifsc, ifsd, saved, beyond
<1>4. /\ sb \in Seq(Int)
      /\ beyond => Len(sb) = saved /\ ResponseAt(sb, 0, blk, saved)
  <2>1. CASE beyond
    <3>1. blk + saved <= Len(buf)
      BY <1>2, <1>3, Sizes, SMT
    <3>2. IsRead(sb, buf, blk, saved)
      BY <1>2, <1>3, <2>1, <3>1, ReadIs
    <3>3. ASSUME Lawful, NEW i \in 1 .. saved PROVE sb[0 + i] = -(blk + i)
      <4>1. blk + i \in 1 .. rx /\ 0 + i = i /\ 0 + (blk + i) = blk + i
        BY <1>2, <1>3, SMT
      <4>2. buf[0 + (blk + i)] = -(0 + (blk + i))
        BY <1>2, <3>3, <4>1 DEF ResponseAt
      <4>3. QED
        BY <3>2, <4>1, <4>2 DEF IsRead
    <3>4. QED
      BY <3>2, <3>3 DEF IsRead, ResponseAt
  <2>2. CASE ~beyond
    BY <1>1, <2>2
  <2>3. QED
    BY <2>1, <2>2
<1>5. /\ ~(blk + 3 + ifsc + Epilogue > IFD_BUF_SIZE)
      /\ blk + (3 + ifsc + Epilogue) <= IFD_BUF_SIZE
      /\ ~(saved > IFD_T1_SAVE_SIZE)
  BY <1>2, <1>3, Sizes, SMT DEF IFD_T1_SAVE_SIZE
<1>6. /\ b2 \in Seq(Int) /\ Len(b2) = IFD_BUF_SIZE /\ ResponseAt(b2, 0, 0, blk)
  <2>1. data \in Seq(Int) /\ Len(data) = ifsc
    BY <1>2, FramingIs
  <2> HIDE DEF data
  <2>2. Framed(data) \in Seq(Int) /\ Len(Framed(data)) = 3 + ifsc + Epilogue
    BY <2>1, FramedIs
  <2>3. Written(b2, buf, blk, Framed(data))
    BY <1>2, <1>3, <1>5, <2>2, WriteIs
  <2> HIDE DEF b2
  <2>4. ASSUME Lawful, NEW i \in 1 .. blk PROVE b2[0 + i] = -(0 + i)
    <3>1. i \in 1 .. rx /\ i \in 1 .. Len(buf) /\ i <= blk /\ 0 + i = i
      BY <1>2, <1>3, Sizes, SMT
    <3>2. buf[0 + i] = -(0 + i)
      BY <1>2, <2>4, <3>1 DEF ResponseAt
    <3>3. QED
      BY <2>3, <3>1, <3>2 DEF Written
  <2>5. QED
    BY <1>2, <2>3, <2>4 DEF Written, ResponseAt
<1> HIDE DEF sb, blk
<1>7. IsWith(f, e, blk, blk, sb, buf)
  BY <1>1, <1>2, <1>3, <1>4, WithIs
<1>8. ifd_t1_save_buffer(e) = f
  <2> DEFINE k == IF beyond THEN ifd_t1_save(e, blk, saved) ELSE e
             l == [e EXCEPT !.saved_buf = sb]
  <2>1. l \in Ifds /\ ~l.bug
    BY <1>1, <1>4 DEF Ifds
  <2>2. k = l
    <3>1. CASE beyond
      <4>1. k = Bug(l, saved > IFD_T1_SAVE_SIZE)
        BY <3>1 DEF ifd_t1_save, sb, buf
      <4>2. QED
        BY <1>5, <2>1, <4>1, NoBugStep
    <3>2. CASE ~beyond
      BY <1>1, <3>2 DEF sb, Ifds
    <3>3. QED
      BY <3>1, <3>2
  <2>3. (IF beyond THEN uint8(Safe(e) - (IFD_BUF_SIZE - rx)) ELSE 0) = saved
    <3>1. CASE beyond
      BY <1>3, <3>1
    <3>2. CASE ~beyond
      BY <1>3, <3>2, SMT
    <3>3. QED
      BY <3>1, <3>2
  <2>4. ifd_t1_save_buffer(e) = [k EXCEPT !.rx_blk = blk, !.tx_blk = blk]
    BY <1>1, <2>3 DEF ifd_t1_save_buffer, rx, beyond, blk
  <2> HIDE DEF k, l
  <2>5. ifd_t1_save_buffer(e) = [l EXCEPT !.rx_blk = blk, !.tx_blk = blk]
    BY <2>2, <2>4
  <2>6. QED
    BY <1>1, <2>5 DEF Ifds, With, l, buf
<1>9. IsWith(g, e, blk, blk, sb, b2)
  BY <1>1, <1>3, <1>4, <1>6, WithIs
<1>10. Build(e) = g
  <2>1. [f EXCEPT !.buf = b2] = g
    BY <1>1 DEF Ifds, With
  <2> HIDE DEF f, g
  <2>2. f \in Ifds /\ ~f.bug /\ f.buf = buf /\ f.tx_blk = blk
    BY <1>1, <1>7 DEF IsWith
  <2>3. g \in Ifds /\ ~g.bug
    BY <1>1, <1>9 DEF IsWith
  <2>4. Build(e) = Bug([f EXCEPT !.buf = Write(@, f.tx_blk, Framed(data))],
                       f.tx_blk + 3 + ifsc + Epilogue > IFD_BUF_SIZE)
    BY <1>1, <1>8 DEF Build, ifsc
  <2>5. [f EXCEPT !.buf = Write(@, f.tx_blk, Framed(data))] = g
    BY <2>1, <2>2
  <2>6. QED
    BY <1>5, <2>2, <2>3, <2>4, <2>5, NoBugStep
<1> HIDE DEF f, g, b2
<1>11. Sound(g)
  BY <1>6, <1>9, SoundKept DEF IsWith
<1>12. Saved(g) = saved /\ g.rx = rx /\ g.ifsd = ifsd
  BY <1>9 DEF Kept, IsWith, Saved, Safe, saved, ifsd, rx
<1>13. ParkedRx(g)
  <2>1. RxSizes(g)
    BY <1>1, <1>12 DEF RxSizes, rx, ifsd
  <2>2. g.rx_blk = blk /\ g.buf = b2 /\ g.saved_buf = sb
    BY <1>9 DEF IsWith
  <2>3. QED
    BY <1>3, <1>4, <1>6, <1>12, <2>1, <2>2 DEF ParkedRx, RxSizes, blk
<1>14. QED
  BY <1>9, <1>10, <1>11, <1>13 DEF IsWith

-----------------------------------------------------------------------------
(* A block arrives in the buffer.                                          *)

OnlyBuf(r, e, b) ==
    /\ Sound(r) /\ Kept(r, e) /\ r.buf = b
    /\ r.rx_blk = e.rx_blk /\ r.tx_blk = e.tx_blk /\ r.saved_buf = e.saved_buf

LEMMA SetBuf ==
    ASSUME NEW e, Sound(e), NEW b \in Seq(Int), Len(b) = IFD_BUF_SIZE
    PROVE  OnlyBuf([e EXCEPT !.buf = b], e, b)
<1> DEFINE r == [e EXCEPT !.buf = b]
<1>1. e \in Ifds
  BY DEF Sound
<1>2. r \in Ifds
  BY <1>1 DEF Ifds
<1>3. Kept(r, e)
  BY <1>1 DEF Ifds, Kept
<1>4. /\ r.buf = b /\ r.bug = e.bug
      /\ r.rx_blk = e.rx_blk /\ r.tx_blk = e.tx_blk /\ r.saved_buf = e.saved_buf
  BY <1>1 DEF Ifds
<1> HIDE DEF r
<1>5. Sound(r)
  BY <1>2, <1>3, <1>4, SoundKept
<1>6. QED
  BY <1>3, <1>4, <1>5 DEF r, OnlyBuf

Landed(r, e, bytes) ==
    /\ Sound(r) /\ Kept(r, e) /\ Parked(r)
    /\ r.rx_blk = e.rx_blk /\ r.tx_blk = e.tx_blk /\ r.saved_buf = e.saved_buf
    /\ Filled(r.buf, e.rx_blk, bytes)

(* A block that is received covers nothing but its own place.              *)
LEMMA StoredIs ==
    ASSUME Roomy, NEW e, Sound(e), Parked(e), NEW bytes \in Seq(Int), Len(bytes) <= 3 + e.ifsd + Epilogue
    PROVE  Landed(Stored(e, bytes), e, bytes)
<1> DEFINE w == Write(e.buf, e.rx_blk, bytes)
           r == Stored(e, bytes)
           len == Len(bytes)
<1>1. /\ len \in Nat /\ e.buf \in Seq(Int) /\ Len(e.buf) = IFD_BUF_SIZE /\ e.rx_blk \in Nat
      /\ e.tx \in Nat /\ e.nc \in Nat /\ e.ifsc \in Nat /\ e.ifsd \in Nat /\ e.rx \in Nat
  <2>1. len \in Nat
    BY LenIs
  <2>2. QED
    BY <2>1, SoundIs
<1>2. CASE e.tx < e.nc
  <2> DEFINE tx == e.tx
             nc == e.nc
             ifsc == e.ifsc
             end == tx + ifsc
             last == SaveEnd(e)
             m == Higher(end, last)
  <2>1. /\ e.rx = 0 /\ e.ifsd = 1 /\ e.rx_blk = 0 /\ ParkedTx(e)
        /\ end <= nc /\ nc <= IFD_BUF_SIZE /\ SafeIndex + ifsc + Epilogue <= IFD_BUF_SIZE
        /\ CommandAt(e.buf, SafeIndex, tx, ifsc) /\ CommandAt(e.buf, m, m, nc - m)
    BY <1>2 DEF Parked, ParkedTx
  <2>2. last \in Nat /\ last <= nc /\ (last = nc \/ last = SafeIndex + ifsc + Epilogue)
    BY <1>2, <2>1, SaveEndTx DEF TxSizes
  <2>3. tx \in Nat /\ nc \in Nat /\ ifsc \in Nat /\ tx < nc
    BY <1>1, <1>2
  <2>4. len <= SafeIndex
    BY <1>1, <2>1, Sizes, SMT
  <2> HIDE DEF tx, nc, ifsc, last, len
  <2>5. 0 + len <= Len(e.buf) /\ 0 + len = len /\ 0 \in Nat /\ 0 <= Len(e.buf)
    BY <1>1, <2>1, <2>3, <2>4, Sizes, SMT
  <2>6. Written(w, e.buf, 0, bytes) /\ Filled(w, e.rx_blk, bytes)
    BY <1>1, <2>1, <2>5, WriteIs, WriteKeeps DEF len
  <2> HIDE DEF w
  <2>7. w \in Seq(Int) /\ Len(w) = IFD_BUF_SIZE
        /\ \A i \in 1 .. IFD_BUF_SIZE : i > SafeIndex => w[i] = e.buf[i]
    <3>1. ASSUME NEW i \in 1 .. IFD_BUF_SIZE, i > SafeIndex PROVE i > 0 + len
      BY <1>1, <2>4, <3>1, Sizes, SMT
    <3>2. QED
      BY <1>1, <2>6, <3>1 DEF Written, len
  <2>8. CommandAt(w, SafeIndex, tx, ifsc)
    <3>1. ASSUME NEW i \in 1 .. ifsc
          PROVE  SafeIndex + i \in 1 .. IFD_BUF_SIZE /\ SafeIndex + i > SafeIndex
      BY <2>1, <2>3, Sizes, SMT
    <3>2. QED
      BY <2>1, <2>7, <3>1 DEF CommandAt
  <2>9. m \in Nat /\ m >= last /\ m >= end
    BY <2>2, <2>3, SMT DEF Higher
  <2> HIDE DEF m
  <2>10. CommandAt(w, m, m, nc - m)
    <3>1. ASSUME NEW i \in 1 .. nc - m
          PROVE  m + i \in 1 .. IFD_BUF_SIZE /\ m + i > SafeIndex
      BY <2>1, <2>2, <2>3, <2>9, Sizes, SMT
    <3>2. QED
      BY <2>1, <2>7, <3>1 DEF CommandAt
  <2>11. r = [e EXCEPT !.buf = w]
    BY DEF Stored, w
  <2>12. /\ Sound(r) /\ Kept(r, e) /\ r.buf = w
         /\ r.rx_blk = e.rx_blk /\ r.tx_blk = e.tx_blk /\ r.saved_buf = e.saved_buf
    <3>1. OnlyBuf([e EXCEPT !.buf = w], e, w)
      BY <2>7, SetBuf
    <3> HIDE DEF r
    <3>2. QED
      BY <2>11, <3>1 DEF OnlyBuf
  <2> HIDE DEF r
  <2>13. r.tx = tx /\ r.nc = nc /\ r.ifsc = ifsc /\ r.ifsd = e.ifsd /\ r.rx = e.rx /\ SaveEnd(r) = last
    BY <2>12 DEF Kept, SaveEnd, Safe, tx, nc, ifsc, last
  <2>14. ParkedTx(r)
    BY <2>1, <2>8, <2>10, <2>12, <2>13 DEF ParkedTx, tx, nc, ifsc, last, m
  <2>15. QED
    BY <2>1, <2>3, <2>6, <2>12, <2>13, <2>14 DEF Landed, Parked, r
<1>3. CASE ~(e.tx < e.nc)
  <2> DEFINE blk == e.rx_blk
  <2>1. ParkedRx(e) /\ RxSizes(e)
    BY <1>3 DEF Parked, ParkedRx, RxSizes
  <2>2. /\ blk \in Nat /\ blk + SafeIndex <= IFD_BUF_SIZE
    BY <2>1, SavedRx DEF ParkedRx
  <2> HIDE DEF blk
  <2>4. blk <= IFD_BUF_SIZE
    BY <2>2, Sizes, SMT
  <2>5. Prefix(w, e.buf, blk) /\ Filled(w, blk, bytes)
    BY <1>1, <2>2, <2>4, WriteKeeps DEF blk
  <2> HIDE DEF w
  <2>6. w \in Seq(Int) /\ Len(w) = IFD_BUF_SIZE
    BY <1>1, <2>5 DEF Prefix
  <2>7. ResponseAt(w, 0, 0, blk)
    <3>1. ASSUME NEW i \in 1 .. blk PROVE 0 + i = i
      BY <2>2, SMT
    <3>2. ResponseAt(e.buf, 0, 0, blk)
      BY <2>1 DEF ParkedRx, blk
    <3>3. ASSUME Lawful, NEW i \in 1 .. blk PROVE w[0 + i] = -(0 + i)
      <4>1. e.buf[0 + i] = -(0 + i)
        BY <3>2, <3>3 DEF ResponseAt
      <4>2. QED
        BY <2>5, <3>1, <4>1 DEF Prefix
    <3>4. QED
      BY <3>3 DEF ResponseAt
  <2>8. r = [e EXCEPT !.buf = w]
    BY DEF Stored, w
  <2>9. /\ Sound(r) /\ Kept(r, e) /\ r.buf = w
        /\ r.rx_blk = e.rx_blk /\ r.tx_blk = e.tx_blk /\ r.saved_buf = e.saved_buf
    <3>1. OnlyBuf([e EXCEPT !.buf = w], e, w)
      BY <2>6, SetBuf
    <3> HIDE DEF r
    <3>2. QED
      BY <2>8, <3>1 DEF OnlyBuf
  <2> HIDE DEF r
  <2>10. r.tx = e.tx /\ r.nc = e.nc /\ r.ifsd = e.ifsd /\ r.rx = e.rx /\ Saved(r) = Saved(e)
    BY <2>9 DEF Kept, Saved, Safe
  <2>11. ParkedRx(r)
    BY <2>1, <2>7, <2>9, <2>10 DEF ParkedRx, blk
  <2>12. QED
    BY <1>3, <2>5, <2>9, <2>10, <2>11 DEF Landed, Parked, r, blk
<1>4. QED
  BY <1>2, <1>3

-----------------------------------------------------------------------------
(* Putting back what was saved.                                            *)

LEMMA RestoreMid ==
    ASSUME NEW e, NEW tx, NEW rx, tx < e.nc, e.tx < e.nc, e.tx # e.nc
    PROVE  ifd_t1_restore_buffer(e, tx, rx) =
             LET e1 == [e EXCEPT !.buf = ifd_xchg_move(@, tx, Safe(e), e.ifsc)] IN
             Bug(IF SaveEnd(e) > tx + e.ifsc THEN ifd_t1_restore(e1, tx + e.ifsc) ELSE e1,
                 SaveEnd(e) > IFD_BUF_SIZE)
  BY DEF ifd_t1_restore_buffer

LEMMA RestoreBeyond ==
    ASSUME NEW e, NEW tx, NEW rx, ~(e.tx < e.nc), e.tx = e.nc, IFD_BUF_SIZE - rx < Safe(e)
    PROVE  ifd_t1_restore_buffer(e, tx, rx) =
             ifd_t1_restore(e, rx - uint8(Safe(e) - (IFD_BUF_SIZE - rx)))
  BY DEF ifd_t1_restore_buffer

LEMMA RestoreNone ==
    ASSUME NEW e, NEW tx, NEW rx, ~(e.tx < e.nc), ~(IFD_BUF_SIZE - rx < Safe(e))
    PROVE  ifd_t1_restore_buffer(e, tx, rx) = e
  BY DEF ifd_t1_restore_buffer

NewBuf(r, e, b) == Sound(r) /\ Kept(r, e) /\ r.buf = b

LEMMA SetBoth ==
    ASSUME NEW e, Sound(e), NEW b \in Seq(Int), Len(b) = IFD_BUF_SIZE, NEW s \in Seq(Int)
    PROVE  NewBuf([e EXCEPT !.buf = b, !.saved_buf = s], e, b)
<1> DEFINE r == [e EXCEPT !.buf = b, !.saved_buf = s]
<1>1. e \in Ifds
  BY DEF Sound
<1>2. r \in Ifds
  BY <1>1 DEF Ifds
<1>3. Kept(r, e)
  BY <1>1 DEF Ifds, Kept
<1>4. r.buf = b /\ r.bug = e.bug
  BY <1>1 DEF Ifds
<1> HIDE DEF r
<1>5. Sound(r)
  BY <1>2, <1>3, <1>4, SoundKept
<1>6. QED
  BY <1>3, <1>4, <1>5 DEF r, NewBuf

(* The fields of f that putting back depends on are those of e.            *)
SameBlock(f, e) ==
    f.saved_buf = e.saved_buf /\ f.nc = e.nc /\ f.ifsc = e.ifsc /\ f.ifsd = e.ifsd

Restored(r, f) == Sound(r) /\ Kept(r, f)

(* ifd_t1_restore_buffer puts the command back, all that is not            *)
(* acknowledged.                                                           *)
LEMMA RestoreTx ==
    ASSUME NEW e, Sound(e), e.tx < e.nc, ParkedTx(e),
           NEW f, Sound(f), SameBlock(f, e), f.buf = e.buf, f.tx < f.nc, NEW rx
    PROVE  LET r == ifd_t1_restore_buffer(f, e.tx, rx) IN
           Restored(r, f) /\ CommandAt(r.buf, e.tx, e.tx, e.nc - e.tx)
<1> DEFINE buf == e.buf
           tx == e.tx
           nc == e.nc
           ifsc == e.ifsc
           end == tx + ifsc
           last == SaveEnd(e)
           sb == e.saved_buf
           m == Higher(end, last)
           b1 == ifd_xchg_move(buf, tx, SafeIndex, ifsc)
           b2 == IF last > end THEN Write(b1, end, sb) ELSE b1
           f1 == [f EXCEPT !.buf = b1]
           g == IF last > end THEN ifd_t1_restore(f1, end) ELSE f1
           r == ifd_t1_restore_buffer(f, e.tx, rx)
<1>1. /\ end <= nc /\ nc <= IFD_BUF_SIZE /\ SafeIndex + ifsc + Epilogue <= IFD_BUF_SIZE
      /\ CommandAt(buf, SafeIndex, tx, ifsc) /\ CommandAt(buf, m, m, nc - m)
      /\ last > end => Len(sb) = last - end /\ CommandAt(sb, 0, end, last - end)
  BY DEF ParkedTx
<1>2. last \in Nat /\ last <= nc /\ Safe(e) = SafeIndex
  BY SaveEndTx DEF TxSizes, ParkedTx
<1>3. /\ tx \in Nat /\ nc \in Nat /\ ifsc \in Nat /\ tx < nc
      /\ buf \in Seq(Int) /\ Len(buf) = IFD_BUF_SIZE /\ sb \in Seq(Int)
  BY SoundIs
<1>4. Safe(f) = SafeIndex /\ SaveEnd(f) = last /\ f.nc = nc /\ f.ifsc = ifsc /\ f.saved_buf = sb
  BY <1>2 DEF SameBlock, Safe, SaveEnd
<1>5. f \in Ifds /\ ~f.bug /\ f.tx \in Nat /\ f.nc \in Nat
  BY SoundIs
<1>6. f.tx # f.nc
  BY <1>5, SMT
<1>7. r = Bug(g, last > IFD_BUF_SIZE)
  <2>1. tx < f.nc
    BY <1>3, <1>4
  <2>2. QED
    BY <1>4, <1>6, <2>1, RestoreMid
<1> HIDE DEF buf, tx, nc, ifsc, last, sb, r
<1>8. Moved(b1, buf, tx, SafeIndex, ifsc)
  <2>1. SafeIndex \in Nat /\ tx + ifsc <= Len(buf) /\ SafeIndex + ifsc <= Len(buf)
    BY <1>1, <1>3, Sizes, SMT
  <2>2. QED
    BY <1>3, <2>1, MoveIs
<1> HIDE DEF b1
<1>9. b1 \in Seq(Int) /\ Len(b1) = IFD_BUF_SIZE
  BY <1>3, <1>8 DEF Moved
<1>10. last > end => Written(b2, b1, end, sb)
  <2>1. ASSUME last > end PROVE Written(b2, b1, end, sb)
    <3>1. end \in Nat /\ end + Len(sb) <= Len(b1)
      BY <1>1, <1>2, <1>3, <1>9, <2>1, Sizes, SMT
    <3>2. QED
      BY <1>3, <1>9, <2>1, <3>1, WriteIs
  <2>2. QED
    BY <2>1
<1>11. ~(last > end) => b2 = b1
  OBVIOUS
<1>12. b2 \in Seq(Int) /\ Len(b2) = IFD_BUF_SIZE
  BY <1>9, <1>10, <1>11 DEF Written
<1> HIDE DEF b2
<1>13. ASSUME NEW i \in 1 .. nc, i > tx PROVE b2[i] = i
  <2>1. CASE i <= end
    <3> DEFINE k == i - tx
    <3>1. k \in 1 .. ifsc /\ tx + k = i /\ i \in 1 .. Len(b1) /\ (i <= end \/ i > end + Len(sb))
      BY <1>1, <1>3, <1>9, <1>13, <2>1, SMT
    <3> HIDE DEF k
    <3>2. b1[tx + k] = tx + k
      BY <1>1, <1>8, <3>1 DEF Moved, CommandAt
    <3>3. b2[i] = b1[i]
      BY <1>10, <1>11, <3>1 DEF Written
    <3>4. QED
      BY <3>1, <3>2, <3>3
  <2>2. CASE i > end /\ i > last
    <3>1. m \in Nat /\ i > m
      BY <1>2, <1>3, <2>2, SMT DEF Higher
    <3> HIDE DEF m
    <3>2. buf[i] = i
      BY <1>1, <1>3, <3>1, InPlaceIs
    <3>3. i \in 1 .. Len(b1) /\ i \in 1 .. Len(buf) /\ i > tx + ifsc
      BY <1>1, <1>3, <1>9, <2>2, Sizes, SMT
    <3>4. b1[i] = buf[i]
      BY <1>8, <3>3 DEF Moved
    <3>5. b2[i] = b1[i]
      <4>1. CASE last > end
        <5>1. i > end + Len(sb)
          BY <1>1, <1>2, <1>3, <2>2, <4>1, SMT
        <5>2. QED
          BY <1>10, <3>3, <4>1, <5>1 DEF Written
      <4>2. CASE ~(last > end)
        BY <1>11, <4>2
      <4>3. QED
        BY <4>1, <4>2
    <3>6. QED
      BY <3>2, <3>4, <3>5
  <2>3. CASE i > end /\ ~(i > last)
    <3> DEFINE k == i - end
    <3>1. last > end
      BY <1>2, <1>3, <2>3, SMT
    <3>2. Len(sb) = last - end
      BY <1>1, <3>1
    <3>3. k \in 1 .. Len(sb) /\ k \in 1 .. last - end /\ end + k = i /\ 0 + k = k
      BY <1>2, <1>3, <2>3, <3>2, SMT
    <3> HIDE DEF k
    <3>4. sb[0 + k] = end + k
      BY <1>1, <3>1, <3>3 DEF CommandAt
    <3>5. b2[end + k] = sb[k]
      BY <1>10, <3>1, <3>3 DEF Written
    <3>6. QED
      BY <3>3, <3>4, <3>5
  <2>4. QED
    BY <1>3, <2>1, <2>2, <2>3, SMT
<1>14. CommandAt(b2, tx, tx, nc - tx)
  BY <1>3, <1>13, InPlaceIs
<1>15. Sound(g) /\ Kept(g, f) /\ g.buf = b2
  <2>1. OnlyBuf(f1, f, b1)
    BY <1>9, SetBuf
  <2>2. CASE last > end
    <3>1. g = [f1 EXCEPT !.buf = Write(@, end, f1.saved_buf), !.saved_buf = <<>>]
      BY <2>2 DEF ifd_t1_restore
    <3>2. f1.buf = b1 /\ f1.saved_buf = sb /\ Sound(f1) /\ Kept(f1, f)
      BY <1>4, <2>1 DEF OnlyBuf
    <3> HIDE DEF f1, g
    <3>3. g = [f1 EXCEPT !.buf = b2, !.saved_buf = <<>>]
      BY <2>2, <3>1, <3>2 DEF b2
    <3>4. <<>> \in Seq(Int)
      BY SMT
    <3>5. NewBuf([f1 EXCEPT !.buf = b2, !.saved_buf = <<>>], f1, b2)
      BY <1>12, <3>2, <3>4, SetBoth
    <3>6. QED
      BY <3>2, <3>3, <3>5 DEF Kept, NewBuf
  <2>3. CASE ~(last > end)
    <3>1. g = f1
      BY <2>3
    <3> HIDE DEF f1, g
    <3>2. QED
      BY <1>11, <2>1, <2>3, <3>1 DEF OnlyBuf
  <2>4. QED
    BY <2>2, <2>3
<1> HIDE DEF g
<1>16. r = g
  <2>1. ~(last > IFD_BUF_SIZE)
    BY <1>1, <1>2, <1>3, Sizes, SMT
  <2>2. g \in Ifds /\ ~g.bug
    BY <1>15 DEF Sound
  <2>3. QED
    BY <1>7, <2>1, <2>2, NoBugStep
<1>17. QED
  BY <1>14, <1>15, <1>16 DEF Restored, r, tx, nc

Back(r, f, rx) ==
    /\ Restored(r, f) /\ ResponseAt(r.buf, 0, 0, rx)
    /\ \A i \in 1 .. IFD_BUF_SIZE : i > rx => r.buf[i] = f.buf[i]

(* ifd_t1_restore_buffer puts the response back.                           *)
LEMMA RestoreRx ==
    ASSUME Roomy, NEW e, Sound(e), ParkedRx(e),
           NEW f, Sound(f), SameBlock(f, e), f.tx = f.nc,
           ResponseAt(f.buf, 0, 0, e.rx_blk)
    PROVE  Back(ifd_t1_restore_buffer(f, e.tx, e.rx), f, e.rx)
<1> DEFINE buf == f.buf
           rx == e.rx
           saved == Saved(e)
           blk == e.rx_blk
           sb == e.saved_buf
           b2 == Write(buf, blk, sb)
           r == ifd_t1_restore_buffer(f, e.tx, e.rx)
           beyond == IFD_BUF_SIZE - rx < Safe(e)
<1>1. /\ rx < IFD_BUF_SIZE /\ blk = rx - saved
      /\ saved > 0 => Len(sb) = saved /\ ResponseAt(sb, 0, blk, saved)
  BY DEF ParkedRx
<1>2. RxSizes(e)
  BY DEF ParkedRx, RxSizes
<1>3. /\ saved \in Nat /\ saved <= rx /\ rx - saved \in Nat
      /\ beyond <=> saved > 0
      /\ beyond => uint8(Safe(e) - (IFD_BUF_SIZE - rx)) = saved
  BY <1>2, SavedRx
<1>4. /\ rx \in Nat /\ blk \in Nat /\ sb \in Seq(Int)
      /\ buf \in Seq(Int) /\ Len(buf) = IFD_BUF_SIZE
      /\ f.tx \in Nat /\ f.nc \in Nat
  BY SoundIs
<1>5. Safe(f) = Safe(e) /\ f.saved_buf = sb
  BY DEF SameBlock, Safe
<1>6. ~(f.tx < f.nc)
  BY <1>4, SMT
<1>7. CASE beyond
  <2>1. r = [f EXCEPT !.buf = Write(@, blk, f.saved_buf), !.saved_buf = <<>>]
    <3>1. r = ifd_t1_restore(f, e.rx - uint8(Safe(f) - (IFD_BUF_SIZE - e.rx)))
      BY <1>5, <1>6, <1>7, RestoreBeyond
    <3>2. e.rx - uint8(Safe(f) - (IFD_BUF_SIZE - e.rx)) = blk
      BY <1>1, <1>3, <1>5, <1>7
    <3>3. QED
      BY <3>1, <3>2 DEF ifd_t1_restore
  <2>2. r = [f EXCEPT !.buf = b2, !.saved_buf = <<>>]
    BY <1>5, <2>1
  <2>3. saved > 0 /\ Len(sb) = saved /\ ResponseAt(sb, 0, blk, saved)
    BY <1>1, <1>3, <1>7
  <2> HIDE DEF r, buf, rx, saved, sb, beyond, blk
  <2>4. blk + Len(sb) = rx /\ rx <= Len(buf)
    BY <1>1, <1>3, <1>4, <2>3, Sizes, SMT
  <2>5. Written(b2, buf, blk, sb)
    BY <1>4, <2>4, WriteIs, <1>1, Sizes
  <2> HIDE DEF b2
  <2>6. b2 \in Seq(Int) /\ Len(b2) = IFD_BUF_SIZE
    BY <1>4, <2>5 DEF Written
  <2>7. ASSUME Lawful, NEW i \in 1 .. rx PROVE b2[0 + i] = -(0 + i)
    <3>1. CASE i <= blk
      <4>1. i \in 1 .. blk /\ i \in 1 .. Len(buf) /\ 0 + i = i
        BY <1>4, <2>4, <3>1, SMT
      <4>2. buf[0 + i] = -(0 + i)
        BY <2>7, <4>1 DEF ResponseAt, buf, blk
      <4>3. QED
        BY <2>5, <3>1, <4>1, <4>2 DEF Written
    <3>2. CASE ~(i <= blk)
      <4> DEFINE k == i - blk
      <4>1. k \in 1 .. saved /\ blk + k = i /\ 0 + k = k /\ 0 + i = i
        BY <1>1, <1>3, <1>4, <3>2, SMT
      <4> HIDE DEF k
      <4>2. sb[0 + k] = -(blk + k)
        BY <2>3, <2>7, <4>1 DEF ResponseAt
      <4>3. b2[blk + k] = sb[k]
        BY <2>3, <2>5, <4>1 DEF Written
      <4>4. QED
        BY <4>1, <4>2, <4>3
    <3>3. QED
      BY <3>1, <3>2
  <2>8. ASSUME NEW i \in 1 .. IFD_BUF_SIZE, i > rx PROVE b2[i] = buf[i]
    BY <1>4, <2>4, <2>5, <2>8 DEF Written
  <2>9. Sound(r) /\ Kept(r, f) /\ r.buf = b2
    <3>1. <<>> \in Seq(Int)
      BY SMT
    <3>2. NewBuf([f EXCEPT !.buf = b2, !.saved_buf = <<>>], f, b2)
      BY <2>6, <3>1, SetBoth
    <3>3. QED
      BY <2>2, <3>2 DEF NewBuf
  <2>10. ResponseAt(b2, 0, 0, rx)
    BY <2>7 DEF ResponseAt
  <2>11. QED
    BY <2>8, <2>9, <2>10 DEF Back, Restored, r, rx, buf
<1>8. CASE ~beyond
  <2>1. r = f
    BY <1>5, <1>6, <1>8, RestoreNone
  <2>2. blk = rx
    <3> HIDE DEF saved, rx, blk, beyond
    <3>1. QED
      BY <1>1, <1>3, <1>4, <1>8, SMT
  <2> HIDE DEF r
  <2>3. Kept(f, f)
    BY DEF Kept
  <2>4. QED
    BY <2>1, <2>2, <2>3 DEF Back, Restored, r
<1>9. QED
  BY <1>7, <1>8

(* The answer to the last piece of the command: nothing to put back.       *)
LEMMA RestoreTurn ==
    ASSUME Roomy, NEW f, Sound(f), f.ifsd = 1, f.tx = f.nc, NEW tx
    PROVE  ifd_t1_restore_buffer(f, tx, 0) = f
<1>1. f.tx \in Nat /\ f.nc \in Nat
  BY SoundIs
<1>2. ~(f.tx < f.nc)
  BY <1>1, SMT
<1>3. Safe(f) = SafeIndex
  <2>1. SafeIndex \in 0 .. 255
    BY Sizes, SMT
  <2>2. QED
    BY <2>1, Uint8 DEF Safe, SafeIndex
<1>4. 3 + Epilogue + IFD_T1_MAX_IFSD <= IFD_BUF_SIZE
  BY DEF Roomy
<1>5. ~(IFD_BUF_SIZE - 0 < SafeIndex)
  BY <1>4, Sizes, SMT
<1>6. QED
  BY <1>2, <1>3, <1>5, RestoreNone

-----------------------------------------------------------------------------
(* The next block: what ifd_t1_xchg_aval makes of a reader that is ready.  *)

(* The fields that say how far the exchange has come.                      *)
SameTurn(r, e) ==
    /\ r.ns = e.ns /\ r.nr = e.nr /\ r.tx_cmpl = e.tx_cmpl /\ r.rx_cmpl = e.rx_cmpl
    /\ r.tx = e.tx /\ r.rx = e.rx /\ r.nc = e.nc /\ r.ack_ifsc = e.ack_ifsc

(* Building, storing and restoring change nothing the two ends agree on.   *)
LEMMA TurnKept ==
    ASSUME NEW e, NEW r, Kept(r, e)
    PROVE  SameTurn(r, e)
  BY DEF Kept, SameTurn

LEMMA TurnAgrees ==
    ASSUME NEW e, NEW r, NEW c, SameTurn(r, e)
    PROVE  /\ Waiting(r, c) <=> Waiting(e, c)
           /\ Arrived(r, c) <=> Arrived(e, c)
           /\ Complete(r, c) <=> Complete(e, c)
           /\ Agreed(r, c) <=> Agreed(e, c)
<1>1. Waiting(r, c) <=> Waiting(e, c)
  BY DEF SameTurn, Waiting, Settled
<1>2. Arrived(r, c) <=> Arrived(e, c)
  BY DEF SameTurn, Arrived
<1>3. Complete(r, c) <=> Complete(e, c)
  BY DEF SameTurn, Complete
<1>4. QED
  BY <1>1, <1>2, <1>3 DEF SameTurn, Agreed

(* Everything is laid out for the block to be built.                       *)
Plain(e) == IF e.tx < e.nc THEN PlainTx(e) ELSE PlainRx(e)

LaidOut(e, c) ==
    /\ Sound(e) /\ Agreed(e, c) /\ Plain(e)
    /\ e.tx < e.nc => e.conf_ifsd = IFD_T1_SAFE_IFSD
    /\ e.tx = e.nc => /\ e.conf_ifsd = Lower(IFD_T1_MAX_IFSD, IFD_BUF_SIZE - e.rx)
                      /\ e.pcb.t # "I"
    /\ e.pcb.t = "S" /\ ~e.pcb.r => ~Arrived(e, c)

(* A block built in a state laid out for it leaves the reader in Out.      *)
LEMMA BuiltIsOut ==
    ASSUME Roomy, NEW e, NEW c, LaidOut(e, c)
    PROVE  Out(Build(e), c) /\ Kept(Build(e), e)
<1> DEFINE r == Build(e)
<1>1. Sound(e) /\ Agreed(e, c) /\ Plain(e)
  BY DEF LaidOut
<1>2. Sound(r) /\ Kept(r, e) /\ Parked(r)
  <2>1. CASE e.tx < e.nc
    <3>1. Sound(r) /\ Kept(r, e) /\ ParkedTx(r)
      BY <1>1, <2>1, BuildTx DEF Plain
    <3> HIDE DEF r
    <3>2. QED
      BY <2>1, <3>1 DEF Parked, Kept
  <2>2. CASE ~(e.tx < e.nc)
    <3>1. Sound(r) /\ Kept(r, e) /\ ParkedRx(r)
      BY <1>1, <2>2, BuildRx DEF Plain
    <3> HIDE DEF r
    <3>2. QED
      BY <2>2, <3>1 DEF Parked, Kept
  <2>3. QED
    BY <2>1, <2>2
<1> HIDE DEF r
<1>3. Agreed(r, c) /\ (Arrived(r, c) <=> Arrived(e, c))
  BY <1>1, <1>2, TurnKept, TurnAgrees
<1>4. Out(r, c)
  <2>1. r.tx = e.tx /\ r.nc = e.nc /\ r.rx = e.rx /\ r.conf_ifsd = e.conf_ifsd /\ r.pcb = e.pcb
    BY <1>2 DEF Kept
  <2>2. r.tx < r.nc => r.conf_ifsd = IFD_T1_SAFE_IFSD
    BY <2>1 DEF LaidOut
  <2>3. r.tx = r.nc => /\ r.conf_ifsd = Lower(IFD_T1_MAX_IFSD, IFD_BUF_SIZE - r.rx)
                       /\ r.pcb.t # "I"
    BY <2>1 DEF LaidOut
  <2>4. r.pcb.t = "S" /\ ~r.pcb.r => ~Arrived(r, c)
    BY <1>3, <2>1 DEF LaidOut
  <2>5. QED
    BY <1>2, <1>3, <2>2, <2>3, <2>4 DEF Out
<1>5. QED
  BY <1>2, <1>4 DEF r

(* What Roomy says.                                                        *)
LEMMA RoomIs ==
    ASSUME Roomy
    PROVE  /\ 3 + Epilogue + IFD_T1_MAX_IFSD <= IFD_BUF_SIZE
           /\ \A v \in CardIfs : v \in 1 .. 254 /\ SafeIndex + v + Epilogue <= IFD_BUF_SIZE
           /\ IntBits = 32
<1>1. 3 + Epilogue + IFD_T1_MAX_IFSD <= IFD_BUF_SIZE /\ IntBits = 32
  BY DEF Roomy
<1>2. ASSUME NEW v \in CardIfs PROVE v \in 1 .. 254 /\ SafeIndex + v + Epilogue <= IFD_BUF_SIZE
  <2>1. v + 3 + Epilogue + 1 + Epilogue <= IFD_BUF_SIZE /\ v \in 1 .. 254
    BY SizesAssumption DEF Roomy
  <2>2. QED
    BY <2>1, Sizes, SMT
<1>3. QED
  BY <1>1, <1>2

(* What is known of the reader in every agreed state.                      *)
LEMMA AgreedIs ==
    ASSUME NEW e, Sound(e), NEW c, Agreed(e, c)
    PROVE  /\ e.nc \in 1 .. IFD_BUF_SIZE
           /\ e.tx < e.nc => e.rx = 0 /\ (Waiting(e, c) \/ Arrived(e, c))
           /\ ~(e.tx < e.nc) => /\ e.tx = e.nc /\ Complete(e, c) /\ ~Arrived(e, c) /\ ~Waiting(e, c)
                                /\ e.rx < IFD_BUF_SIZE
<1>1. e.tx \in Nat /\ e.nc \in Nat /\ e.rx \in Nat
  BY SoundIs
<1>2. e.nc \in 1 .. IFD_BUF_SIZE
  BY LengthsAssumption DEF Agreed
<1>3. CASE e.tx < e.nc
  <2>1. e.tx # e.nc
    BY <1>1, <1>3, SMT
  <2>2. QED
    BY <1>2, <1>3, <2>1 DEF Agreed, Waiting, Arrived, Complete
<1>4. CASE ~(e.tx < e.nc)
  <2>1. Complete(e, c) /\ ~Arrived(e, c) /\ ~Waiting(e, c)
    BY <1>4 DEF Agreed, Waiting, Arrived
  <2>2. e.rx < c.resp /\ c.resp \in 1 .. IFD_BUF_SIZE /\ e.tx = e.nc
    BY <2>1, LengthsAssumption DEF Complete
  <2>3. e.rx < IFD_BUF_SIZE
    BY <1>1, <2>2, Sizes, SMT
  <2>4. QED
    BY <1>2, <1>4, <2>1, <2>2, <2>3
<1>5. QED
  BY <1>3, <1>4

Stage(e, pcb, ifsc, ifsd, conf, ack) ==
    [e EXCEPT !.pcb = pcb, !.ifsc = ifsc, !.ifsd = ifsd, !.conf_ifsd = conf, !.ack_ifsc = ack]

Staged(g, e, pcb, ifsc, ifsd, conf, ack) ==
    /\ Sound(g)
    /\ g.pcb = pcb /\ g.ifsc = ifsc /\ g.ifsd = ifsd /\ g.conf_ifsd = conf /\ g.ack_ifsc = ack
    /\ g.ns = e.ns /\ g.nr = e.nr /\ g.tx_cmpl = e.tx_cmpl /\ g.rx_cmpl = e.rx_cmpl
    /\ g.tx = e.tx /\ g.rx = e.rx /\ g.nc = e.nc /\ g.buf = e.buf /\ g.ack_info = e.ack_info

(* The fields the build functions set before they build.                   *)
LEMMA StageIs ==
    ASSUME NEW e, Sound(e), NEW pcb \in Pcbs, NEW ifsc \in Nat, NEW ifsd \in Nat,
           NEW conf \in Nat, conf \in 1 .. 254, NEW ack \in Nat
    PROVE  Staged(Stage(e, pcb, ifsc, ifsd, conf, ack), e, pcb, ifsc, ifsd, conf, ack)
<1> DEFINE g == Stage(e, pcb, ifsc, ifsd, conf, ack)
<1>1. e \in Ifds
  BY DEF Sound
<1>2. g \in Ifds
  BY <1>1 DEF Stage, Ifds
<1>3. /\ g.pcb = pcb /\ g.ifsc = ifsc /\ g.ifsd = ifsd /\ g.conf_ifsd = conf /\ g.ack_ifsc = ack
      /\ g.buf = e.buf /\ g.bug = e.bug /\ g.ack_type = e.ack_type /\ g.ack_info = e.ack_info
  BY <1>1 DEF Stage, Ifds
<1>4. /\ g.ns = e.ns /\ g.nr = e.nr /\ g.tx_cmpl = e.tx_cmpl /\ g.rx_cmpl = e.rx_cmpl
      /\ g.tx = e.tx /\ g.rx = e.rx /\ g.nc = e.nc
  BY <1>1 DEF Stage, Ifds
<1> HIDE DEF g
<1>5. Sound(g)
  BY <1>2, <1>3 DEF Sound
<1>6. QED
  BY <1>3, <1>4, <1>5 DEF Staged, g

(* An R- or S-block of at most one byte of information.                    *)
LEMMA StageLaidOut ==
    ASSUME Roomy, NEW e, NEW c, Sound(e), Agreed(e, c), InPlace(e),
           NEW pcb, pcb.t # "I", pcb.t = "S" /\ ~pcb.r => ~Arrived(e, c),
           NEW ifsc, ifsc <= 1, NEW ifsd \in Nat, NEW conf,
           e.tx < e.nc => ifsd = 1 /\ conf = 1,
           e.tx = e.nc => /\ conf = Lower(IFD_T1_MAX_IFSD, IFD_BUF_SIZE - e.rx)
                          /\ ifsd = 1 \/ ifsd = conf,
           NEW g, Staged(g, e, pcb, ifsc, ifsd, conf, e.ack_ifsc)
    PROVE  LaidOut(g, c)
<1>1. /\ Sound(g) /\ g.pcb = pcb /\ g.ifsc = ifsc /\ g.ifsd = ifsd /\ g.conf_ifsd = conf
      /\ g.tx = e.tx /\ g.rx = e.rx /\ g.nc = e.nc /\ g.buf = e.buf /\ SameTurn(g, e)
  BY DEF Staged, SameTurn
<1>2. Agreed(g, c) /\ (Arrived(g, c) <=> Arrived(e, c))
  BY <1>1, TurnAgrees
<1>3. e.tx \in Nat /\ e.nc \in Nat /\ e.rx \in Nat /\ ifsc \in Nat
  BY <1>1, SoundIs
<1>4. CASE e.tx < e.nc
  <2>1. e.nc \in 1 .. IFD_BUF_SIZE /\ e.rx = 0
    BY <1>4, AgreedIs
  <2>2. CommandAt(e.buf, e.tx, e.tx, e.nc - e.tx)
    BY <1>4 DEF InPlace
  <2>3. e.conf_ifsc \in 1 .. 254 /\ SafeIndex + e.conf_ifsc + Epilogue <= IFD_BUF_SIZE
    BY SoundIs, RoomIs
  <2>4. e.nc <= IFD_BUF_SIZE /\ e.tx + ifsc <= e.nc /\ SafeIndex + ifsc + Epilogue <= IFD_BUF_SIZE
    <3> DEFINE tx == e.tx
               nc == e.nc
               v == e.conf_ifsc
    <3>1. tx \in Nat /\ nc \in 1 .. IFD_BUF_SIZE /\ v \in 1 .. 254
          /\ SafeIndex + v + Epilogue <= IFD_BUF_SIZE /\ tx < nc /\ ifsc <= 1 /\ ifsc \in Nat
      BY <1>3, <1>4, <2>1, <2>3
    <3> HIDE DEF tx, nc, v
    <3>2. nc <= IFD_BUF_SIZE /\ tx + ifsc <= nc /\ SafeIndex + ifsc + Epilogue <= IFD_BUF_SIZE
      BY <3>1, Sizes, SMT
    <3>3. QED
      BY <3>2 DEF tx, nc
  <2>5. e.tx # e.nc
    BY <1>3, <1>4, SMT
  <2>6. PlainTx(g)
    BY <1>1, <1>4, <2>1, <2>2, <2>4 DEF PlainTx
  <2>7. QED
    BY <1>1, <1>2, <1>4, <2>5, <2>6 DEF LaidOut, Plain
<1>5. CASE ~(e.tx < e.nc)
  <2>1. e.tx = e.nc /\ e.rx < IFD_BUF_SIZE
    BY <1>5, AgreedIs
  <2>2. ResponseAt(e.buf, 0, 0, e.rx)
    BY <1>5 DEF InPlace
  <2>3. ifsd \in 1 .. IFD_T1_MAX_IFSD /\ ifsd <= IFD_BUF_SIZE - e.rx
    <3> DEFINE rx == e.rx
    <3>1. rx \in Nat /\ rx < IFD_BUF_SIZE /\ (ifsd = 1 \/ ifsd = Lower(IFD_T1_MAX_IFSD, IFD_BUF_SIZE - rx))
      BY <1>3, <2>1
    <3> HIDE DEF rx
    <3>2. ifsd \in 1 .. IFD_T1_MAX_IFSD /\ ifsd <= IFD_BUF_SIZE - rx
      BY <3>1, Sizes, SMT DEF Lower
    <3>3. QED
      BY <3>2 DEF rx
  <2>4. RxSizes(g)
    BY <1>1, <2>1, <2>3 DEF RxSizes
  <2>5. PlainRx(g)
    BY <1>1, <1>5, <2>2, <2>4 DEF PlainRx
  <2>6. QED
    BY <1>1, <1>2, <1>5, <2>1, <2>5 DEF LaidOut, Plain
<1>6. QED
  BY <1>4, <1>5

(* The protocol control bytes.                                             *)
LEMMA PcbIs ==
    /\ \A n \in Bits : \A m \in BOOLEAN : I(n, m) \in Pcbs /\ I(n, m).t = "I" /\ I(n, m).n = n /\ I(n, m).m = m
    /\ \A n \in Bits : R(n) \in Pcbs /\ R(n).t = "R" /\ R(n).n = n
    /\ \A s \in SBlocks : \A b \in BOOLEAN :
          S(s, b) \in Pcbs /\ S(s, b).t = "S" /\ S(s, b).s = s /\ S(s, b).r = b
    /\ \A p \in Pcbs :
          \/ p.t = "I" /\ p.n \in Bits /\ p.m \in BOOLEAN /\ p.t # "R" /\ p.t # "S"
          \/ p.t = "R" /\ p.n \in Bits /\ p.t # "I" /\ p.t # "S"
          \/ p.t = "S" /\ p.s \in SBlocks /\ p.r \in BOOLEAN /\ p.t # "I" /\ p.t # "R"
<1>1. \A n \in Bits : \A m \in BOOLEAN : I(n, m) \in Pcbs /\ I(n, m).t = "I" /\ I(n, m).n = n /\ I(n, m).m = m
  BY SMT DEF Pcbs, I
<1>2. \A n \in Bits : R(n) \in Pcbs /\ R(n).t = "R" /\ R(n).n = n
  BY SMT DEF Pcbs, R
<1>3. \A s \in SBlocks : \A b \in BOOLEAN :
          S(s, b) \in Pcbs /\ S(s, b).t = "S" /\ S(s, b).s = s /\ S(s, b).r = b
  BY SMT DEF Pcbs, S
<1>4. ASSUME NEW p \in Pcbs
      PROVE  \/ p.t = "I" /\ p.n \in Bits /\ p.m \in BOOLEAN /\ p.t # "R" /\ p.t # "S"
             \/ p.t = "R" /\ p.n \in Bits /\ p.t # "I" /\ p.t # "S"
             \/ p.t = "S" /\ p.s \in SBlocks /\ p.r \in BOOLEAN /\ p.t # "I" /\ p.t # "R"
  <2>1. CASE \E n \in Bits, m \in BOOLEAN : p = I(n, m)
    BY <2>1, SMT DEF I
  <2>2. CASE \E n \in Bits : p = R(n)
    BY <2>2, SMT DEF R
  <2>3. CASE \E s \in SBlocks, b \in BOOLEAN : p = S(s, b)
    BY <2>3, SMT DEF S
  <2>4. QED
    BY <2>1, <2>2, <2>3, SMT DEF Pcbs
<1>5. QED
  BY <1>1, <1>2, <1>3, <1>4

IsBlock(b, pcb, inf) == b \in Blocks /\ b.pcb = pcb /\ b.inf = inf

LEMMA BlockIs ==
    ASSUME NEW pcb \in Pcbs, NEW inf \in Seq(Int)
    PROVE  IsBlock(Block(pcb, inf), pcb, inf)
  BY DEF IsBlock, Block, Blocks

(* What goes out of an R- or S-block.                                      *)
LEMMA SentShort ==
    ASSUME NEW e, Sound(e), e.pcb.t # "I", e.pcb.t = "R" => e.ifsc = 0
    PROVE  /\ Sent(e) \in Blocks /\ Sent(e).pcb = e.pcb
           /\ e.pcb.t = "S" /\ ~e.pcb.r /\ e.ifsc = 1 => Sent(e).inf = <<e.conf_ifsd>>
<1> DEFINE inf == IF e.pcb.t = "S"
                  THEN IF e.ifsc = 1 THEN <<IF e.pcb.r THEN e.ack_info ELSE e.conf_ifsd>> ELSE <<>>
                  ELSE Read(e.buf, e.tx_blk + IFD_T1_PROLOGUE_SIZE, e.ifsc)
<1>1. Sent(e) = Block(e.pcb, inf)
  BY DEF Sent
<1>2. /\ e.buf \in Seq(Int) /\ e.tx_blk \in Nat /\ e.pcb \in Pcbs
      /\ e.ack_info \in Nat /\ e.conf_ifsd \in 1 .. 254
  BY SoundIs
<1>3. inf \in Seq(Int)
  <2>1. CASE e.pcb.t = "S"
    <3>1. <<>> \in Seq(Int) /\ \A n \in Int : <<n>> \in Seq(Int)
      BY SMT
    <3>2. e.ack_info \in Int /\ e.conf_ifsd \in Int
      <4>1. \A n : (n \in Nat \/ n \in 1 .. 254) => n \in Int
        BY SMT
      <4>2. QED
        BY <1>2, <4>1
    <3>3. QED
      BY <2>1, <3>1, <3>2
  <2>2. CASE e.pcb.t # "S"
    <3>1. e.pcb.t = "R"
      BY <1>2, <2>2, PcbIs
    <3>2. inf = Read(e.buf, e.tx_blk + 3, 0)
      BY <2>2, <3>1
    <3>3. inf = SubSeq(e.buf \o Framing(0), (e.tx_blk + 3) + 1, (e.tx_blk + 3) + 0)
      BY <3>2 DEF Read
    <3> HIDE DEF inf
    <3>4. ASSUME NEW s \in Seq(Int), NEW n \in Nat PROVE SubSeq(s, (n + 3) + 1, (n + 3) + 0) \in Seq(Int)
      BY SMT
    <3>5. e.buf \o Framing(0) \in Seq(Int)
      <4>1. 0 \in Nat
        BY SMT
      <4>2. QED
        BY <1>2, <4>1, FramingIs, JoinIs
    <3>6. QED
      BY <1>2, <3>3, <3>4, <3>5
  <2>3. QED
    BY <2>1, <2>2
<1>4. e.pcb.t = "S" /\ ~e.pcb.r /\ e.ifsc = 1 => inf = <<e.conf_ifsd>>
  OBVIOUS
<1> HIDE DEF inf
<1>5. IsBlock(Sent(e), e.pcb, inf)
  BY <1>1, <1>2, <1>3, BlockIs
<1>6. QED
  BY <1>4, <1>5 DEF IsBlock

(* The block that goes out is the one the protocol asks for.               *)
SentOut(r, c) == Out(r, c) /\ Outgoing(r, c, Sent(r))

(* An S- or R-block goes out as it was built.                              *)
LEMMA ShortSentOut ==
    ASSUME Roomy, NEW e, NEW c, Ready(e, c),
           NEW pcb \in Pcbs, pcb.t # "I", pcb.t = "S" /\ ~pcb.r => ~Arrived(e, c),
           NEW ifsc \in Nat, ifsc <= 1, pcb.t = "R" => ifsc = 0 /\ pcb.n = e.nr,
           pcb.t = "S" /\ ~pcb.r => pcb.s = "IFS" /\ ifsc = 1,
           NEW ifsd \in Nat, NEW conf \in Nat, conf \in 1 .. 254,
           e.tx < e.nc => ifsd = 1 /\ conf = 1,
           e.tx = e.nc => /\ conf = Lower(IFD_T1_MAX_IFSD, IFD_BUF_SIZE - e.rx)
                          /\ ifsd = 1 \/ ifsd = conf
    PROVE  SentOut(Build(Stage(e, pcb, ifsc, ifsd, conf, e.ack_ifsc)), c)
<1> DEFINE g == Stage(e, pcb, ifsc, ifsd, conf, e.ack_ifsc)
           r == Build(g)
<1>1. Sound(e) /\ Agreed(e, c) /\ InPlace(e) /\ e.ack_ifsc \in Nat
  BY SoundIs DEF Ready
<1>2. Staged(g, e, pcb, ifsc, ifsd, conf, e.ack_ifsc)
  BY <1>1, StageIs
<1> HIDE DEF g
<1>3. LaidOut(g, c)
  BY <1>1, <1>2, StageLaidOut
<1>4. Out(r, c) /\ Kept(r, g)
  BY <1>3, BuiltIsOut
<1> HIDE DEF r
<1>5. Sound(r) /\ r.pcb = pcb /\ r.ifsc = ifsc /\ r.nr = e.nr /\ r.conf_ifsd = conf
  BY <1>2, <1>4 DEF Out, Kept, Staged
<1>6. /\ Sent(r) \in Blocks /\ Sent(r).pcb = r.pcb
      /\ r.pcb.t = "S" /\ ~r.pcb.r /\ r.ifsc = 1 => Sent(r).inf = <<r.conf_ifsd>>
  BY <1>5, SentShort
<1>7. Len(<<conf>>) = 1 /\ <<conf>>[1] = conf
  BY SMT
<1>8. Outgoing(r, c, Sent(r))
  <2> DEFINE w == Sent(r)
  <2>1. w \in Blocks /\ w.pcb = r.pcb /\ (pcb.t = "S" /\ ~pcb.r => w.inf = <<conf>>)
    BY <1>5, <1>6
  <2> HIDE DEF w
  <2>2. r.pcb.t = "R" => r.pcb.n = r.nr
    BY <1>5
  <2>3. r.pcb.t = "S" /\ ~r.pcb.r => r.pcb.s = "IFS" /\ Len(w.inf) = 1 /\ w.inf[1] \in Nat
    BY <1>5, <1>7, <2>1
  <2>4. r.pcb.t # "I"
    BY <1>5
  <2>5. Outgoing(r, c, w)
    BY <2>1, <2>2, <2>3, <2>4 DEF Outgoing
  <2>6. QED
    BY <2>5 DEF w
<1>9. QED
  BY <1>4, <1>8 DEF SentOut, r, g

(* The build functions of the three kinds of block.                        *)
LEMMA SblockIs ==
    ASSUME NEW e, Sound(e), NEW type \in SBlocks, NEW inf, type = "IFS" => ~(inf < 1), NEW b \in BOOLEAN
    PROVE  ifd_t1_build_sblock(e, type, inf, b) =
             Build(Stage(e, S(type, b), IF type \in {"IFS", "WTX"} THEN 1 ELSE 0, 1, e.conf_ifsd, e.ack_ifsc))
<1>1. e \in Ifds /\ ~e.bug
  BY DEF Sound
<1>2. Bug(e, type = "IFS" /\ inf < 1) = e
  BY <1>1, NoBugStep
<1>3. QED
  BY <1>1, <1>2 DEF ifd_t1_build_sblock, Stage, Ifds

LEMMA RblockIs ==
    ASSUME NEW e, Sound(e)
    PROVE  ifd_t1_build_rblock(e) = Build(Stage(e, R(e.nr), 0, e.conf_ifsd, e.conf_ifsd, e.ack_ifsc))
<1>1. e \in Ifds
  BY DEF Sound
<1>2. QED
  BY <1>1 DEF ifd_t1_build_rblock, Stage, Ifds

LEMMA IblockIs ==
    ASSUME NEW e, Sound(e), NEW ifsc
    PROVE  ifd_t1_build_iblock(e, ifsc) =
             Build(Stage(e, I(e.ns, e.nc > e.tx + ifsc), ifsc, e.conf_ifsd, e.conf_ifsd, ifsc))
<1> DEFINE e1 == [e EXCEPT !.ack_ifsc = ifsc, !.ifsc = ifsc, !.ifsd = e.conf_ifsd]
<1>1. e \in Ifds
  BY DEF Sound
<1>2. e1.nc = e.nc /\ e1.tx = e.tx /\ e1.ack_ifsc = ifsc
  BY <1>1 DEF Ifds
<1>3. ifd_t1_xfr_m(e1) = (e.nc > e.tx + ifsc)
  BY <1>2 DEF ifd_t1_xfr_m
<1>4. [e1 EXCEPT !.pcb = I(e.ns, e.nc > e.tx + ifsc)]
        = Stage(e, I(e.ns, e.nc > e.tx + ifsc), ifsc, e.conf_ifsd, e.conf_ifsd, ifsc)
  BY <1>1 DEF Stage, Ifds
<1>5. ifd_t1_build_iblock(e, ifsc) = Build([e1 EXCEPT !.pcb = I(e.ns, ifd_t1_xfr_m(e1))])
  BY DEF ifd_t1_build_iblock
<1>6. QED
  BY <1>3, <1>4, <1>5

LEMMA SetIfsdIs ==
    ASSUME NEW e, Sound(e), NEW ifsd \in 1 .. 254
    PROVE  SetIfsd(e, ifsd) = Build(Stage(e, S("IFS", FALSE), 1, 1, ifsd, e.ack_ifsc))
<1> DEFINE f == [e EXCEPT !.conf_ifsd = ifsd]
<1>1. e \in Ifds /\ ifsd \in Nat /\ ~(ifsd < 1) /\ ifsd \in 0 .. 255
  <2>1. ifsd \in Nat /\ ~(ifsd < 1) /\ ifsd \in 0 .. 255
    BY SMT
  <2>2. QED
    BY <2>1 DEF Sound
<1>2. uint8(ifsd) = ifsd
  BY SMT DEF uint8
<1>3. f \in Ifds /\ f.conf_ifsd = ifsd /\ f.ack_ifsc = e.ack_ifsc
  BY <1>1 DEF Ifds
<1>4. f.buf = e.buf /\ f.bug = e.bug /\ f.ack_type = e.ack_type /\ f.ack_info = e.ack_info
  BY <1>1 DEF Ifds
<1>5. SetIfsd(e, ifsd) = ifd_t1_build_sblock(f, "IFS", ifsd, FALSE)
  BY <1>2 DEF SetIfsd
<1>6. Stage(f, S("IFS", FALSE), 1, 1, ifsd, e.ack_ifsc) = Stage(e, S("IFS", FALSE), 1, 1, ifsd, e.ack_ifsc)
  BY <1>1 DEF Stage, Ifds
<1> HIDE DEF f
<1>7. Sound(f)
  BY <1>3, <1>4 DEF Sound
<1>8. "IFS" \in SBlocks /\ "IFS" \in {"IFS", "WTX"}
  BY DEF SBlocks
<1>9. ifd_t1_build_sblock(f, "IFS", ifsd, FALSE) = Build(Stage(f, S("IFS", FALSE), 1, 1, f.conf_ifsd, f.ack_ifsc))
  BY <1>1, <1>7, <1>8, SblockIs
<1>10. QED
  BY <1>3, <1>5, <1>6, <1>9

(* ifd_t1_xchg_aval, case by case.                                         *)
LEMMA AvalS ==
    ASSUME Roomy, NEW e, NEW c, Ready(e, c), e.pcb.t = "S"
    PROVE  SentOut(ifd_t1_xchg_aval(e), c)
<1> DEFINE type == e.ack_type
           ifsc == IF type \in {"IFS", "WTX"} THEN 1 ELSE 0
<1>1. Sound(e) /\ type \in SBlocks /\ e.ack_info \in Nat /\ e.conf_ifsd \in 1 .. 254
  BY SoundIs DEF Ready
<1>2. type = "IFS" => ~(e.ack_info < 1)
  <2>1. type = "IFS" => e.ack_info >= 1
    BY <1>1 DEF Sound
  <2>2. QED
    BY <1>1, <2>1, SMT
<1>3. ifd_t1_xchg_aval(e) = ifd_t1_build_sblock(e, type, e.ack_info, TRUE)
  BY DEF ifd_t1_xchg_aval
<1>4. ifd_t1_build_sblock(e, type, e.ack_info, TRUE) =
        Build(Stage(e, S(type, TRUE), ifsc, 1, e.conf_ifsd, e.ack_ifsc))
  BY <1>1, <1>2, SblockIs
<1>5. S(type, TRUE) \in Pcbs /\ S(type, TRUE).t = "S" /\ S(type, TRUE).r
  BY <1>1, PcbIs
<1>6. ifsc \in Nat /\ ifsc <= 1 /\ e.conf_ifsd \in Nat /\ 1 \in Nat
  <2>1. 0 \in Nat /\ 1 \in Nat /\ 0 <= 1 /\ 1 <= 1 /\ \A n \in 1 .. 254 : n \in Nat
    BY SMT
  <2>2. QED
    BY <1>1, <2>1
<1>7. e.tx < e.nc => e.conf_ifsd = 1
  <2>1. ASSUME e.tx < e.nc PROVE e.tx # e.nc
    <3>1. e.tx \in Nat /\ e.nc \in Nat
      BY <1>1, SoundIs
    <3>2. QED
      BY <2>1, <3>1, SMT
  <2>2. QED
    BY <2>1 DEF Ready
<1>8. e.tx = e.nc => e.conf_ifsd = Lower(IFD_T1_MAX_IFSD, IFD_BUF_SIZE - e.rx)
  BY DEF Ready
<1> HIDE DEF ifsc, type
<1>9. QED
  BY <1>1, <1>3, <1>4, <1>5, <1>6, <1>7, <1>8, ShortSentOut

LEMMA RblockSentOut ==
    ASSUME Roomy, NEW e, NEW c, Ready(e, c),
           e.tx < e.nc => e.conf_ifsd = 1,
           e.tx = e.nc => e.conf_ifsd = Lower(IFD_T1_MAX_IFSD, IFD_BUF_SIZE - e.rx)
    PROVE  SentOut(ifd_t1_build_rblock(e), c)
<1>1. Sound(e) /\ e.nr \in Bits /\ e.conf_ifsd \in 1 .. 254
  BY SoundIs DEF Ready
<1>2. R(e.nr) \in Pcbs /\ R(e.nr).t = "R" /\ R(e.nr).n = e.nr
  BY <1>1, PcbIs
<1>3. 0 \in Nat /\ 0 <= 1 /\ e.conf_ifsd \in Nat
  <2>1. 0 \in Nat /\ 0 <= 1 /\ \A n \in 1 .. 254 : n \in Nat
    BY SMT
  <2>2. QED
    BY <1>1, <2>1
<1>4. ifd_t1_build_rblock(e) = Build(Stage(e, R(e.nr), 0, e.conf_ifsd, e.conf_ifsd, e.ack_ifsc))
  BY <1>1, RblockIs
<1>5. QED
  BY <1>1, <1>2, <1>3, <1>4, ShortSentOut

LEMMA AvalR ==
    ASSUME Roomy, NEW e, NEW c, Ready(e, c), e.pcb.t = "R"
    PROVE  SentOut(ifd_t1_xchg_aval(e), c)
<1>1. Sound(e) /\ e.tx \in Nat /\ e.nc \in Nat
  BY SoundIs DEF Ready
<1>2. ifd_t1_xchg_aval(e) = ifd_t1_build_rblock(e)
  BY DEF ifd_t1_xchg_aval
<1>3. e.tx < e.nc => e.conf_ifsd = 1
  <2>1. ASSUME e.tx < e.nc PROVE e.tx # e.nc
    BY <1>1, <2>1, SMT
  <2>2. QED
    BY <2>1 DEF Ready
<1>4. e.tx = e.nc => e.conf_ifsd = Lower(IFD_T1_MAX_IFSD, IFD_BUF_SIZE - e.rx)
  BY DEF Ready
<1>5. QED
  BY <1>2, <1>3, <1>4, RblockSentOut

LEMMA SetIfsdSentOut ==
    ASSUME Roomy, NEW e, NEW c, Ready(e, c), e.pcb.t = "I", NEW ifsd \in 1 .. 254,
           e.tx < e.nc => ifsd = 1,
           e.tx = e.nc => ifsd = Lower(IFD_T1_MAX_IFSD, IFD_BUF_SIZE - e.rx)
    PROVE  SentOut(SetIfsd(e, ifsd), c)
<1>1. Sound(e) /\ ~Arrived(e, c)
  BY DEF Ready
<1>2. S("IFS", FALSE) \in Pcbs /\ S("IFS", FALSE).t = "S" /\ ~S("IFS", FALSE).r /\ S("IFS", FALSE).s = "IFS"
  <2>1. "IFS" \in SBlocks
    BY DEF SBlocks
  <2>2. QED
    BY <2>1, PcbIs
<1>3. 1 \in Nat /\ 1 <= 1 /\ ifsd \in Nat
  BY SMT
<1>4. SetIfsd(e, ifsd) = Build(Stage(e, S("IFS", FALSE), 1, 1, ifsd, e.ack_ifsc))
  BY <1>1, SetIfsdIs
<1>5. QED
  BY <1>1, <1>2, <1>3, <1>4, ShortSentOut

LEMMA AvalRx ==
    ASSUME Roomy, NEW e, NEW c, Ready(e, c), e.pcb.t = "I", ~(e.tx < e.nc)
    PROVE  SentOut(ifd_t1_xchg_aval(e), c)
<1> DEFINE beyond == Lower(IFD_T1_MAX_IFSD, IFD_BUF_SIZE - e.rx)
<1>1. Sound(e) /\ Agreed(e, c) /\ e.tx \in Nat /\ e.nc \in Nat /\ e.rx \in Nat
  BY SoundIs DEF Ready
<1>2. e.tx = e.nc /\ e.rx < IFD_BUF_SIZE
  BY <1>1, AgreedIs
<1>3. e.tx >= e.nc
  BY <1>1, <1>2, SMT
<1>4. ifd_t1_xchg_aval(e) =
        IF beyond # e.conf_ifsd THEN SetIfsd(e, beyond) ELSE ifd_t1_build_rblock(e)
  BY <1>3 DEF ifd_t1_xchg_aval
<1>5. beyond \in 1 .. 254
  <2> DEFINE rx == e.rx
  <2>1. rx \in Nat /\ rx < IFD_BUF_SIZE
    BY <1>1, <1>2
  <2> HIDE DEF rx
  <2>2. Lower(IFD_T1_MAX_IFSD, IFD_BUF_SIZE - rx) \in 1 .. 254
    BY <2>1, Sizes, SMT DEF Lower
  <2>3. QED
    BY <2>2 DEF rx
<1>6. CASE beyond # e.conf_ifsd
  <2>1. SentOut(SetIfsd(e, beyond), c)
    BY <1>5, SetIfsdSentOut
  <2>2. QED
    BY <1>4, <1>6, <2>1
<1>7. CASE beyond = e.conf_ifsd
  <2>1. SentOut(ifd_t1_build_rblock(e), c)
    BY <1>7, RblockSentOut
  <2>2. QED
    BY <1>4, <1>7, <2>1
<1>8. QED
  BY <1>6, <1>7

(* What goes out of an I-block: the piece of the command it is to carry.   *)
LEMMA SentPiece ==
    ASSUME NEW e, Sound(e), e.pcb.t = "I", e.tx_blk = SafeIndex - 3,
           CommandAt(e.buf, SafeIndex, e.tx, e.ifsc), SafeIndex + e.ifsc + Epilogue <= IFD_BUF_SIZE
    PROVE  IsBlock(Sent(e), e.pcb, [i \in 1 .. e.ifsc |-> e.tx + i])
<1> DEFINE inf == Read(e.buf, e.tx_blk + IFD_T1_PROLOGUE_SIZE, e.ifsc)
           tx == e.tx
           n == e.ifsc
           buf == e.buf
           want == [i \in 1 .. n |-> tx + i]
<1>1. Sent(e) = Block(e.pcb, inf)
  BY DEF Sent
<1>2. /\ buf \in Seq(Int) /\ Len(buf) = IFD_BUF_SIZE /\ tx \in Nat /\ n \in Nat /\ e.pcb \in Pcbs
      /\ CommandAt(buf, SafeIndex, tx, n) /\ SafeIndex + n + Epilogue <= IFD_BUF_SIZE
  BY SoundIs
<1>3. e.tx_blk + 3 = SafeIndex
  BY Sizes, SMT
<1>4. inf = Read(buf, SafeIndex, n)
  BY <1>3
<1> HIDE DEF inf, tx, n, buf
<1>5. SafeIndex \in Nat /\ SafeIndex + n <= Len(buf)
  BY <1>2, Sizes, SMT
<1>6. IsRead(inf, buf, SafeIndex, n)
  BY <1>2, <1>4, <1>5, ReadIs
<1>7. inf \in Seq(Int) /\ Len(inf) = n /\ \A i \in 1 .. n : inf[i] = tx + i
  BY <1>2, <1>6 DEF IsRead, CommandAt
<1>8. want \in Seq(Int) /\ Len(want) = n /\ \A i \in 1 .. n : want[i] = tx + i
  BY <1>2, SMT
<1> HIDE DEF want
<1>9. inf = want
  BY <1>7, <1>8, SMT
<1>10. IsBlock(Block(e.pcb, inf), e.pcb, inf)
  BY <1>2, <1>7, BlockIs
<1>11. QED
  BY <1>1, <1>9, <1>10 DEF want, tx, n

(* The numbers of the next I-block.                                        *)
PieceSizes(n, tx, nc) ==
    n \in 1 .. 254 /\ n \in Nat /\ n > 0 /\ tx + n <= nc /\ SafeIndex + n + Epilogue <= IFD_BUF_SIZE

NextSizes(v, tx, nc, safe, want, ifsc) ==
    /\ v \in CardIfs /\ tx \in Nat /\ nc \in Nat /\ tx < nc
    /\ safe = SafeIndex \/ safe = SafeIndex - 1
    /\ want = Lower(v, nc - tx)
    /\ ifsc = IF want + safe + Epilogue >= IFD_BUF_SIZE THEN IFD_BUF_SIZE - safe - Epilogue ELSE want

(* The next piece is not empty, fits into the buffer and ends within the   *)
(* command.                                                                *)
LEMMA NextPiece ==
    ASSUME Roomy, NEW v, NEW tx, NEW nc, NEW safe, NEW want, NEW ifsc,
           NextSizes(v, tx, nc, safe, want, ifsc)
    PROVE  uint8(ifsc) = want /\ PieceSizes(want, tx, nc)
<1>1. /\ v \in CardIfs /\ tx \in Nat /\ nc \in Nat /\ tx < nc
      /\ safe = SafeIndex \/ safe = SafeIndex - 1
      /\ want = Lower(v, nc - tx)
      /\ ifsc = IF want + safe + Epilogue >= IFD_BUF_SIZE THEN IFD_BUF_SIZE - safe - Epilogue ELSE want
  BY DEF NextSizes
<1>2. v \in 1 .. 254 /\ SafeIndex + v + Epilogue <= IFD_BUF_SIZE
  BY <1>1, RoomIs
<1>3. want \in 1 .. 254 /\ want <= v /\ tx + want <= nc
  BY <1>1, <1>2, SMT DEF Lower
<1>4. SafeIndex + want + Epilogue <= IFD_BUF_SIZE
  BY <1>2, <1>3, Sizes, SMT
<1>5. ifsc = want
  BY <1>1, <1>3, <1>4, Sizes, SMT
<1>6. uint8(want) = want /\ want \in Nat /\ want > 0
  BY <1>3, SMT DEF uint8
<1>7. QED
  BY <1>3, <1>4, <1>5, <1>6 DEF PieceSizes

(* An I-block carries the next piece of the command, whole.                *)
LEMMA IblockSentOut ==
    ASSUME Roomy, NEW e, NEW c, Ready(e, c), e.pcb.t = "I", e.tx < e.nc, e.conf_ifsd = 1,
           NEW n, PieceSizes(n, e.tx, e.nc)
    PROVE  SentOut(ifd_t1_build_iblock(e, n), c)
<1> DEFINE m == e.nc > e.tx + n
           g == Stage(e, I(e.ns, m), n, 1, 1, n)
           r == Build(g)
<1>1. Sound(e) /\ Agreed(e, c) /\ InPlace(e) /\ ~Arrived(e, c)
  BY DEF Ready
<1>2. /\ e.nc \in 1 .. IFD_BUF_SIZE /\ e.rx = 0 /\ Waiting(e, c) /\ e.ns \in Bits
      /\ e.tx \in Nat /\ e.nc \in Nat
  BY <1>1, AgreedIs, SoundIs
<1>3. n \in 1 .. 254 /\ n \in Nat /\ n > 0 /\ e.tx + n <= e.nc /\ SafeIndex + n + Epilogue <= IFD_BUF_SIZE
  BY DEF PieceSizes
<1>4. m \in BOOLEAN
  <2> DEFINE tx == e.tx
             nc == e.nc
  <2>1. tx \in Nat /\ nc \in Nat
    BY <1>2
  <2> HIDE DEF tx, nc
  <2>2. (nc > tx + n) \in BOOLEAN
    BY <1>3, <2>1, SMT
  <2>3. QED
    BY <2>2 DEF tx, nc
<1>5. ifd_t1_build_iblock(e, n) = r
  BY <1>1, IblockIs
<1> HIDE DEF m
<1>6. I(e.ns, m) \in Pcbs /\ I(e.ns, m).t = "I" /\ I(e.ns, m).n = e.ns /\ I(e.ns, m).m = m
  <2>1. \A k \in Bits : \A b \in BOOLEAN : I(k, b) \in Pcbs /\ I(k, b).t = "I" /\ I(k, b).n = k /\ I(k, b).m = b
    BY PcbIs
  <2>2. e.ns \in Bits
    BY <1>2
  <2>3. QED
    BY <1>4, <2>1, <2>2
<1>7. Staged(g, e, I(e.ns, m), n, 1, 1, n)
  <2>1. 1 \in Nat /\ 1 \in 1 .. 254
    BY SMT
  <2>2. QED
    BY <1>1, <1>3, <1>6, <2>1, StageIs
<1> HIDE DEF g
<1>8. /\ Sound(g) /\ g.pcb.t = "I" /\ g.pcb.n = e.ns /\ g.pcb.m = m
      /\ g.ifsc = n /\ g.ifsd = 1 /\ g.conf_ifsd = 1 /\ g.ack_ifsc = n
      /\ g.tx = e.tx /\ g.rx = 0 /\ g.nc = e.nc /\ g.buf = e.buf /\ g.ns = e.ns
  BY <1>2, <1>6, <1>7 DEF Staged
<1>9. Waiting(g, c) /\ Agreed(g, c)
  <2>1. Waiting(g, c)
    BY <1>2, <1>7 DEF Staged, Waiting, Settled
  <2>2. QED
    BY <1>1, <1>7, <2>1 DEF Staged, Agreed
<1>10. PlainTx(g)
  <2>1. e.nc <= IFD_BUF_SIZE
    BY <1>2, Sizes, SMT
  <2>2. CommandAt(e.buf, e.tx, e.tx, e.nc - e.tx)
    BY <1>1 DEF InPlace
  <2>3. QED
    BY <1>3, <1>8, <2>1, <2>2 DEF PlainTx
<1>11. LaidOut(g, c)
  <2>1. g.tx # g.nc
    BY <1>2, <1>8, SMT
  <2>2. QED
    BY <1>8, <1>9, <1>10, <2>1 DEF LaidOut, Plain
<1>12. Out(r, c) /\ Kept(r, g)
  BY <1>11, BuiltIsOut
<1>13. ParkedTx(r) /\ r.tx_blk = SafeIndex - 3
  BY <1>8, <1>10, BuildTx
<1> HIDE DEF r
<1>14. /\ Sound(r) /\ r.pcb = g.pcb /\ r.pcb.t = "I" /\ r.pcb.n = r.ns /\ r.pcb.m = m
       /\ r.ifsc = n /\ r.ack_ifsc = n /\ r.tx = e.tx /\ r.nc = e.nc
  BY <1>8, <1>12 DEF Kept, Out
<1>15. Waiting(r, c)
  BY <1>9, <1>12, TurnKept, TurnAgrees
<1>16. IsBlock(Sent(r), r.pcb, [i \in 1 .. r.ifsc |-> r.tx + i])
  <2>1. CommandAt(r.buf, SafeIndex, r.tx, r.ifsc) /\ SafeIndex + r.ifsc + Epilogue <= IFD_BUF_SIZE
    BY <1>13 DEF ParkedTx
  <2>2. QED
    BY <1>13, <1>14, <2>1, SentPiece
<1>17. Outgoing(r, c, Sent(r))
  <2> DEFINE w == Sent(r)
  <2>1. w \in Blocks /\ w.pcb = r.pcb /\ w.inf = [i \in 1 .. r.ack_ifsc |-> r.tx + i]
    BY <1>14, <1>16 DEF IsBlock
  <2> HIDE DEF w
  <2>2. r.pcb.m = (r.nc > r.tx + r.ack_ifsc)
    BY <1>14 DEF m
  <2>3. r.ack_ifsc > 0 /\ r.tx + r.ack_ifsc <= r.nc
    BY <1>3, <1>14
  <2>4. r.pcb.t # "R" /\ r.pcb.t # "S"
    BY <1>14
  <2>5. Outgoing(r, c, w)
    BY <1>14, <1>15, <2>1, <2>2, <2>3, <2>4 DEF Outgoing
  <2>6. QED
    BY <2>5 DEF w
<1>18. QED
  BY <1>5, <1>12, <1>17 DEF SentOut

LEMMA AvalTx ==
    ASSUME Roomy, NEW e, NEW c, Ready(e, c), e.pcb.t = "I", e.tx < e.nc
    PROVE  SentOut(ifd_t1_xchg_aval(e), c)
<1> DEFINE tx == e.tx
           nc == e.nc
           conf == e.conf_ifsd
           v == e.conf_ifsc
           safe == Safe(e)
           between == Higher(Minus(tx, 0 + 3 + Epilogue), 1)
           want == Lower(v, nc - tx)
           ifsc == IF want + safe + Epilogue >= IFD_BUF_SIZE
                   THEN IFD_BUF_SIZE - safe - Epilogue ELSE want
<1>1. Sound(e) /\ Agreed(e, c) /\ e.ifsd <= 1 /\ (conf # 1 => tx = nc \/ tx = 0)
  BY DEF Ready
<1>2. /\ tx \in Nat /\ nc \in Nat /\ conf \in 1 .. 254 /\ v \in CardIfs
      /\ tx < nc /\ e.ifsd \in Nat
  BY <1>1, SoundIs
<1>3. e.rx = 0
  BY <1>1, AgreedIs
<1>4. safe = SafeIndex \/ safe = SafeIndex - 1
  <2> DEFINE ifsd == e.ifsd
  <2>1. safe = uint8(3 + Epilogue + ifsd) /\ ifsd \in Nat /\ ifsd <= 1
    BY <1>1, <1>2 DEF Safe
  <2> HIDE DEF ifsd, safe
  <2>2. 3 + Epilogue + ifsd \in 0 .. 255 /\ (3 + Epilogue + ifsd = SafeIndex \/ 3 + Epilogue + ifsd = SafeIndex - 1)
    BY <2>1, Sizes, SMT
  <2>3. QED
    BY <2>1, <2>2, Uint8
<1>5. ifd_t1_xchg_aval(e) =
        IF between < conf THEN SetIfsd(e, between) ELSE ifd_t1_build_iblock(e, uint8(ifsc))
  <2>1. ~(e.tx >= e.nc)
    BY <1>2, SMT DEF tx, nc
  <2> DEFINE b == Higher(Minus(e.tx, e.rx + 3 + Epilogue), 1)
  <2>2. ifd_t1_xchg_aval(e) =
          IF b < conf THEN SetIfsd(e, b) ELSE ifd_t1_build_iblock(e, uint8(ifsc))
    BY <2>1 DEF ifd_t1_xchg_aval
  <2>3. b = between
    BY <1>3
  <2> HIDE DEF b, between, ifsc, conf
  <2>4. QED
    BY <2>2, <2>3
<1>6. Minus(tx, 0 + 3 + Epilogue) = tx - (0 + 3 + Epilogue)
  <2>1. IntBits = 32
    BY RoomIs
  <2> HIDE DEF tx
  <2>2. QED
    BY <2>1, SMT DEF Minus
<1>7. between = Higher(tx - (0 + 3 + Epilogue), 1)
  BY <1>6
<1>8. uint8(ifsc) = want /\ PieceSizes(want, tx, nc)
  <2> HIDE DEF tx, nc, v, safe
  <2>1. NextSizes(v, tx, nc, safe, want, ifsc)
    BY <1>2, <1>4 DEF NextSizes
  <2> HIDE DEF want, ifsc
  <2>2. QED
    BY <2>1, NextPiece
<1> HIDE DEF between, tx, nc, conf, v, ifsc, want
<1>9. CASE between < conf
  <2>1. between = 1
    <3>1. tx = 0
      BY <1>1, <1>2, <1>7, <1>9, Sizes, SMT DEF Higher
    <3>2. QED
      BY <1>7, <3>1, Sizes, SMT DEF Higher
  <2>2. 1 \in 1 .. 254
    BY SMT
  <2>3. e.tx # e.nc
    BY <1>2, SMT DEF tx, nc
  <2>4. SentOut(SetIfsd(e, 1), c)
    BY <2>2, <2>3, SetIfsdSentOut
  <2>5. QED
    BY <1>5, <1>9, <2>1, <2>4
<1>10. CASE ~(between < conf)
  <2>1. conf = 1
    <3>1. CASE tx = 0
      <4>1. between = 1
        BY <1>7, <3>1, Sizes, SMT DEF Higher
      <4>2. QED
        BY <1>2, <1>10, <4>1, SMT
    <3>2. CASE tx # 0
      <4>1. tx # nc
        BY <1>2, SMT
      <4>2. QED
        BY <1>1, <3>2, <4>1
    <3>3. QED
      BY <3>1, <3>2
  <2>2. SentOut(ifd_t1_build_iblock(e, want), c)
    BY <1>8, <2>1, IblockSentOut DEF tx, nc, conf
  <2>3. QED
    BY <1>5, <1>8, <1>10, <2>2
<1>11. QED
  BY <1>9, <1>10

(* The reader that is ready sends the block the protocol asks for, and has *)
(* put aside whatever its answer may overwrite.                            *)
LEMMA AvalSentOut ==
    ASSUME Roomy, NEW e, NEW c, Ready(e, c)
    PROVE  SentOut(ifd_t1_xchg_aval(e), c)
<1>1. e.pcb \in Pcbs
  BY SoundIs DEF Ready
<1>2. e.pcb.t = "I" \/ e.pcb.t = "R" \/ e.pcb.t = "S"
  BY <1>1, PcbIs
<1>3. QED
  BY <1>2, AvalS, AvalR, AvalRx, AvalTx

-----------------------------------------------------------------------------
(* A block, or nothing, has come back: putting back what was put aside     *)
(* leaves the reader ready for its next block.                             *)

(* f is e after an answer that moves nothing on.                           *)
SamePlace(f, e) ==
    /\ Sound(f) /\ SameTurn(f, e) /\ SameBlock(f, e)
    /\ f.buf = e.buf /\ f.conf_ifsd = e.conf_ifsd

SetPcb(e, pcb) == [e EXCEPT !.pcb = pcb]

PcbOf(r, e, pcb) ==
    /\ Sound(r) /\ SameTurn(r, e) /\ r.pcb = pcb /\ r.buf = e.buf
    /\ r.ifsd = e.ifsd /\ r.conf_ifsd = e.conf_ifsd

LEMMA SetPcbIs ==
    ASSUME NEW e, Sound(e), NEW pcb \in Pcbs
    PROVE  PcbOf(SetPcb(e, pcb), e, pcb)
<1> DEFINE r == SetPcb(e, pcb)
<1>1. e \in Ifds
  BY DEF Sound
<1>2. r \in Ifds
  BY <1>1 DEF Ifds, SetPcb
<1>3. SameTurn(r, e)
  BY <1>1 DEF Ifds, SetPcb, SameTurn
<1>4. /\ r.pcb = pcb /\ r.buf = e.buf /\ r.bug = e.bug /\ r.ifsd = e.ifsd
      /\ r.ack_type = e.ack_type /\ r.ack_info = e.ack_info /\ r.conf_ifsd = e.conf_ifsd
  BY <1>1 DEF Ifds, SetPcb
<1> HIDE DEF r
<1>5. Sound(r)
  BY <1>2, <1>4 DEF Sound
<1>6. QED
  BY <1>3, <1>4, <1>5 DEF PcbOf, r

(* What a reader with everything in its place is ready for.                *)
LEMMA InPlaceReady ==
    ASSUME NEW g, NEW c, Sound(g), Agreed(g, c), InPlace(g), NEW pcb \in Pcbs,
           g.tx < g.nc => g.ifsd <= 1 /\ g.conf_ifsd = 1,
           pcb.t # "I" => (g.tx = g.nc => g.conf_ifsd = Lower(IFD_T1_MAX_IFSD, IFD_BUF_SIZE - g.rx)),
           pcb.t = "I" => ~Arrived(g, c)
    PROVE  Ready(SetPcb(g, pcb), c)
<1> DEFINE r == SetPcb(g, pcb)
<1>1. /\ Sound(r) /\ SameTurn(r, g) /\ r.pcb = pcb /\ r.buf = g.buf
      /\ r.ifsd = g.ifsd /\ r.conf_ifsd = g.conf_ifsd
  BY SetPcbIs DEF PcbOf
<1> HIDE DEF r
<1>2. r.tx = g.tx /\ r.nc = g.nc /\ r.rx = g.rx
  BY <1>1 DEF SameTurn
<1>3. Agreed(r, c) /\ (Arrived(r, c) <=> Arrived(g, c))
  BY <1>1, TurnAgrees
<1>4. InPlace(r)
  BY <1>1, <1>2 DEF InPlace
<1>5. r.tx < r.nc \/ r.tx = r.nc
  <2>1. ~(g.tx < g.nc) => g.tx = g.nc
    BY AgreedIs
  <2>2. QED
    BY <1>2, <2>1
<1>6. r.tx < r.nc => r.ifsd <= 1 /\ r.conf_ifsd = 1
  BY <1>1, <1>2
<1>7. r.tx = r.nc => r.pcb.t = "I" \/ r.conf_ifsd = Lower(IFD_T1_MAX_IFSD, IFD_BUF_SIZE - r.rx)
  BY <1>1, <1>2
<1>8. Ready(r, c)
  BY <1>1, <1>3, <1>4, <1>5, <1>6, <1>7 DEF Ready
<1>9. QED
  BY <1>8 DEF r

(* What is known of the reader while a block is out.                       *)
LEMMA OutIs ==
    ASSUME NEW e, NEW c, Out(e, c)
    PROVE  /\ Sound(e) /\ Agreed(e, c)
           /\ e.tx < e.nc => ParkedTx(e) /\ e.rx = 0 /\ e.rx_blk = 0 /\ e.ifsd = 1 /\ e.conf_ifsd = 1
           /\ ~(e.tx < e.nc) => /\ ParkedRx(e) /\ e.tx = e.nc
                                /\ e.conf_ifsd = Lower(IFD_T1_MAX_IFSD, IFD_BUF_SIZE - e.rx)
<1>1. Sound(e) /\ Agreed(e, c) /\ Parked(e)
  BY DEF Out
<1>2. e.tx < e.nc => ParkedTx(e) /\ e.rx = 0 /\ e.rx_blk = 0 /\ e.ifsd = 1 /\ e.conf_ifsd = 1
  BY <1>1 DEF Out, Parked, ParkedTx
<1>3. ~(e.tx < e.nc) => ParkedRx(e) /\ e.tx = e.nc
  BY <1>1, AgreedIs DEF Parked
<1>4. ~(e.tx < e.nc) => e.conf_ifsd = Lower(IFD_T1_MAX_IFSD, IFD_BUF_SIZE - e.rx)
  BY <1>3 DEF Out
<1>5. QED
  BY <1>1, <1>2, <1>3, <1>4

(* After an answer that moves nothing on, the reader is ready again.       *)
LEMMA SamePlaceReady ==
    ASSUME Roomy, NEW e, NEW c, Out(e, c), NEW f, SamePlace(f, e),
           NEW pcb \in Pcbs, pcb.t = "I" => ~Arrived(e, c)
    PROVE  Ready(SetPcb(ifd_t1_restore_buffer(f, e.tx, e.rx), pcb), c)
<1> DEFINE g == ifd_t1_restore_buffer(f, e.tx, e.rx)
<1>1. /\ Sound(e) /\ Agreed(e, c) /\ Sound(f) /\ SameTurn(f, e) /\ SameBlock(f, e)
      /\ f.buf = e.buf /\ f.conf_ifsd = e.conf_ifsd
      /\ f.tx = e.tx /\ f.nc = e.nc /\ f.rx = e.rx /\ f.ifsd = e.ifsd
  BY OutIs DEF SamePlace, SameTurn, SameBlock
<1>2. Restored(g, f) /\ (e.tx < e.nc => CommandAt(g.buf, e.tx, e.tx, e.nc - e.tx))
      /\ (~(e.tx < e.nc) => ResponseAt(g.buf, 0, 0, e.rx))
  <2>1. CASE e.tx < e.nc
    <3>1. ParkedTx(e)
      BY <2>1, OutIs
    <3>2. Restored(g, f) /\ CommandAt(g.buf, e.tx, e.tx, e.nc - e.tx)
      BY <1>1, <2>1, <3>1, RestoreTx
    <3>3. QED
      BY <2>1, <3>2
  <2>2. CASE ~(e.tx < e.nc)
    <3>1. ParkedRx(e) /\ f.tx = f.nc
      BY <1>1, <2>2, OutIs
    <3>2. ResponseAt(f.buf, 0, 0, e.rx_blk)
      BY <1>1, <3>1 DEF ParkedRx
    <3>3. Back(g, f, e.rx)
      BY <1>1, <3>1, <3>2, RestoreRx
    <3>4. QED
      BY <2>2, <3>3 DEF Back
  <2>3. QED
    BY <2>1, <2>2
<1> HIDE DEF g
<1>3. /\ Sound(g) /\ SameTurn(g, e) /\ g.ifsd = e.ifsd /\ g.conf_ifsd = e.conf_ifsd
      /\ g.tx = e.tx /\ g.nc = e.nc /\ g.rx = e.rx
  BY <1>1, <1>2 DEF Restored, Kept, SameTurn
<1>4. Agreed(g, c) /\ (Arrived(g, c) <=> Arrived(e, c))
  BY <1>1, <1>3, TurnAgrees
<1>5. InPlace(g)
  BY <1>2, <1>3 DEF InPlace
<1>6. g.tx < g.nc => g.ifsd <= 1 /\ g.conf_ifsd = 1
  <2>1. 1 <= 1
    BY SMT
  <2>2. QED
    BY <1>3, <2>1, OutIs
<1>7. g.tx = g.nc => g.conf_ifsd = Lower(IFD_T1_MAX_IFSD, IFD_BUF_SIZE - g.rx)
  BY <1>3 DEF Out
<1>8. QED
  BY <1>3, <1>4, <1>5, <1>6, <1>7, InPlaceReady DEF g

(* ifd_t1_error_handling leaves the reader ready for another block.        *)
LEMMA ErrorReady ==
    ASSUME Roomy, NEW e, NEW c, Out(e, c)
    PROVE  Ready(ifd_t1_error_handling(e), c)
<1> DEFINE last == e.retry = 0
           retry == IF last THEN IFD_T1_MAX_RETRY ELSE e.retry - 1
           level == IF last THEN e.level - 1 ELSE e.level
           f == [e EXCEPT !.retry = retry, !.level = level]
           pcb == IF e.level = RETRNS THEN R(0) ELSE S("RESYNC", FALSE)
<1>1. Sound(e) /\ e \in Ifds /\ e.retry \in Int /\ e.level \in Int
  BY OutIs, SoundIs
<1>2. f = [e EXCEPT !.retry = IF last THEN IFD_T1_MAX_RETRY ELSE @ - 1,
                    !.level = IF last THEN @ - 1 ELSE @]
  BY <1>1 DEF Ifds
<1>3. ifd_t1_error_handling(e) = SetPcb(ifd_t1_restore_buffer(f, e.tx, e.rx), pcb)
  BY <1>2 DEF ifd_t1_error_handling, SetPcb
<1>4. retry \in Int /\ level \in Int
  BY <1>1, Sizes, SMT
<1> HIDE DEF retry, level
<1>5. SamePlace(f, e)
  <2>1. f \in Ifds
    BY <1>1, <1>4 DEF Ifds
  <2>2. SameTurn(f, e)
    BY <1>1 DEF Ifds, SameTurn
  <2>3. SameBlock(f, e) /\ f.buf = e.buf /\ f.conf_ifsd = e.conf_ifsd
    BY <1>1 DEF Ifds, SameBlock
  <2>4. f.bug = e.bug /\ f.ack_type = e.ack_type /\ f.ack_info = e.ack_info
    BY <1>1 DEF Ifds
  <2> HIDE DEF f
  <2>5. Sound(f)
    BY <1>1, <2>1, <2>3, <2>4 DEF Sound
  <2>6. QED
    BY <2>2, <2>3, <2>5 DEF SamePlace
<1>6. pcb \in Pcbs /\ pcb.t # "I"
  <2>1. R(0) \in Pcbs /\ R(0).t = "R"
    BY PcbIs DEF Bits
  <2>2. S("RESYNC", FALSE) \in Pcbs /\ S("RESYNC", FALSE).t = "S"
    BY PcbIs DEF SBlocks
  <2>3. QED
    BY <2>1, <2>2
<1> HIDE DEF f, pcb
<1>7. QED
  BY <1>3, <1>5, <1>6, SamePlaceReady

-----------------------------------------------------------------------------
(* A valid block has come back: ifd_t1_error_free_operation.               *)

LEMMA FlipIs ==
    \A n \in Bits : /\ Flip(n) \in Bits /\ Flip(n) # n
                    /\ \A m \in Bits : m # n => m = Flip(n)
  BY SMT DEF Bits, Flip

LEMMA ResetSamePlace ==
    ASSUME NEW e, Sound(e)
    PROVE  SamePlace(ifd_t1_resync_reset(e), e) /\ ifd_t1_resync_reset(e).rx_blk = e.rx_blk
<1> DEFINE f == ifd_t1_resync_reset(e)
<1>1. e \in Ifds
  BY DEF Sound
<1>2. RETRNS \in Int /\ IFD_T1_MAX_RETRY \in Int
  BY Sizes, SMT DEF RETRNS
<1>3. f \in Ifds
  BY <1>1, <1>2 DEF Ifds, ifd_t1_resync_reset
<1>4. SameTurn(f, e)
  BY <1>1 DEF Ifds, SameTurn, ifd_t1_resync_reset
<1>5. SameBlock(f, e) /\ f.buf = e.buf /\ f.conf_ifsd = e.conf_ifsd /\ f.rx_blk = e.rx_blk
  BY <1>1 DEF Ifds, SameBlock, ifd_t1_resync_reset
<1>6. f.bug = e.bug /\ f.ack_type = e.ack_type /\ f.ack_info = e.ack_info
  BY <1>1 DEF Ifds, ifd_t1_resync_reset
<1> HIDE DEF f
<1>7. Sound(f)
  BY <1>3, <1>5, <1>6 DEF Sound
<1>8. QED
  BY <1>4, <1>5, <1>7 DEF SamePlace, f

(* f is e after its I-block has been acknowledged.                         *)
Advanced(f, e) ==
    /\ Sound(f) /\ SameBlock(f, e) /\ f.buf = e.buf /\ f.conf_ifsd = e.conf_ifsd
    /\ f.rx_blk = e.rx_blk /\ f.nr = e.nr /\ f.rx_cmpl = e.rx_cmpl /\ f.rx = e.rx
    /\ f.ns = Flip(e.ns) /\ f.tx = e.tx + e.ack_ifsc
    /\ f.tx_cmpl = (e.tx + e.ack_ifsc = e.nc)

(* ifd_t1_acked_iblock: an acknowledged piece is counted, and never more   *)
(* than the command has.                                                   *)
LEMMA AckedAdvances ==
    ASSUME NEW e, Sound(e), ~e.tx_cmpl, e.tx + e.ack_ifsc <= e.nc
    PROVE  Advanced(ifd_t1_acked_iblock(e), e)
<1> DEFINE tx == e.tx + e.ack_ifsc
           cmpl == tx = e.nc
           ns == Flip(e.ns)
           f == [e EXCEPT !.ns = ns, !.tx = tx, !.tx_cmpl = cmpl]
<1>1. /\ e \in Ifds /\ ~e.bug /\ e.ns \in Bits
      /\ e.tx \in Nat /\ e.ack_ifsc \in Nat /\ e.nc \in Nat
  BY SoundIs
<1>2. tx \in Nat /\ ~(tx > e.nc)
  BY <1>1, SMT
<1>3. ns \in Bits /\ cmpl \in BOOLEAN
  BY <1>1, FlipIs
<1>4. ifd_t1_acked_iblock(e) = Bug(f, tx > e.nc)
  BY <1>1 DEF ifd_t1_acked_iblock, Ifds
<1> HIDE DEF tx, cmpl, ns
<1>5. f \in Ifds
  BY <1>1, <1>2, <1>3 DEF Ifds
<1>6. SameBlock(f, e) /\ f.buf = e.buf /\ f.conf_ifsd = e.conf_ifsd /\ f.rx_blk = e.rx_blk
  BY <1>1 DEF Ifds, SameBlock
<1>7. /\ f.nr = e.nr /\ f.rx_cmpl = e.rx_cmpl /\ f.rx = e.rx
      /\ f.ns = ns /\ f.tx = tx /\ f.tx_cmpl = cmpl
  BY <1>1 DEF Ifds
<1>8. f.bug = e.bug /\ f.ack_type = e.ack_type /\ f.ack_info = e.ack_info
  BY <1>1 DEF Ifds
<1> HIDE DEF f
<1>9. Sound(f)
  BY <1>5, <1>6, <1>8 DEF Sound
<1>10. ifd_t1_acked_iblock(e) = f
  BY <1>1, <1>2, <1>4, <1>5, <1>8, NoBugStep
<1>11. QED
  BY <1>6, <1>7, <1>9, <1>10 DEF Advanced, tx, cmpl, ns

LEMMA ResetAdvances ==
    ASSUME NEW e, Sound(e), ~e.tx_cmpl, e.tx + e.ack_ifsc <= e.nc
    PROVE  Advanced(ifd_t1_acked_iblock(ifd_t1_resync_reset(e)), e)
<1> DEFINE d == ifd_t1_resync_reset(e)
           f == ifd_t1_acked_iblock(d)
<1>1. SamePlace(d, e) /\ d.rx_blk = e.rx_blk
  BY ResetSamePlace
<1> HIDE DEF d
<1>2. /\ Sound(d) /\ SameTurn(d, e) /\ SameBlock(d, e) /\ d.buf = e.buf /\ d.conf_ifsd = e.conf_ifsd
      /\ d.tx = e.tx /\ d.ack_ifsc = e.ack_ifsc /\ d.nc = e.nc /\ d.tx_cmpl = e.tx_cmpl
      /\ d.ns = e.ns /\ d.nr = e.nr /\ d.rx = e.rx /\ d.rx_cmpl = e.rx_cmpl
  BY <1>1 DEF SamePlace, SameTurn
<1>3. Advanced(f, d)
  <2>1. ~d.tx_cmpl /\ d.tx + d.ack_ifsc <= d.nc
    BY <1>2
  <2>2. QED
    BY <1>2, <2>1, AckedAdvances
<1> HIDE DEF f
<1>4. SameBlock(f, e)
  BY <1>2, <1>3 DEF Advanced, SameBlock
<1>5. QED
  BY <1>1, <1>2, <1>3, <1>4 DEF Advanced, d, f

(* The acknowledgement moves the exchange on to the next piece, or to the  *)
(* response.                                                               *)
LEMMA ArrivedAdvances ==
    ASSUME NEW e, Sound(e), NEW c \in Cards, Agreed(e, c), Arrived(e, c), c.req = "none",
           NEW f, Advanced(f, e)
    PROVE  /\ Agreed(f, c) /\ ~Arrived(f, c)
           /\ f.tx < f.nc => Waiting(f, c)
           /\ ~(f.tx < f.nc) => Complete(f, c) /\ f.tx = f.nc /\ c.ns = f.nr
<1>1. /\ Sound(f) /\ f.nc = e.nc /\ f.ns = Flip(e.ns) /\ f.nr = e.nr /\ f.rx = e.rx
      /\ f.tx = e.tx + e.ack_ifsc /\ f.tx_cmpl = (e.tx + e.ack_ifsc = e.nc) /\ f.rx_cmpl = e.rx_cmpl
  BY DEF Advanced, SameBlock
<1>2. /\ e.tx + e.ack_ifsc <= e.nc /\ e.rx = 0 /\ c.nr # e.ns /\ c.ns = e.nr
      /\ c.got = Command(e.tx + e.ack_ifsc)
      /\ IF e.tx + e.ack_ifsc < e.nc THEN c.last = "R"
         ELSE c.last = "I" /\ c.pos = 0 /\ c.resp \in Responses /\ c.piece <= c.resp
  BY DEF Arrived
<1>3. f.tx \in Nat /\ f.nc \in Nat /\ f.tx <= f.nc
  BY <1>1, <1>2, SoundIs
<1>4. c.nr \in Bits /\ c.pos \in Nat /\ c.piece \in Nat
  BY DEF Cards
<1>5. c.nr = f.ns
  BY <1>1, <1>2, <1>4, SoundIs, FlipIs
<1>6. ~Arrived(f, c)
  BY <1>5 DEF Arrived
<1>7. CASE f.tx < f.nc
  <2>1. f.tx # f.nc
    BY <1>3, <1>7, SMT
  <2>2. ~f.tx_cmpl
    BY <1>1, <2>1
  <2>3. Waiting(f, c)
    BY <1>1, <1>2, <1>5, <1>7, <2>2 DEF Waiting, Settled
  <2>4. QED
    BY <1>1, <1>6, <1>7, <2>3 DEF Agreed
<1>8. CASE ~(f.tx < f.nc)
  <2>1. f.tx = f.nc
    BY <1>3, <1>8, SMT
  <2>2. c.last = "I" /\ c.pos = 0 /\ c.resp \in Responses /\ c.piece <= c.resp
    BY <1>1, <1>2, <1>8
  <2>3. c.pos + c.piece <= c.resp /\ f.rx < c.resp
    <3>1. c.resp \in 1 .. IFD_BUF_SIZE
      BY <2>2, LengthsAssumption
    <3>2. c.resp \in Nat /\ 0 < c.resp
      BY <3>1, Sizes, SMT
    <3>3. 0 + c.piece = c.piece
      BY <1>4, SMT
    <3>4. QED
      BY <1>1, <1>2, <2>2, <3>2, <3>3
  <2>4. f.tx_cmpl /\ c.nr = f.ns /\ c.got = Command(f.nc) /\ c.ns = f.nr /\ f.rx = c.pos
    BY <1>1, <1>2, <1>5, <2>1, <2>2
  <2>5. Complete(f, c)
    BY <2>1, <2>2, <2>3, <2>4 DEF Complete
  <2>6. QED
    BY <1>1, <1>6, <1>8, <2>1, <2>4, <2>5 DEF Agreed
<1>9. QED
  BY <1>7, <1>8

LEMMA FirstPcb == I(0, FALSE) \in Pcbs /\ I(0, FALSE).t = "I"
  BY PcbIs DEF Bits

(* ifd_t1_error_free on an R-block.                                        *)
LEMMA ErrorFreeR ==
    ASSUME Roomy, NEW e, NEW c \in Cards, Out(e, c), NEW b, Incoming(e, c, b),
           b.pcb.t = "R", ~e.tx_cmpl
    PROVE  Ready(ifd_t1_error_free_operation(e, b), c)
<1> DEFINE d == ifd_t1_resync_reset(e)
           f == IF b.pcb.n # e.ns THEN ifd_t1_acked_iblock(d) ELSE d
           g == ifd_t1_restore_buffer(f, e.tx, e.rx)
<1>1. ifd_t1_error_free_operation(e, b) = SetPcb(g, I(0, FALSE))
  BY DEF ifd_t1_error_free_operation, SetPcb
<1>2. Sound(e) /\ Agreed(e, c) /\ (Waiting(e, c) \/ Arrived(e, c))
  BY OutIs DEF Agreed, Complete
<1>3. b.pcb.n = c.nr /\ c.req = "none"
  BY DEF Incoming
<1>4. CASE Waiting(e, c)
  <2>1. ~Arrived(e, c) /\ b.pcb.n = e.ns
    BY <1>3, <1>4 DEF Waiting, Arrived
  <2>2. f = d
    BY <2>1
  <2>3. SamePlace(d, e)
    BY <1>2, ResetSamePlace
  <2> HIDE DEF d, f
  <2>4. Ready(SetPcb(g, I(0, FALSE)), c)
    BY <2>1, <2>2, <2>3, FirstPcb, SamePlaceReady
  <2>5. QED
    BY <1>1, <2>4
<1>5. CASE Arrived(e, c)
  <2>1. b.pcb.n # e.ns /\ e.tx + e.ack_ifsc <= e.nc /\ e.tx < e.nc
    BY <1>3, <1>5 DEF Arrived
  <2>2. Advanced(f, e)
    BY <1>2, <2>1, ResetAdvances
  <2> HIDE DEF f, d
  <2>3. /\ Agreed(f, c) /\ ~Arrived(f, c)
        /\ f.tx < f.nc => Waiting(f, c)
        /\ ~(f.tx < f.nc) => Complete(f, c) /\ f.tx = f.nc
    BY <1>2, <1>3, <1>5, <2>2, ArrivedAdvances
  <2>4. /\ Sound(f) /\ SameBlock(f, e) /\ f.buf = e.buf /\ f.conf_ifsd = e.conf_ifsd
        /\ f.nc = e.nc /\ f.tx = e.tx + e.ack_ifsc /\ f.rx = e.rx /\ f.ifsd = e.ifsd
    BY <2>2 DEF Advanced, SameBlock
  <2>5. ParkedTx(e) /\ e.rx = 0 /\ e.ifsd = 1 /\ e.conf_ifsd = 1
    BY <2>1, OutIs
  <2>6. 1 <= 1
    BY SMT
  <2>7. CASE f.tx < f.nc
    <3>1. Restored(g, f) /\ CommandAt(g.buf, e.tx, e.tx, e.nc - e.tx)
      BY <1>2, <2>1, <2>4, <2>5, <2>7, RestoreTx
    <3> HIDE DEF g
    <3>2. Sound(g) /\ SameTurn(g, f) /\ g.ifsd = 1 /\ g.conf_ifsd = 1 /\ g.tx = f.tx /\ g.nc = e.nc
      BY <2>4, <2>5, <3>1 DEF Restored, Kept, SameTurn
    <3>3. CommandAt(g.buf, g.tx, g.tx, g.nc - g.tx)
      <4> DEFINE at == e.tx
                 to == g.tx
                 nc == e.nc
                 w == g.buf
      <4>1. at \in Nat /\ to \in Nat /\ nc \in Nat /\ g.nc = nc /\ CommandAt(w, at, at, nc - at)
        BY <1>2, <3>1, <3>2, SoundIs
      <4>2. to >= at
        <5>1. e.ack_ifsc \in Nat /\ to = at + e.ack_ifsc
          BY <1>2, <2>4, <3>2, SoundIs
        <5> HIDE DEF at, to
        <5>2. QED
          BY <4>1, <5>1, SMT
      <4> HIDE DEF at, to, nc, w
      <4>3. ASSUME NEW i \in 1 .. nc, i > to PROVE w[i] = i
        <5>1. i > at
          BY <4>1, <4>2, <4>3, SMT
        <5>2. QED
          BY <4>1, <5>1, InPlaceIs
      <4>4. CommandAt(w, to, to, nc - to)
        BY <4>1, <4>3, InPlaceIs
      <4>5. QED
        BY <4>1, <4>4 DEF to, w
    <3>4. Agreed(g, c) /\ ~Arrived(g, c)
      BY <2>3, <3>2, TurnAgrees
    <3>5. InPlace(g)
      BY <2>4, <2>7, <3>2, <3>3 DEF InPlace
    <3>6. Ready(SetPcb(g, I(0, FALSE)), c)
      BY <2>6, <3>2, <3>4, <3>5, FirstPcb, InPlaceReady
    <3>7. QED
      BY <1>1, <3>6
  <2>8. CASE ~(f.tx < f.nc)
    <3>1. g = f
      BY <2>3, <2>4, <2>5, <2>8, RestoreTurn
    <3>2. InPlace(f)
      <4>1. \A i \in 1 .. 0 : FALSE
        BY SMT
      <4>2. QED
        BY <2>4, <2>5, <2>8, <4>1 DEF InPlace, ResponseAt
    <3>3. Ready(SetPcb(f, I(0, FALSE)), c)
      BY <2>3, <2>4, <2>8, <3>2, FirstPcb, InPlaceReady
    <3>4. QED
      BY <1>1, <3>1, <3>3
  <2>9. QED
    BY <2>7, <2>8
<1>6. QED
  BY <1>2, <1>4, <1>5

(* ifd_t1_error_free on a request of the card.                             *)
LEMMA ErrorFreeRequest ==
    ASSUME Roomy, NEW e, NEW c \in Cards, c.req = "IFS" => c.info \in CardIfs,
           Out(e, c), NEW b, Incoming(e, c, b), b.pcb.t = "S", ~b.pcb.r
    PROVE  Ready(ifd_t1_error_free_operation(e, b), c)
<1> DEFINE d == ifd_t1_resync_reset(e)
           info == IF b.inf = <<>> THEN 0 ELSE b.inf[1]
           v == IF b.pcb.s = "IFS" THEN info ELSE d.conf_ifsc
           f == [d EXCEPT !.ack_type = b.pcb.s, !.ack_info = info, !.conf_ifsc = v]
           g == ifd_t1_restore_buffer(f, e.tx, e.rx)
<1>1. Sound(e) /\ SamePlace(d, e)
  BY OutIs, ResetSamePlace
<1>2. Sound(d) /\ d \in Ifds /\ d.conf_ifsc \in CardIfs
  BY <1>1, SoundIs DEF SamePlace
<1>3. b \in Blocks /\ b.pcb.s = c.req /\ b.inf = <<c.info>>
  BY DEF Incoming
<1>4. b.pcb \in Pcbs /\ b.pcb.s \in SBlocks /\ c.info \in Nat
  <2>1. b.pcb \in Pcbs
    BY <1>3 DEF Blocks
  <2>2. QED
    BY <2>1, PcbIs DEF Cards
<1>5. info = c.info
  <2>1. <<c.info>> # <<>> /\ <<c.info>>[1] = c.info
    BY SMT
  <2>2. QED
    BY <1>3, <2>1
<1>6. ifd_t1_error_free_operation(e, b) = SetPcb(g, b.pcb)
  <2>1. f = [d EXCEPT !.ack_type = b.pcb.s, !.ack_info = info,
                      !.conf_ifsc = IF b.pcb.s = "IFS" THEN info ELSE @]
    BY <1>2 DEF Ifds
  <2> HIDE DEF f
  <2>2. QED
    BY <2>1 DEF ifd_t1_error_free_operation, SetPcb
<1>7. v \in CardIfs /\ (b.pcb.s = "IFS" => info >= 1)
  <2>1. \A n \in CardIfs : n >= 1
    <3>1. ASSUME NEW n \in CardIfs PROVE n >= 1
      <4>1. n \in 1 .. 254
        BY SizesAssumption
      <4>2. QED
        BY <4>1, SMT
    <3>2. QED
      BY <3>1
  <2>2. QED
    BY <1>2, <1>3, <1>5, <2>1
<1> HIDE DEF d, info, v
<1>8. SamePlace(f, d)
  <2>1. f \in Ifds
    BY <1>2, <1>4, <1>5, <1>7 DEF Ifds
  <2>2. SameTurn(f, d)
    BY <1>2 DEF Ifds, SameTurn
  <2>3. SameBlock(f, d) /\ f.buf = d.buf /\ f.conf_ifsd = d.conf_ifsd
    BY <1>2 DEF Ifds, SameBlock
  <2>4. f.bug = d.bug /\ f.ack_type = b.pcb.s /\ f.ack_info = info
    BY <1>2 DEF Ifds
  <2> HIDE DEF f
  <2>5. Sound(f)
    BY <1>2, <1>7, <2>1, <2>3, <2>4 DEF Sound
  <2>6. QED
    BY <2>2, <2>3, <2>5 DEF SamePlace
<1> HIDE DEF f
<1>9. SamePlace(f, e)
  BY <1>1, <1>8 DEF SamePlace, SameTurn, SameBlock
<1>10. b.pcb.t # "I"
  OBVIOUS
<1>11. Ready(SetPcb(g, b.pcb), c)
  BY <1>4, <1>9, <1>10, SamePlaceReady
<1>12. QED
  BY <1>6, <1>11

(* ifd_t1_error_free on the answer to a request of the reader.             *)
LEMMA ErrorFreeResponse ==
    ASSUME Roomy, NEW e, NEW c, Out(e, c), NEW b, Incoming(e, c, b), b.pcb.t = "S", b.pcb.r,
           e.pcb.t = "S", ~e.pcb.r
    PROVE  Ready(ifd_t1_error_free_operation(e, b), c)
<1> DEFINE d == ifd_t1_resync_reset(e)
           g == ifd_t1_restore_buffer(d, e.tx, e.rx)
<1>1. Sound(e) /\ SamePlace(d, e)
  BY OutIs, ResetSamePlace
<1>2. b.pcb.s = "IFS" /\ ~Arrived(e, c)
  BY DEF Incoming, Out
<1>3. ifd_t1_error_free_operation(e, b) = SetPcb(g, I(0, FALSE))
  BY <1>2 DEF ifd_t1_error_free_operation, SetPcb
<1> HIDE DEF d
<1>4. Ready(SetPcb(g, I(0, FALSE)), c)
  BY <1>1, <1>2, FirstPcb, SamePlaceReady
<1>5. QED
  BY <1>3, <1>4

(* The reader after an I-block of the card.                                *)
Continued(r, c) == IF r.rx_cmpl THEN Done(r, c) ELSE Ready(r, c)

LEMMA PieceIs ==
    ASSUME NEW c \in Cards, c.pos + c.piece <= c.resp
    PROVE  /\ Piece(c) \in Seq(Int) /\ Len(Piece(c)) = c.piece
           /\ \A i \in 1 .. c.piece : Piece(c)[i] = -(c.pos + i)
<1> DEFINE pos == c.pos
           piece == c.piece
           resp == c.resp
           s == Response(resp)
           p == SubSeq(s, pos + 1, pos + piece)
<1>1. pos \in Nat /\ piece \in Nat /\ resp \in Nat /\ pos + piece <= resp
  BY DEF Cards
<1>2. Piece(c) = p
  BY DEF Piece
<1> HIDE DEF pos, piece, resp
<1>3. s \in Seq(Int) /\ Len(s) = resp /\ \A i \in 1 .. resp : s[i] = -i
  BY <1>1, SMT DEF Response
<1> HIDE DEF s
<1>5. p \in Seq(Int) /\ Len(p) = piece /\ \A i \in 1 .. piece : p[i] = s[pos + 1 + i - 1]
  <2> DEFINE m == pos + 1
             n == pos + piece
  <2>1. m \in Nat /\ m > 0 /\ n \in Nat /\ n <= Len(s) /\ m <= n + 1 /\ n - m + 1 = piece
    BY <1>1, <1>3, SMT
  <2> HIDE DEF m, n
  <2>2. /\ SubSeq(s, m, n) \in Seq(Int) /\ Len(SubSeq(s, m, n)) = n - m + 1
        /\ \A i \in 1 .. n - m + 1 : SubSeq(s, m, n)[i] = s[m + i - 1]
    BY <1>3, <2>1, CutIs
  <2>3. QED
    BY <2>1, <2>2 DEF m, n
<1>6. ASSUME NEW i \in 1 .. piece PROVE p[i] = -(pos + i)
  <2>1. pos + 1 + i - 1 = pos + i /\ pos + i \in 1 .. resp
    BY <1>1, SMT
  <2>2. QED
    BY <1>3, <1>5, <2>1
<1>7. QED
  BY <1>2, <1>5, <1>6 DEF pos, piece

(* f is e after the I-block of the card has been taken.                    *)
Taken(f, e, len, cmpl) ==
    /\ Sound(f) /\ SameBlock(f, e) /\ f.conf_ifsd = e.conf_ifsd
    /\ f.ns = e.ns /\ f.tx_cmpl = e.tx_cmpl /\ f.tx = e.tx
    /\ f.nr = Flip(e.nr) /\ f.rx = e.rx + len /\ f.rx_cmpl = cmpl
    /\ Prefix(f.buf, e.buf, e.rx) /\ (Lawful => Moved(f.buf, e.buf, e.rx, e.rx_blk + 3, len))

(* A piece of the response is taken once.                                  *)
LEMMA AckTakes ==
    ASSUME NEW e, Sound(e), ~e.rx_cmpl, NEW len \in Nat, NEW cmpl \in BOOLEAN,
           e.rx <= IFD_BUF_SIZE, e.rx_blk + 3 <= IFD_BUF_SIZE,
           Lawful => e.rx + len <= IFD_BUF_SIZE /\ e.rx_blk + 3 + len <= IFD_BUF_SIZE
    PROVE  Taken(ifd_t1_ack_iblock(e, len, cmpl), e, len, cmpl)
<1> DEFINE rx == e.rx + len
           nr == Flip(e.nr)
           w == ifd_xchg_move(e.buf, e.rx, e.rx_blk + 3, len)
           done == e.rx_cmpl \/ cmpl
           f == [e EXCEPT !.nr = nr, !.rx = rx, !.rx_cmpl = done, !.buf = w]
<1>1. /\ e \in Ifds /\ e.nr \in Bits /\ e.rx \in Nat /\ e.rx_blk \in Nat
      /\ e.buf \in Seq(Int) /\ Len(e.buf) = IFD_BUF_SIZE
  BY SoundIs
<1>2. rx \in Nat /\ e.rx_blk + 3 \in Nat
  <2>1. \A a, b \in Nat : a + b \in Nat /\ a + 3 \in Nat
    BY SMT
  <2>2. QED
    BY <1>1, <2>1
<1>3. nr \in Bits /\ done = cmpl
  BY <1>1, FlipIs
<1>4. Prefix(w, e.buf, e.rx) /\ (Lawful => Moved(w, e.buf, e.rx, e.rx_blk + 3, len))
  BY <1>1, <1>2, MoveIs, MoveKeeps
<1>5. ifd_t1_ack_iblock(e, len, cmpl) = f
  BY <1>1 DEF ifd_t1_ack_iblock, Ifds
<1>6. w \in Seq(Int) /\ Len(w) = IFD_BUF_SIZE
  BY <1>1, <1>4 DEF Prefix
<1> HIDE DEF rx, nr, w, done
<1>7. f \in Ifds
  BY <1>1, <1>2, <1>3, <1>6 DEF Ifds
<1>8. /\ f.conf_ifsd = e.conf_ifsd /\ f.ns = e.ns /\ f.tx_cmpl = e.tx_cmpl /\ f.tx = e.tx
      /\ f.bug = e.bug /\ f.ack_type = e.ack_type /\ f.ack_info = e.ack_info
  BY <1>1 DEF Ifds
<1>9. SameBlock(f, e) /\ f.nr = nr /\ f.rx = rx /\ f.rx_cmpl = done /\ f.buf = w
  BY <1>1 DEF Ifds, SameBlock
<1> HIDE DEF f
<1>10. Sound(f)
  BY <1>6, <1>7, <1>8, <1>9 DEF Sound
<1>11. QED
  BY <1>3, <1>4, <1>5, <1>8, <1>9, <1>10 DEF Taken, rx, nr

(* a is e when the card's I-block, which also acknowledges the last piece  *)
(* of the command, is about to be taken.                                   *)
Responding(a, e, c) ==
    /\ Sound(a) /\ Complete(a, c) /\ c.ns = a.nr /\ ~a.rx_cmpl /\ a.nc \in Commands
    /\ SameBlock(a, e) /\ a.buf = e.buf /\ a.rx = e.rx /\ a.rx_blk = e.rx_blk
    /\ a.conf_ifsd = e.conf_ifsd

(* The first I-block of the response acknowledges the end of the command.  *)
LEMMA ResponseStarts ==
    ASSUME NEW e, NEW c \in Cards, Out(e, c), NEW b, Incoming(e, c, b), b.pcb.t = "I"
    PROVE  Responding(ifd_t1_acked_iblock(ifd_t1_resync_reset(e)), e, c)
<1> DEFINE d == ifd_t1_resync_reset(e)
           a == ifd_t1_acked_iblock(d)
<1>1. Sound(e) /\ Agreed(e, c) /\ ~e.rx_cmpl /\ e.nc \in Commands
  BY OutIs DEF Agreed
<1>2. c.last = "I" /\ c.req = "none" /\ c.ns = e.nr /\ (Arrived(e, c) \/ Complete(e, c))
  BY <1>1 DEF Incoming, Agreed
<1>3. CASE Arrived(e, c)
  <2>1. ~e.tx_cmpl /\ e.tx + e.ack_ifsc <= e.nc /\ ~(e.tx + e.ack_ifsc < e.nc)
    BY <1>2, <1>3 DEF Arrived
  <2>2. Advanced(a, e)
    BY <1>1, <2>1, ResetAdvances
  <2> HIDE DEF a, d
  <2>3. a.tx = e.tx + e.ack_ifsc /\ a.nc = e.nc
    BY <2>2 DEF Advanced, SameBlock
  <2>4. Complete(a, c) /\ c.ns = a.nr
    BY <1>1, <1>2, <1>3, <2>1, <2>2, <2>3, ArrivedAdvances
  <2>5. Responding(a, e, c)
    BY <1>1, <2>2, <2>3, <2>4 DEF Responding, Advanced
  <2>6. QED
    BY <2>5 DEF a, d
<1>4. CASE Complete(e, c)
  <2>1. SamePlace(d, e) /\ d.rx_blk = e.rx_blk
    BY <1>1, ResetSamePlace
  <2>2. d.tx_cmpl = e.tx_cmpl /\ SameTurn(d, e) /\ Sound(d)
    BY <2>1 DEF SamePlace, SameTurn
  <2>3. a = d
    BY <1>4, <2>2 DEF ifd_t1_acked_iblock, Complete
  <2> HIDE DEF a, d
  <2>4. Complete(d, c)
    BY <1>4, <2>2, TurnAgrees
  <2>5. Responding(d, e, c)
    BY <1>1, <1>2, <2>1, <2>2, <2>4 DEF Responding, SamePlace, SameTurn
  <2>6. QED
    BY <2>3, <2>5 DEF a, d
<1>5. QED
  BY <1>2, <1>3, <1>4

InfAt(e, inf) ==
    \A i \in 1 .. Len(inf) : e.rx_blk + 3 + i <= IFD_BUF_SIZE => e.buf[e.rx_blk + 3 + i] = inf[i]

(* Where the bytes of the card's I-block go.                               *)
LEMMA RoomForPiece ==
    ASSUME Roomy, NEW e, NEW c, Out(e, c), NEW len \in Nat, len <= e.ifsd
    PROVE  /\ e.rx + len <= IFD_BUF_SIZE /\ e.rx <= IFD_BUF_SIZE /\ e.rx_blk <= e.rx
           /\ e.rx_blk + 3 <= IFD_BUF_SIZE /\ (Snug => e.rx_blk + 3 + len <= IFD_BUF_SIZE)
<1>1. Sound(e) /\ e.rx \in Nat /\ e.rx_blk \in Nat /\ e.ifsd \in Nat
  BY OutIs, SoundIs
<1>2. 3 + Epilogue + IFD_T1_MAX_IFSD <= IFD_BUF_SIZE
  BY RoomIs
<1>3. CASE e.tx < e.nc
  <2>1. e.rx = 0 /\ e.rx_blk = 0 /\ e.ifsd = 1
    BY <1>3, OutIs
  <2>2. len <= 1
    BY <2>1
  <2>3. 0 + len <= IFD_BUF_SIZE /\ 0 <= IFD_BUF_SIZE /\ 0 <= 0 /\ 0 + 3 <= IFD_BUF_SIZE /\ 0 + 3 + len <= IFD_BUF_SIZE
    BY <1>2, <2>2, Sizes, SMT
  <2>4. QED
    BY <2>1, <2>3
<1>4. CASE ~(e.tx < e.nc)
  <2> DEFINE rx == e.rx
             blk == e.rx_blk
             ifsd == e.ifsd
             saved == Saved(e)
  <2>1. ParkedRx(e)
    BY <1>4, OutIs
  <2>2. RxSizes(e) /\ blk = rx - saved /\ ifsd <= IFD_BUF_SIZE - rx
    BY <2>1 DEF RxSizes, ParkedRx
  <2>3. /\ saved \in Nat /\ (rx - saved) + SafeIndex <= IFD_BUF_SIZE
        /\ Snug => (rx - saved) + (3 + Epilogue + ifsd) <= IFD_BUF_SIZE
    BY <1>1, <2>2, SavedRx
  <2>4. rx \in Nat /\ blk \in Nat /\ ifsd \in Nat /\ len <= ifsd
    BY <1>1
  <2> HIDE DEF rx, blk, ifsd, saved
  <2>5. /\ rx + len <= IFD_BUF_SIZE /\ rx <= IFD_BUF_SIZE /\ blk <= rx
        /\ blk + 3 <= IFD_BUF_SIZE /\ (Snug => blk + 3 + len <= IFD_BUF_SIZE)
    BY <2>2, <2>3, <2>4, Sizes, SMT
  <2>6. QED
    BY <2>5 DEF rx, blk
<1>5. QED
  BY <1>3, <1>4

(* Where the whole block goes.                                             *)
LEMMA RoomForBlock ==
    ASSUME Roomy, Snug, NEW e, NEW c, Out(e, c), NEW len \in Nat, len <= e.ifsd
    PROVE  e.rx_blk + (3 + len + Epilogue) <= IFD_BUF_SIZE
<1>1. Sound(e) /\ e.rx \in Nat /\ e.rx_blk \in Nat /\ e.ifsd \in Nat
  BY OutIs, SoundIs
<1>2. 3 + Epilogue + IFD_T1_MAX_IFSD <= IFD_BUF_SIZE
  BY RoomIs
<1>3. CASE e.tx < e.nc
  <2>1. e.rx_blk = 0 /\ e.ifsd = 1
    BY <1>3, OutIs
  <2>2. len <= 1
    BY <2>1
  <2>3. 0 + (3 + len + Epilogue) <= IFD_BUF_SIZE
    BY <1>2, <2>2, Sizes, SMT
  <2>4. QED
    BY <2>1, <2>3
<1>4. CASE ~(e.tx < e.nc)
  <2> DEFINE blk == e.rx_blk
             ifsd == e.ifsd
  <2>1. ParkedRx(e)
    BY <1>4, OutIs
  <2>2. RxSizes(e) /\ blk = e.rx - Saved(e)
    BY <2>1 DEF RxSizes, ParkedRx
  <2>3. blk + (3 + Epilogue + ifsd) <= IFD_BUF_SIZE
    BY <1>1, <2>2, SavedRx
  <2>4. blk \in Nat /\ ifsd \in Nat /\ len <= ifsd
    BY <1>1
  <2> HIDE DEF blk, ifsd
  <2>5. blk + (3 + len + Epilogue) <= IFD_BUF_SIZE
    BY <2>3, <2>4, Sizes, SMT
  <2>6. QED
    BY <2>5 DEF blk
<1>5. QED
  BY <1>3, <1>4

(* The bytes taken follow those of the response that are there already.    *)
LEMMA TakenInPlace ==
    ASSUME Roomy, NEW e, NEW c, Out(e, c), NEW len \in Nat, len <= e.ifsd,
           NEW f, Sound(f), SameBlock(f, e), f.tx = f.nc,
           Prefix(f.buf, e.buf, e.rx),
           Lawful => /\ Moved(f.buf, e.buf, e.rx, e.rx_blk + 3, len)
                     /\ \A i \in 1 .. len : e.buf[e.rx_blk + 3 + i] = -(e.rx + i)
    PROVE  /\ Restored(ifd_t1_restore_buffer(f, e.tx, e.rx), f)
           /\ ResponseAt(ifd_t1_restore_buffer(f, e.tx, e.rx).buf, 0, 0, e.rx + len)
<1> DEFINE g == ifd_t1_restore_buffer(f, e.tx, e.rx)
           rx == e.rx
           blk == e.rx_blk
           buf == e.buf
           w == f.buf
           v == g.buf
<1>1. Sound(e) /\ rx \in Nat /\ blk \in Nat /\ buf \in Seq(Int) /\ Len(buf) = IFD_BUF_SIZE
  BY OutIs, SoundIs
<1>2. rx + len <= IFD_BUF_SIZE /\ blk <= rx
  BY RoomForPiece
<1>3. /\ Lawful => \A i \in 1 .. len : w[rx + i] = -(rx + i)
      /\ \A i \in 1 .. rx : w[i] = buf[i]
  BY DEF Moved, Prefix
<1>4. /\ Restored(g, f) /\ ResponseAt(v, 0, 0, rx)
      /\ \A i \in 1 .. IFD_BUF_SIZE : i > rx => v[i] = w[i]
  <2>1. CASE e.tx < e.nc
    <3>1. e.rx = 0 /\ e.ifsd = 1 /\ f.ifsd = 1
      BY <2>1, OutIs DEF SameBlock
    <3>2. g = f
      BY <3>1, RestoreTurn
    <3> HIDE DEF g
    <3>3. Kept(f, f)
      BY DEF Kept
    <3>4. \A i \in 1 .. 0 : FALSE
      BY SMT
    <3>5. QED
      BY <3>1, <3>2, <3>3, <3>4 DEF Restored, ResponseAt
  <2>2. CASE ~(e.tx < e.nc)
    <3>1. ParkedRx(e)
      BY <2>2, OutIs
    <3>2. ResponseAt(buf, 0, 0, blk)
      BY <3>1 DEF ParkedRx
    <3> HIDE DEF g, buf, blk, rx, w, v
    <3>3. ASSUME Lawful, NEW i \in 1 .. blk PROVE w[0 + i] = -(0 + i)
      <4>1. 0 + i = i /\ i \in 1 .. rx
        BY <1>1, <1>2, SMT
      <4>2. buf[0 + i] = -(0 + i)
        BY <3>2, <3>3 DEF ResponseAt
      <4>3. QED
        BY <1>3, <4>1, <4>2
    <3>4. ResponseAt(w, 0, 0, blk)
      BY <3>3 DEF ResponseAt
    <3>5. Back(g, f, e.rx)
      BY <1>1, <3>1, <3>4, RestoreRx DEF w, blk, g
    <3>6. QED
      BY <3>5 DEF Back, v, rx, w
  <2>3. QED
    BY <2>1, <2>2
<1> HIDE DEF g, rx, blk, buf, w, v
<1>5. ASSUME Lawful, NEW i \in 1 .. rx + len PROVE v[0 + i] = -(0 + i)
  <2>1. 0 + i = i
    BY <1>1, SMT
  <2>2. CASE i <= rx
    <3>1. i \in 1 .. rx
      BY <1>1, <2>2, SMT
    <3>2. QED
      BY <1>4, <1>5, <3>1 DEF ResponseAt
  <2>3. CASE ~(i <= rx)
    <3> DEFINE k == i - rx
    <3>1. k \in 1 .. len /\ rx + k = i /\ i > rx /\ i \in 1 .. IFD_BUF_SIZE
      BY <1>1, <1>2, <2>3, Sizes, SMT
    <3> HIDE DEF k
    <3>2. w[rx + k] = -(rx + k)
      BY <1>3, <1>5, <3>1
    <3>3. v[i] = w[i]
      BY <1>4, <3>1
    <3>4. QED
      BY <2>1, <3>1, <3>2, <3>3
  <2>4. QED
    BY <2>2, <2>3
<1>6. ResponseAt(v, 0, 0, rx + len)
  BY <1>5 DEF ResponseAt
<1>7. QED
  BY <1>4, <1>6 DEF g, v, rx

(* ifd_t1_error_free on an I-block.                                        *)
LEMMA ErrorFreeI ==
    ASSUME Roomy, NEW e, NEW c \in Cards, Out(e, c), NEW b, Incoming(e, c, b), b.pcb.t = "I",
           Len(b.inf) <= e.ifsd, InfAt(e, b.inf)
    PROVE  Continued(ifd_t1_error_free_operation(e, b), c)
<1> DEFINE a == ifd_t1_acked_iblock(ifd_t1_resync_reset(e))
           len == Len(b.inf)
           cmpl == ~b.pcb.m
           f == ifd_t1_ack_iblock(a, len, cmpl)
           g == ifd_t1_restore_buffer(f, e.tx, e.rx)
           r == SetPcb(g, I(0, FALSE))
<1>1. ifd_t1_error_free_operation(e, b) = r
  BY DEF ifd_t1_error_free_operation, SetPcb
<1>2. /\ b \in Blocks /\ c.last = "I" /\ c.req = "none" /\ c.ns = e.nr
      /\ b.pcb.m = (c.pos + c.piece < c.resp) /\ b.inf = Piece(c)
  BY DEF Incoming
<1>3. Responding(a, e, c)
  BY ResponseStarts
<1> HIDE DEF a
<1>4. /\ Sound(a) /\ ~a.rx_cmpl /\ a.nc \in Commands /\ SameBlock(a, e) /\ a.buf = e.buf
      /\ a.rx = e.rx /\ a.rx_blk = e.rx_blk /\ a.conf_ifsd = e.conf_ifsd
      /\ a.tx_cmpl /\ a.tx = a.nc /\ c.nr = a.ns /\ c.got = Command(a.nc)
      /\ c.resp \in Responses /\ c.pos + c.piece <= c.resp /\ a.rx = c.pos /\ c.ns = a.nr
  BY <1>3 DEF Responding, Complete
<1>5. /\ b.inf \in Seq(Int) /\ len = c.piece
      /\ \A i \in 1 .. len : b.inf[i] = -(e.rx + i)
  <2>1. /\ Piece(c) \in Seq(Int) /\ Len(Piece(c)) = c.piece
        /\ \A i \in 1 .. c.piece : Piece(c)[i] = -(c.pos + i)
    BY <1>4, PieceIs
  <2>2. QED
    BY <1>2, <1>4, <2>1
<1>6. len \in Nat /\ cmpl \in BOOLEAN /\ len <= e.ifsd
  BY <1>5, LenIs
<1> HIDE DEF len, cmpl
<1>7. /\ a.rx + len <= IFD_BUF_SIZE /\ a.rx <= IFD_BUF_SIZE /\ a.rx_blk + 3 <= IFD_BUF_SIZE
      /\ Lawful => a.rx_blk + 3 + len <= IFD_BUF_SIZE
  <2> DEFINE rx == a.rx
             blk == a.rx_blk
             pos == c.pos
             resp == c.resp
  <2>1. /\ rx + len <= IFD_BUF_SIZE /\ rx <= IFD_BUF_SIZE /\ blk <= rx
        /\ blk + 3 <= IFD_BUF_SIZE /\ (Snug => blk + 3 + len <= IFD_BUF_SIZE)
    BY <1>4, <1>6, RoomForPiece
  <2>2. rx \in Nat /\ blk \in Nat /\ resp \in Nat /\ rx + len <= resp
    <3>1. rx = pos /\ len = c.piece /\ pos + c.piece <= resp
      BY <1>4, <1>5
    <3>2. QED
      BY <1>4, <3>1, SoundIs DEF Cards
  <2>3. Lawful => Snug \/ resp + 3 <= IFD_BUF_SIZE
    BY <1>4 DEF Lawful
  <2> HIDE DEF rx, blk, pos, resp
  <2>4. Lawful => blk + 3 + len <= IFD_BUF_SIZE
    BY <1>6, <2>1, <2>2, <2>3, Sizes, SMT
  <2>5. QED
    BY <2>1, <2>4 DEF rx, blk
<1>8. Taken(f, a, len, cmpl)
  BY <1>4, <1>6, <1>7, AckTakes
<1> HIDE DEF f
<1>9. /\ Sound(f) /\ SameBlock(f, e) /\ f.conf_ifsd = e.conf_ifsd /\ f.ns = a.ns /\ f.tx_cmpl
      /\ f.tx = f.nc /\ f.nc = a.nc /\ f.nr = Flip(a.nr) /\ f.rx = c.pos + c.piece /\ f.rx = e.rx + len
      /\ f.rx_cmpl = cmpl
      /\ Prefix(f.buf, e.buf, e.rx) /\ (Lawful => Moved(f.buf, e.buf, e.rx, e.rx_blk + 3, len))
  BY <1>4, <1>5, <1>8 DEF Taken, SameBlock
<1>10. Lawful => \A i \in 1 .. len : e.buf[e.rx_blk + 3 + i] = -(e.rx + i)
  <2>1. ASSUME Lawful, NEW i \in 1 .. len PROVE e.rx_blk + 3 + i <= IFD_BUF_SIZE
    <3> DEFINE blk == e.rx_blk
    <3>1. blk \in Nat /\ blk + 3 + len <= IFD_BUF_SIZE
      BY <1>4, <1>7, <2>1, SoundIs
    <3> HIDE DEF blk
    <3>2. blk + 3 + i <= IFD_BUF_SIZE
      BY <1>6, <3>1, Sizes, SMT
    <3>3. QED
      BY <3>2 DEF blk
  <2>2. QED
    BY <1>5, <2>1 DEF InfAt, len
<1>11. Restored(g, f) /\ ResponseAt(g.buf, 0, 0, e.rx + len)
  BY <1>6, <1>9, <1>10, TakenInPlace
<1> HIDE DEF g
<1>12. /\ Sound(g) /\ SameTurn(g, f) /\ g.ns = a.ns /\ g.nr = Flip(a.nr) /\ g.tx_cmpl /\ g.tx = g.nc
       /\ g.nc = a.nc /\ g.rx = c.pos + c.piece /\ g.rx_cmpl = cmpl
       /\ ResponseAt(g.buf, 0, 0, g.rx)
  <2>1. Sound(g) /\ Kept(g, f)
    BY <1>11 DEF Restored
  <2>2. /\ SameTurn(g, f) /\ g.ns = f.ns /\ g.nr = f.nr /\ g.tx_cmpl = f.tx_cmpl /\ g.tx = f.tx
        /\ g.nc = f.nc /\ g.rx = f.rx /\ g.rx_cmpl = f.rx_cmpl
    BY <2>1 DEF Kept, SameTurn
  <2>3. QED
    BY <1>9, <1>11, <2>1, <2>2
<1>13. c.ns # g.nr
  <2>1. a.nr \in Bits
    BY <1>4, SoundIs
  <2>2. Flip(a.nr) # a.nr
    BY <2>1, FlipIs
  <2>3. QED
    BY <1>4, <1>12, <2>2
<1>14. c.pos \in Nat /\ c.piece \in Nat /\ c.resp \in Nat
  BY DEF Cards
<1>15. CASE b.pcb.m
  <2>1. ~cmpl /\ c.pos + c.piece < c.resp
    BY <1>2, <1>15 DEF cmpl
  <2>2. Complete(g, c)
    BY <1>2, <1>4, <1>12, <1>13, <2>1 DEF Complete
  <2>3. ~(g.tx < g.nc)
    <3>1. g.nc \in Nat
      BY <1>12, SoundIs
    <3>2. QED
      BY <1>12, <3>1, SMT
  <2>4. Agreed(g, c) /\ ~Arrived(g, c) /\ InPlace(g)
    BY <1>4, <1>12, <2>1, <2>2, <2>3 DEF Agreed, Arrived, InPlace
  <2>5. Ready(r, c)
    BY <1>12, <2>3, <2>4, FirstPcb, InPlaceReady
  <2>6. ~r.rx_cmpl
    BY <2>5 DEF Ready, Agreed
  <2>7. QED
    BY <1>1, <2>5, <2>6 DEF Continued
<1>16. CASE ~b.pcb.m
  <2>1. cmpl /\ c.pos + c.piece = c.resp
    <3>1. ~(c.pos + c.piece < c.resp)
      BY <1>2, <1>16
    <3>2. c.pos + c.piece = c.resp
      BY <1>4, <1>14, <3>1, SMT
    <3>3. QED
      BY <1>16, <3>2 DEF cmpl
  <2>2. PcbOf(r, g, I(0, FALSE))
    BY <1>12, FirstPcb, SetPcbIs
  <2> HIDE DEF r
  <2>3. /\ Sound(r) /\ r.rx_cmpl /\ r.ns = a.ns /\ r.nr = g.nr /\ r.nc = a.nc
        /\ r.rx = c.pos + c.piece /\ r.buf = g.buf /\ r.rx = g.rx
    BY <1>12, <2>1, <2>2 DEF PcbOf, SameTurn
  <2>4. AtRest(r, c)
    BY <1>2, <1>4, <1>13, <2>1, <2>3 DEF AtRest, Settled
  <2>5. Done(r, c)
    BY <1>4, <1>12, <2>1, <2>3, <2>4 DEF Done
  <2>6. QED
    BY <1>1, <2>3, <2>5 DEF Continued
<1>17. QED
  BY <1>15, <1>16

(* A valid block moves the exchange on.                                    *)
LEMMA ErrorFreeContinues ==
    ASSUME Roomy, NEW e, NEW c \in Cards, c.req = "IFS" => c.info \in CardIfs,
           Out(e, c), NEW b, Incoming(e, c, b), Len(b.inf) <= e.ifsd, InfAt(e, b.inf),
           b.pcb.t = "R" => ~e.tx_cmpl,
           b.pcb.t = "S" /\ b.pcb.r => e.pcb.t = "S" /\ ~e.pcb.r
    PROVE  Continued(ifd_t1_error_free_operation(e, b), c)
<1> DEFINE r == ifd_t1_error_free_operation(e, b)
<1>1. b.pcb \in Pcbs
  BY DEF Incoming, Blocks
<1>2. b.pcb.t = "I" \/ b.pcb.t = "R" \/ b.pcb.t = "S"
  BY <1>1, PcbIs
<1>3. CASE b.pcb.t = "I"
  BY <1>3, ErrorFreeI
<1>4. CASE b.pcb.t # "I"
  <2>1. Ready(r, c)
    <3>1. CASE b.pcb.t = "R"
      BY <3>1, ErrorFreeR
    <3>2. CASE b.pcb.t = "S" /\ b.pcb.r
      BY <3>2, ErrorFreeResponse
    <3>3. CASE b.pcb.t = "S" /\ ~b.pcb.r
      BY <3>3, ErrorFreeRequest
    <3>4. QED
      BY <1>2, <1>4, <3>1, <3>2, <3>3
  <2> HIDE DEF r
  <2>2. ~r.rx_cmpl
    BY <2>1 DEF Ready, Agreed
  <2>3. Continued(r, c)
    BY <2>1, <2>2 DEF Continued
  <2>4. QED
    BY <2>3 DEF r
<1>5. QED
  BY <1>3, <1>4

-----------------------------------------------------------------------------
(* The reader's turn.                                                      *)

(* Storing a received block disturbs nothing that is parked.               *)
LEMMA StoredOut ==
    ASSUME Roomy, NEW e, NEW c, Out(e, c),
           NEW bytes \in Seq(Int), Len(bytes) <= 3 + e.ifsd + Epilogue
    PROVE  /\ Out(Stored(e, bytes), c) /\ Kept(Stored(e, bytes), e)
           /\ Stored(e, bytes).rx_blk = e.rx_blk
           /\ Filled(Stored(e, bytes).buf, e.rx_blk, bytes)
<1> DEFINE r == Stored(e, bytes)
<1>1. Sound(e) /\ Agreed(e, c) /\ Parked(e)
  BY DEF Out
<1>2. Landed(r, e, bytes)
  BY <1>1, StoredIs
<1> HIDE DEF r
<1>3. /\ Sound(r) /\ Kept(r, e) /\ Parked(r) /\ r.rx_blk = e.rx_blk
      /\ Filled(r.buf, e.rx_blk, bytes)
  BY <1>2 DEF Landed
<1>4. Agreed(r, c) /\ (Arrived(r, c) <=> Arrived(e, c))
  BY <1>1, <1>3, TurnKept, TurnAgrees
<1>5. r.tx = e.tx /\ r.nc = e.nc /\ r.rx = e.rx /\ r.conf_ifsd = e.conf_ifsd /\ r.pcb = e.pcb
  BY <1>3 DEF Kept
<1>6. r.tx < r.nc => r.conf_ifsd = 1
  BY <1>5 DEF Out
<1>7. r.tx = r.nc => /\ r.conf_ifsd = Lower(IFD_T1_MAX_IFSD, IFD_BUF_SIZE - r.rx)
                     /\ r.pcb.t # "I"
  BY <1>5 DEF Out
<1>8. r.pcb.t = "S" /\ ~r.pcb.r => ~Arrived(r, c)
  BY <1>4, <1>5 DEF Out
<1>9. Out(r, c)
  BY <1>3, <1>4, <1>6, <1>7, <1>8 DEF Out
<1>10. QED
  BY <1>3, <1>9 DEF r

(* What the card has got is the command up to where it is.                 *)
GotPrefix(e, c) == Len(c.got) <= e.nc /\ c.got = Command(Len(c.got))

(* Command(n) is the sequence of its n bytes.                              *)
LEMMA CommandIs ==
    \A n \in Nat : Command(n) \in Seq(Int) /\ Len(Command(n)) = n /\ \A i \in 1 .. n : Command(n)[i] = i
  BY SMT DEF Command

(* Where the two ends agree, the card has a prefix of the command.         *)
LEMMA AgreedPrefix ==
    ASSUME NEW e, Sound(e), NEW c, Agreed(e, c)
    PROVE  GotPrefix(e, c)
<1>1. e.tx \in Nat /\ e.ack_ifsc \in Nat /\ e.nc \in Nat
  BY SoundIs
<1>2. e.tx + e.ack_ifsc \in Nat /\ (e.tx < e.nc => e.tx <= e.nc) /\ e.nc <= e.nc
  BY <1>1, SMT
<1>3. PICK n \in Nat : n <= e.nc /\ c.got = Command(n)
  BY <1>1, <1>2 DEF Agreed, Waiting, Arrived, Complete
<1>4. Len(c.got) = n
  BY <1>3, CommandIs
<1>5. QED
  BY <1>3, <1>4 DEF GotPrefix

(* When the block has gone out the accounts agree.                         *)
LEMMA SentCoherent ==
    ASSUME NEW r, NEW c \in Cards, c.req = "IFS" => c.info \in CardIfs, SentOut(r, c)
    PROVE  Coherent(r, "card", Sent(r), c)
<1>1. Out(r, c) /\ Outgoing(r, c, Sent(r)) /\ Sent(r) \in Blocks
  BY DEF SentOut, Outgoing
<1>2. Sound(r) /\ Agreed(r, c)
  BY <1>1, OutIs
<1>3. GotPrefix(r, c)
  BY <1>2, AgreedPrefix
<1>4. QED
  BY <1>1, <1>2, <1>3 DEF Coherent, GotPrefix

LEMMA NoBlockIs == NoBlock \in Blocks
<1>1. R(0) \in Pcbs
  BY PcbIs DEF Bits
<1>2. <<>> \in Seq(Int)
  BY SMT
<1>3. IsBlock(NoBlock, R(0), <<>>)
  BY <1>1, <1>2, BlockIs DEF NoBlock
<1>4. QED
  BY <1>3 DEF IsBlock

(* A valid block, answered by the next.                                    *)
LEMMA ProceedStep ==
    ASSUME Roomy, card \in Cards, card.req = "IFS" => card.info \in CardIfs,
           NEW e, Continued(e, card), Proceed(e), card' = card
    PROVE  IInv'
<1>1. CASE e.rx_cmpl
  <2>1. ifd' = e /\ phase' = "done" /\ wire' = NoBlock
    BY <1>1 DEF Proceed
  <2>2. Done(e, card)
    BY <1>1 DEF Continued
  <2>3. Sound(e) /\ card.got = Command(e.nc) /\ e.nc \in Nat
    BY <2>2, SoundIs DEF Done, AtRest
  <2>4. Len(card.got) = e.nc /\ e.nc <= e.nc
    <3>1. \A n \in Nat : n <= n
      BY SMT
    <3>2. QED
      BY <2>3, <3>1, CommandIs
  <2>5. Coherent(e, "done", NoBlock, card)
    BY <2>2, <2>3, <2>4, NoBlockIs DEF Coherent
  <2>6. QED
    BY <2>1, <2>5 DEF IInv
<1>2. CASE ~e.rx_cmpl
  <2> DEFINE r == ifd_t1_xchg_aval(e)
  <2>1. ifd' = r /\ wire' = Sent(r) /\ phase' = "card"
    BY <1>2 DEF Proceed, Send
  <2>2. Ready(e, card)
    BY <1>2 DEF Continued
  <2>3. SentOut(r, card)
    BY <2>2, AvalSentOut
  <2> HIDE DEF r
  <2>4. Coherent(r, "card", Sent(r), card)
    BY <2>3, SentCoherent
  <2>5. QED
    BY <2>1, <2>4 DEF IInv
<1>3. QED
  BY <1>1, <1>2

(* The retries are used up.                                                *)
LEMMA FailStep ==
    ASSUME Roomy, card \in Cards, card.req = "IFS" => card.info \in CardIfs,
           NEW e, Out(e, card), Fail(e), card' = card
    PROVE  IInv'
<1>1. CASE e.level = WRESET
  <2>1. ifd' = e /\ phase' = "failed" /\ wire' = NoBlock
    BY <1>1 DEF Fail
  <2>2. Sound(e) /\ GotPrefix(e, card)
    BY OutIs, AgreedPrefix
  <2>3. Coherent(e, "failed", NoBlock, card)
    BY <2>2, NoBlockIs DEF Coherent, GotPrefix
  <2>4. QED
    BY <2>1, <2>3 DEF IInv
<1>2. CASE e.level # WRESET
  <2> DEFINE r == ifd_t1_error_handling(e)
  <2>1. Proceed(r)
    BY <1>2 DEF Fail
  <2>2. Ready(r, card)
    BY ErrorReady
  <2> HIDE DEF r
  <2>3. Continued(r, card)
    BY <2>2 DEF Continued, Ready, Agreed
  <2>4. QED
    BY <2>1, <2>3, ProceedStep
<1>3. QED
  BY <1>1, <1>2

(* Noise in the place of a block disturbs nothing that is parked.          *)
LEMMA FramingOut ==
    ASSUME Roomy, NEW e, NEW c, Out(e, c)
    PROVE  /\ Out(Stored(e, Framing(3)), c)
           /\ Out(Stored(e, Framing(3 + e.ifsd + Epilogue)), c)
<1> DEFINE n == 3 + e.ifsd + Epilogue
<1>1. e.ifsd \in Nat
  BY OutIs, SoundIs
<1>2. 3 \in Nat /\ n \in Nat /\ 3 <= n /\ n <= n
  BY <1>1, Sizes, SMT
<1> HIDE DEF n
<1>3. Framing(3) \in Seq(Int) /\ Len(Framing(3)) <= n /\ Framing(n) \in Seq(Int) /\ Len(Framing(n)) <= n
  BY <1>2, FramingIs
<1>4. QED
  BY <1>3, StoredOut DEF n

(* A block lost or garbled on the way to the reader.                       *)
LEMMA DamagedStep ==
    ASSUME Roomy, IInv, Damaged
    PROVE  IInv'
<1>1. card \in Cards /\ (card.req = "IFS" => card.info \in CardIfs) /\ Out(ifd, card) /\ card' = card
  BY DEF IInv, Coherent, Damaged
<1>2. \/ Fail(ifd)
      \/ Fail(Stored(ifd, Framing(3 + ifd.ifsd + Epilogue)))
  BY DEF Damaged
<1>3. Out(Stored(ifd, Framing(3 + ifd.ifsd + Epilogue)), card)
  BY <1>1, FramingOut
<1>4. QED
  BY <1>1, <1>2, <1>3, FailStep

(* The reader's turn: ifd_t1_xchg_cmpl.                                    *)
LEMMA CmplStep ==
    ASSUME Roomy, IInv, ifd_t1_xchg_cmpl
    PROVE  IInv'
<1> DEFINE b == wire
           e == Stored(ifd, Framed(b.inf))
           fits == Fits(ifd, Len(b.inf))
           valid == ifd_t1_block_valid(ifd, b)
<1>1. /\ card \in Cards /\ (card.req = "IFS" => card.info \in CardIfs) /\ card' = card
      /\ Out(ifd, card) /\ Incoming(ifd, card, b)
  BY DEF IInv, Coherent, ifd_t1_xchg_cmpl
<1>2. CASE ~fits
  <2>1. Fail(Stored(ifd, Framing(3)))
    BY <1>2 DEF ifd_t1_xchg_cmpl
  <2>2. Out(Stored(ifd, Framing(3)), card)
    BY <1>1, FramingOut
  <2>3. QED
    BY <1>1, <2>1, <2>2, FailStep
<1>3. CASE fits
  <2>1. b.inf \in Seq(Int) /\ b.pcb \in Pcbs
    BY <1>1 DEF Incoming, Blocks
  <2>2. /\ Framed(b.inf) \in Seq(Int) /\ Len(b.inf) \in Nat
        /\ Len(Framed(b.inf)) = 3 + Len(b.inf) + Epilogue
        /\ \A i \in 1 .. Len(b.inf) : Framed(b.inf)[3 + i] = b.inf[i]
    BY <2>1, FramedIs
  <2>3. Len(b.inf) <= ifd.ifsd
    BY <1>3 DEF Fits
  <2>4. Len(Framed(b.inf)) <= 3 + ifd.ifsd + Epilogue
    <3> DEFINE len == Len(b.inf)
               ifsd == ifd.ifsd
    <3>1. len \in Nat /\ ifsd \in Nat /\ len <= ifsd
      BY <1>1, <2>2, <2>3, OutIs, SoundIs
    <3> HIDE DEF len, ifsd
    <3>2. 3 + len + Epilogue <= 3 + ifsd + Epilogue
      BY <3>1, Sizes, SMT
    <3>3. QED
      BY <2>2, <3>2 DEF len, ifsd
  <2>5. /\ Out(e, card) /\ Kept(e, ifd) /\ e.rx_blk = ifd.rx_blk
        /\ Filled(e.buf, ifd.rx_blk, Framed(b.inf))
    BY <1>1, <2>2, <2>4, StoredOut
  <2>6. CASE ~valid
    <3>1. Fail(e)
      BY <1>3, <2>6 DEF ifd_t1_xchg_cmpl
    <3>2. QED
      BY <1>1, <2>5, <3>1, FailStep
  <2>7. CASE valid
    <3>1. Proceed(ifd_t1_error_free_operation(e, b))
      BY <1>3, <2>7 DEF ifd_t1_xchg_cmpl
    <3>2. InfAt(e, b.inf)
      <4>1. ASSUME NEW i \in 1 .. Len(b.inf), e.rx_blk + 3 + i <= IFD_BUF_SIZE
            PROVE  e.buf[e.rx_blk + 3 + i] = b.inf[i]
        <5> DEFINE blk == e.rx_blk
        <5>1. blk \in Nat /\ Len(e.buf) = IFD_BUF_SIZE /\ blk + 3 + i <= IFD_BUF_SIZE
          BY <2>5, <4>1, OutIs, SoundIs
        <5> HIDE DEF blk
        <5>2. blk + 3 + i = blk + (3 + i) /\ 3 + i \in 1 .. 3 + Len(b.inf) + Epilogue
          BY <2>2, <5>1, Sizes, SMT
        <5>3. e.buf[blk + (3 + i)] = Framed(b.inf)[3 + i]
          BY <2>2, <2>5, <5>1, <5>2 DEF Filled, blk
        <5>4. QED
          BY <2>2, <5>2, <5>3 DEF blk
      <4> HIDE DEF e, b
      <4>2. QED
        BY <4>1 DEF InfAt
    <3> HIDE DEF e
    <3>3. Incoming(e, card, b)
      <4>1. e.nr = ifd.nr /\ (Waiting(e, card) <=> Waiting(ifd, card))
        BY <2>5, TurnKept, TurnAgrees DEF Kept
      <4> HIDE DEF b
      <4>2. QED
        BY <1>1, <4>1 DEF Incoming
    <3>4. /\ Len(b.inf) <= e.ifsd
          /\ b.pcb.t = "R" => ~e.tx_cmpl
          /\ b.pcb.t = "S" /\ b.pcb.r => e.pcb.t = "S" /\ ~e.pcb.r
      <4>1. e.ifsd = ifd.ifsd /\ e.tx_cmpl = ifd.tx_cmpl /\ e.pcb = ifd.pcb
        BY <2>5 DEF Kept
      <4>2. b.pcb.t = "R" => ~ifd.tx_cmpl
        BY <2>7 DEF ifd_t1_block_valid, ValidR
      <4>3. b.pcb.t = "S" /\ b.pcb.r => ifd.pcb.t = "S" /\ ~ifd.pcb.r
        BY <2>7 DEF ifd_t1_block_valid, ValidS
      <4>4. QED
        BY <2>3, <4>1, <4>2, <4>3
    <3> HIDE DEF b
    <3>5. Continued(ifd_t1_error_free_operation(e, b), card)
      BY <1>1, <2>5, <3>2, <3>3, <3>4, ErrorFreeContinues
    <3>6. QED
      BY <1>1, <3>1, <3>5, ProceedStep
  <2>8. QED
    BY <2>6, <2>7
<1>4. QED
  BY <1>2, <1>3

-----------------------------------------------------------------------------
(* The card's turn: the reader does not move.                              *)

(* The card's turn.                                                        *)
LEMMA CardIs ==
    ASSUME NEW c \in Cards
    PROVE  /\ c.ns \in Bits /\ c.nr \in Bits /\ c.got \in Seq(Int) /\ c.last \in {"I", "R"}
           /\ c.resp \in Nat /\ c.pos \in Nat /\ c.piece \in Nat /\ c.ifsd \in Nat
           /\ c.req \in {"none", "WTX", "IFS"} /\ c.info \in Nat
  BY DEF Cards

LEMMA WaitingNoRequest ==
    ASSUME NEW e, NEW c, Waiting(e, c)
    PROVE  c.req = "none"
  BY DEF Waiting, Settled

LEMMA RequestIncoming ==
    ASSUME NEW e, NEW c \in Cards, c.req # "none"
    PROVE  Incoming(e, c, Answer(c))
<1> DEFINE b == Block(S(c.req, FALSE), <<c.info>>)
<1>1. c.req \in SBlocks /\ c.info \in Nat
  BY CardIs DEF SBlocks
<1>2. S(c.req, FALSE) \in Pcbs /\ S(c.req, FALSE).t = "S" /\ S(c.req, FALSE).s = c.req /\ ~S(c.req, FALSE).r
  BY <1>1, PcbIs
<1>3. <<c.info>> \in Seq(Int)
  <2>1. \A n \in Nat : <<n>> \in Seq(Int)
    BY SMT
  <2>2. QED
    BY <1>1, <2>1
<1>4. IsBlock(b, S(c.req, FALSE), <<c.info>>)
  BY <1>2, <1>3, BlockIs
<1>5. Answer(c) = b
  BY DEF Answer
<1> HIDE DEF b
<1>6. b \in Blocks /\ b.inf = <<c.info>> /\ b.pcb.t = "S" /\ b.pcb.s = c.req /\ ~b.pcb.r
  BY <1>2, <1>4 DEF IsBlock
<1>7. ~Waiting(e, c)
  BY WaitingNoRequest
<1>8. Incoming(e, c, b)
  BY <1>6, <1>7 DEF Incoming
<1>9. QED
  BY <1>5, <1>8

LEMMA RblockIncoming ==
    ASSUME NEW e, NEW c \in Cards, c.req = "none"
    PROVE  Incoming(e, c, Block(R(c.nr), <<>>))
<1> DEFINE b == Block(R(c.nr), <<>>)
<1>1. R(c.nr) \in Pcbs /\ R(c.nr).t = "R" /\ R(c.nr).n = c.nr
  BY CardIs, PcbIs
<1>2. <<>> \in Seq(Int)
  BY SMT
<1>3. IsBlock(b, R(c.nr), <<>>)
  BY <1>1, <1>2, BlockIs
<1> HIDE DEF b
<1>4. b \in Blocks /\ b.pcb.t = "R" /\ b.pcb.n = c.nr
  BY <1>1, <1>3 DEF IsBlock
<1>5. Incoming(e, c, b)
  BY <1>4 DEF Incoming
<1>6. QED
  BY <1>5 DEF b

LEMMA IblockIncoming ==
    ASSUME NEW e, NEW c \in Cards, c.req = "none", c.last = "I", c.ns = e.nr,
           c.pos + c.piece <= c.resp, ~Waiting(e, c)
    PROVE  Incoming(e, c, Answer(c))
<1> DEFINE m == c.pos + c.piece < c.resp
           b == Block(I(c.ns, m), Piece(c))
<1>1. Answer(c) = b
  BY DEF Answer
<1>2. m \in BOOLEAN /\ c.ns \in Bits
  <2>1. c.pos \in Nat /\ c.piece \in Nat /\ c.resp \in Nat /\ c.ns \in Bits
    BY CardIs
  <2>2. \A i, j, k \in Nat : (i + j < k) \in BOOLEAN
    BY SMT
  <2>3. QED
    BY <2>1, <2>2
<1> HIDE DEF m
<1>3. I(c.ns, m) \in Pcbs /\ I(c.ns, m).t = "I" /\ I(c.ns, m).m = m
  <2>1. \A k \in Bits : \A n \in BOOLEAN : I(k, n) \in Pcbs /\ I(k, n).t = "I" /\ I(k, n).n = k /\ I(k, n).m = n
    BY PcbIs
  <2>2. QED
    BY <1>2, <2>1
<1>4. Piece(c) \in Seq(Int)
  BY PieceIs
<1>5. IsBlock(b, I(c.ns, m), Piece(c))
  BY <1>3, <1>4, BlockIs
<1> HIDE DEF b
<1>6. b \in Blocks /\ b.inf = Piece(c) /\ b.pcb.t = "I" /\ b.pcb.m = (c.pos + c.piece < c.resp)
  BY <1>3, <1>5 DEF IsBlock, m
<1>7. Incoming(e, c, b)
  BY <1>6 DEF Incoming
<1>8. QED
  BY <1>1, <1>7

LEMMA RefuseIncoming ==
    ASSUME NEW e, NEW c \in Cards
    PROVE  Incoming(e, c, Refuse(c))
<1>1. CASE c.req # "none"
  <2>1. Refuse(c) = Answer(c)
    BY <1>1 DEF Refuse
  <2>2. QED
    BY <1>1, <2>1, RequestIncoming
<1>2. CASE c.req = "none"
  <2>1. Refuse(c) = Block(R(c.nr), <<>>)
    BY <1>2 DEF Refuse
  <2>2. QED
    BY <1>2, <2>1, RblockIncoming
<1>3. QED
  BY <1>1, <1>2

(* The card may answer with the block it is at.                            *)
InStep(e, c) ==
    c.last = "I" /\ c.req = "none" => c.ns = e.nr /\ c.pos + c.piece <= c.resp /\ ~Waiting(e, c)

(* Whatever the card answers is a block its state allows.                  *)
LEMMA AnswerIncoming ==
    ASSUME NEW e, NEW c \in Cards, InStep(e, c)
    PROVE  Incoming(e, c, Answer(c))
<1>1. CASE c.req # "none"
  BY <1>1, RequestIncoming
<1>2. CASE c.req = "none" /\ c.last = "I"
  <2>1. c.ns = e.nr /\ c.pos + c.piece <= c.resp /\ ~Waiting(e, c)
    BY <1>2 DEF InStep
  <2>2. QED
    BY <1>2, <2>1, IblockIncoming
<1>3. CASE c.req = "none" /\ c.last # "I"
  <2>1. Answer(c) = Block(R(c.nr), <<>>)
    BY <1>3 DEF Answer
  <2>2. QED
    BY <1>3, <2>1, RblockIncoming
<1>4. QED
  BY <1>1, <1>2, <1>3

(* A state the card may be in while the reader waits.                      *)
Follows(e, c) ==
    /\ c \in Cards /\ Agreed(e, c) /\ (c.req = "IFS" => c.info \in CardIfs)
    /\ e.pcb.t = "S" /\ ~e.pcb.r => ~Arrived(e, c)

(* The card's turn keeps the accounts in agreement if its new state        *)
(* follows from what was agreed.                                           *)
LEMMA TurnCoherent ==
    ASSUME IInv, phase = "card", NEW c, Follows(ifd, c), NEW b, Incoming(ifd, c, b)
    PROVE  Coherent(ifd, "ifd", b, c)
<1>1. Out(ifd, card) /\ Sound(ifd)
  BY DEF IInv, Coherent
<1>2. Out(ifd, c)
  BY <1>1 DEF Out, Follows
<1>3. GotPrefix(ifd, c)
  BY <1>1, AgreedPrefix DEF Follows
<1>4. b \in Blocks
  BY DEF Incoming
<1>5. QED
  BY <1>1, <1>2, <1>3, <1>4 DEF Coherent, Follows, GotPrefix

LEMMA TurnStep ==
    ASSUME IInv, phase = "card", NEW c, Follows(ifd, c), NEW b, Incoming(ifd, c, b), Turn(c, b)
    PROVE  IInv'
<1>1. ifd' = ifd /\ card' = c /\ wire' = b /\ phase' = "ifd"
  BY DEF Turn
<1>2. Coherent(ifd, "ifd", b, c)
  BY TurnCoherent
<1>3. QED
  BY <1>1, <1>2 DEF IInv

(* The card has moved on, and may first make a request.                    *)
Moving(e, c) ==
    /\ c \in Cards /\ c.req = "none" /\ ~e.rx_cmpl /\ e.nc \in Commands /\ c.ns = e.nr
    /\ Arrived(e, c) \/ Complete(e, c)
    /\ e.pcb.t # "S"

LEMMA MovingAnswers ==
    ASSUME NEW e, NEW c, Moving(e, c)
    PROVE  Follows(e, c) /\ InStep(e, c)
<1>1. ~Waiting(e, c)
  BY DEF Moving, Waiting, Arrived, Complete
<1>2. c.last = "I" => c.pos + c.piece <= c.resp
  <2>1. CASE Complete(e, c)
    BY <2>1 DEF Complete
  <2>2. CASE Arrived(e, c)
    <3>1. c.last = "I" => c.pos = 0 /\ c.piece <= c.resp
      BY <2>2 DEF Arrived
    <3>2. c.piece \in Nat
      BY CardIs DEF Moving
    <3>3. 0 + c.piece = c.piece
      BY <3>2, SMT
    <3>4. QED
      BY <3>1, <3>3
  <2>3. QED
    BY <2>1, <2>2 DEF Moving
<1>3. QED
  BY <1>1, <1>2 DEF Moving, Follows, InStep, Agreed

(* The card answers, or first makes a request.                             *)
LEMMA ReplyStep ==
    ASSUME IInv, phase = "card", NEW c, Moving(ifd, c), Reply(c)
    PROVE  IInv'
<1>1. CASE Turn(c, Answer(c))
  <2>1. Follows(ifd, c) /\ InStep(ifd, c) /\ c \in Cards
    BY MovingAnswers DEF Moving
  <2>2. Incoming(ifd, c, Answer(c))
    BY <2>1, AnswerIncoming
  <2>3. QED
    BY <1>1, <2>1, <2>2, TurnStep
<1>2. ASSUME NEW q \in {<<"WTX", 1>>} \cup {<<"IFS", v>> : v \in CardIfs},
             Turn([c EXCEPT !.req = q[1], !.info = q[2]], Answer([c EXCEPT !.req = q[1], !.info = q[2]]))
      PROVE  IInv'
  <2> DEFINE d == [c EXCEPT !.req = q[1], !.info = q[2]]
  <2>1. /\ q[1] = "WTX" \/ q[1] = "IFS"
        /\ q[2] \in Nat /\ (q[1] = "IFS" => q[2] \in CardIfs)
    <3>1. 1 \in Nat /\ \A v \in CardIfs : v \in Nat
      <4>1. \A v \in 1 .. 254 : v \in Nat
        BY SMT
      <4>2. 1 \in Nat
        BY SMT
      <4>3. QED
        BY <4>1, <4>2, SizesAssumption
    <3>2. QED
      BY <3>1, SMT
  <2>2. c \in Cards
    BY DEF Moving
  <2>3. d \in Cards
    BY <2>1, <2>2 DEF Cards
  <2>4. d.req = q[1] /\ d.info = q[2]
    BY <2>2 DEF Cards
  <2>5. /\ d.ns = c.ns /\ d.nr = c.nr /\ d.got = c.got /\ d.last = c.last
        /\ d.resp = c.resp /\ d.pos = c.pos /\ d.piece = c.piece
    BY <2>2 DEF Cards
  <2>6. Turn(d, Answer(d))
    BY <1>2
  <2> HIDE DEF d
  <2>7. Arrived(ifd, c) => Arrived(ifd, d)
    BY <2>5 DEF Arrived
  <2>8. Complete(ifd, c) => Complete(ifd, d)
    BY <2>5 DEF Complete, Moving
  <2>9. Follows(ifd, d)
    BY <2>1, <2>3, <2>4, <2>7, <2>8 DEF Follows, Moving, Agreed
  <2>10. d.req # "none"
    BY <2>1, <2>4
  <2>11. Incoming(ifd, d, Answer(d))
    BY <2>3, <2>10, RequestIncoming
  <2>12. QED
    BY <2>6, <2>9, <2>11, TurnStep
<1>3. QED
  BY <1>1, <1>2 DEF Reply

(* A piece appended to a prefix of the command makes a longer prefix.      *)
LEMMA Appended ==
    ASSUME NEW tx \in Nat, NEW n \in Nat
    PROVE  Command(tx) \o [i \in 1 .. n |-> tx + i] = Command(tx + n)
  BY SMT DEF Command

Accepted(d, c, inf) ==
    /\ d \in Cards /\ d.got = c.got \o inf /\ d.nr = Flip(c.nr) /\ d.last = "R"
    /\ d.ns = (IF c.last = "I" THEN Flip(c.ns) ELSE c.ns)
    /\ d.req = c.req /\ d.info = c.info /\ d.ifsd = c.ifsd

LEMMA AcceptIs ==
    ASSUME NEW c \in Cards, NEW inf \in Seq(Int)
    PROVE  Accepted(Accept(c, inf), c, inf)
<1> DEFINE got == c.got \o inf
           nr == Flip(c.nr)
           ns == IF c.last = "I" THEN Flip(c.ns) ELSE c.ns
           d == [c EXCEPT !.got = got, !.nr = nr, !.last = "R", !.ns = ns]
<1>1. got \in Seq(Int) /\ nr \in Bits /\ ns \in Bits
  BY CardIs, FlipIs, JoinIs
<1>2. Accept(c, inf) = d
  BY DEF Accept, Cards
<1> HIDE DEF got, nr, ns
<1>3. d \in Cards
  BY <1>1 DEF Cards
<1>4. d.got = got /\ d.nr = nr /\ d.last = "R" /\ d.ns = ns /\ d.req = c.req /\ d.info = c.info /\ d.ifsd = c.ifsd
  BY DEF Cards
<1> HIDE DEF d
<1>5. QED
  BY <1>2, <1>3, <1>4 DEF Accepted, got, nr, ns

LEMMA RespondIs ==
    ASSUME NEW c \in Cards, NEW len \in Responses
    PROVE  /\ Respond(c, len) \in Cards
           /\ Respond(c, len).last = "I" /\ Respond(c, len).resp = len /\ Respond(c, len).pos = 0
           /\ Respond(c, len).piece <= len
           /\ Respond(c, len).ns = c.ns /\ Respond(c, len).nr = c.nr /\ Respond(c, len).got = c.got
           /\ Respond(c, len).req = c.req
<1> DEFINE piece == Lower(c.ifsd, len)
           d == [c EXCEPT !.last = "I", !.resp = len, !.pos = 0, !.piece = piece]
<1>1. len \in 1 .. IFD_BUF_SIZE /\ c.ifsd \in Nat
  BY LengthsAssumption, CardIs
<1>2. piece \in Nat /\ len \in Nat /\ piece <= len /\ 0 \in Nat
  BY <1>1, Sizes, SMT DEF Lower
<1>3. Respond(c, len) = d
  BY DEF Respond
<1> HIDE DEF piece
<1>4. d \in Cards
  BY <1>2 DEF Cards
<1>5. /\ d.last = "I" /\ d.resp = len /\ d.pos = 0 /\ d.piece = piece
      /\ d.ns = c.ns /\ d.nr = c.nr /\ d.got = c.got /\ d.req = c.req
  BY DEF Cards
<1> HIDE DEF d
<1>6. QED
  BY <1>2, <1>3, <1>4, <1>5

(* The card gets an I-block: a new piece, or one it has had.               *)
LEMMA CardIStep ==
    ASSUME IInv, CardI
    PROVE  IInv'
<1> DEFINE n == ifd.ack_ifsc
           inf == [i \in 1 .. n |-> ifd.tx + i]
           d == Accept(card, wire.inf)
<1>1. /\ phase = "card" /\ wire.pcb.t = "I" /\ card \in Cards /\ Sound(ifd) /\ Out(ifd, card)
      /\ Outgoing(ifd, card, wire)
  BY DEF IInv, Coherent, CardI
<1>2. /\ wire.pcb = ifd.pcb /\ wire \in Blocks /\ wire.inf = inf
      /\ Waiting(ifd, card) /\ ifd.pcb.n = ifd.ns /\ n > 0 /\ ifd.tx + n <= ifd.nc
      /\ ifd.pcb.m = (ifd.nc > ifd.tx + n)
  BY <1>1 DEF Outgoing
<1>3. /\ ~ifd.tx_cmpl /\ ifd.tx < ifd.nc /\ ifd.rx = 0 /\ card.nr = ifd.ns
      /\ card.got = Command(ifd.tx) /\ card.req = "none"
      /\ \/ card.last = "R" /\ card.ns = ifd.nr
         \/ card.last = "I" /\ card.ns # ifd.nr
  BY <1>2 DEF Waiting, Settled
<1>4. ifd.tx \in Nat /\ ifd.nc \in Nat /\ n \in Nat /\ ifd.nr \in Bits /\ ifd.ns \in Bits
  BY <1>1, SoundIs
<1>5. Expected(wire)
  BY <1>1, <1>2, <1>3 DEF Expected
<1>6. Accepted(d, card, wire.inf)
  <2>1. wire.inf \in Seq(Int)
    BY <1>2 DEF Blocks
  <2>2. QED
    BY <1>1, <2>1, AcceptIs
<1>7. Command(ifd.tx) \o inf = Command(ifd.tx + n)
  BY <1>4, Appended
<1> HIDE DEF d, inf, n
<1>8. /\ d \in Cards /\ d.nr # ifd.ns /\ d.ns = ifd.nr /\ d.last = "R" /\ d.req = "none"
      /\ d.got = Command(ifd.tx + n)
  <2>1. d.nr # ifd.ns
    BY <1>3, <1>4, <1>6, FlipIs DEF Accepted
  <2>2. d.ns = ifd.nr
    <3>1. CASE card.last = "R"
      BY <1>3, <1>6, <3>1 DEF Accepted
    <3>2. CASE card.last = "I" /\ card.ns # ifd.nr
      <4>1. d.ns = Flip(card.ns) /\ card.ns \in Bits
        BY <1>1, <1>6, <3>2, CardIs DEF Accepted
      <4>2. QED
        BY <1>4, <3>2, <4>1, FlipIs
    <3>3. QED
      BY <1>3, <3>1, <3>2
  <2>3. QED
    BY <1>2, <1>3, <1>6, <1>7, <2>1, <2>2 DEF Accepted
<1>9. ~ifd.rx_cmpl /\ ifd.nc \in Commands /\ ifd.pcb.t # "S"
  BY <1>1, <1>2 DEF Out, Agreed
<1>10. CASE wire.pcb.m
  <2>1. Reply(d)
    BY <1>1, <1>5, <1>10 DEF CardI, d
  <2>2. ifd.nc > ifd.tx + n
    BY <1>2, <1>10
  <2>3. ifd.tx + n < ifd.nc
    BY <1>4, <2>2, SMT
  <2>4. Arrived(ifd, d)
    BY <1>2, <1>3, <1>8, <2>3 DEF Arrived, n
  <2>5. Moving(ifd, d)
    BY <1>8, <1>9, <2>4 DEF Moving
  <2>6. QED
    BY <1>1, <2>1, <2>5, ReplyStep
<1>11. CASE ~wire.pcb.m
  <2>1. PICK len \in Responses : Reply(Respond(d, len))
    BY <1>1, <1>5, <1>11 DEF CardI, d
  <2> DEFINE f == Respond(d, len)
  <2>2. /\ f \in Cards /\ f.last = "I" /\ f.resp = len /\ f.pos = 0 /\ f.piece <= len
        /\ f.ns = d.ns /\ f.nr = d.nr /\ f.got = d.got /\ f.req = d.req
    BY <1>8, RespondIs
  <2>3. ~(ifd.nc > ifd.tx + n)
    BY <1>2, <1>11
  <2>4. ~(ifd.tx + n < ifd.nc)
    BY <1>4, <2>3, SMT
  <2> HIDE DEF f
  <2>5. Arrived(ifd, f)
    BY <1>2, <1>3, <1>8, <2>2, <2>4 DEF Arrived, n
  <2>6. Moving(ifd, f)
    BY <1>8, <1>9, <2>2, <2>5 DEF Moving
  <2>7. QED
    BY <1>1, <2>1, <2>6, ReplyStep DEF f
<1>12. QED
  BY <1>10, <1>11

LEMMA ContinueIs ==
    ASSUME NEW c \in Cards, c.pos + c.piece < c.resp
    PROVE  /\ Continue(c) \in Cards
           /\ Continue(c).ns = Flip(c.ns) /\ Continue(c).nr = c.nr /\ Continue(c).got = c.got
           /\ Continue(c).last = c.last /\ Continue(c).resp = c.resp /\ Continue(c).req = c.req
           /\ Continue(c).pos = c.pos + c.piece
           /\ Continue(c).pos + Continue(c).piece <= c.resp
<1> DEFINE ns == Flip(c.ns)
           pos == c.pos + c.piece
           piece == Lower(c.ifsd, c.resp - c.pos - c.piece)
           d == [c EXCEPT !.ns = ns, !.pos = pos, !.piece = piece]
<1>1. c.ifsd \in Nat /\ c.resp \in Nat /\ c.pos \in Nat /\ c.piece \in Nat /\ c.ns \in Bits
  BY CardIs
<1>2. pos \in Nat /\ piece \in Nat /\ pos + piece <= c.resp
  <2> DEFINE i == c.ifsd
             r == c.resp
             p == c.pos
             q == c.piece
  <2>1. i \in Nat /\ r \in Nat /\ p \in Nat /\ q \in Nat /\ p + q < r
    BY <1>1
  <2> HIDE DEF i, r, p, q
  <2>2. p + q \in Nat /\ Lower(i, r - p - q) \in Nat /\ p + q + Lower(i, r - p - q) <= r
    BY <2>1, SMT DEF Lower
  <2>3. QED
    BY <2>2 DEF i, r, p, q
<1>3. ns \in Bits
  BY <1>1, FlipIs
<1>4. Continue(c) = d
  BY DEF Continue, Cards
<1> HIDE DEF ns, pos, piece
<1>5. d \in Cards
  BY <1>2, <1>3 DEF Cards
<1>6. /\ d.ns = ns /\ d.pos = pos /\ d.piece = piece /\ d.nr = c.nr /\ d.got = c.got
      /\ d.last = c.last /\ d.resp = c.resp /\ d.req = c.req
  BY DEF Cards
<1> HIDE DEF d
<1>7. QED
  BY <1>2, <1>4, <1>5, <1>6 DEF ns, pos

(* The card gets an R-block, and goes on or repeats.                       *)
LEMMA CardRStep ==
    ASSUME IInv, CardR
    PROVE  IInv'
<1>1. /\ phase = "card" /\ wire.pcb.t = "R" /\ card \in Cards /\ Sound(ifd) /\ Out(ifd, card)
      /\ Outgoing(ifd, card, wire) /\ (card.req = "IFS" => card.info \in CardIfs)
  BY DEF IInv, Coherent, CardR
<1>2. wire.pcb = ifd.pcb /\ wire.pcb.n = ifd.nr /\ ifd.pcb.t = "R" /\ ifd.nr \in Bits
  BY <1>1, SoundIs DEF Outgoing
<1>3. Agreed(ifd, card) /\ ~ifd.rx_cmpl /\ ifd.nc \in Commands
  BY <1>1 DEF Out, Agreed
<1>4. Follows(ifd, card)
  BY <1>1, <1>2, <1>3 DEF Follows
<1>5. CASE Acknowledges(wire) /\ card.pos + card.piece < card.resp
  <2>1. card.last = "I" /\ card.ns # ifd.nr /\ card.req = "none"
    BY <1>2, <1>5 DEF Acknowledges
  <2>2. ~Waiting(ifd, card) /\ ~Arrived(ifd, card)
    <3>1. card.pos \in Nat /\ card.piece \in Nat /\ card.resp \in Nat
      BY <1>1, CardIs
    <3>2. card.pos + card.piece # card.resp
      BY <1>5, <3>1, SMT
    <3>3. QED
      BY <2>1, <3>2 DEF Waiting, Settled, Arrived
  <2>3. /\ ifd.tx_cmpl /\ ifd.tx = ifd.nc /\ card.nr = ifd.ns /\ card.got = Command(ifd.nc)
        /\ card.resp \in Responses /\ ifd.rx < card.resp /\ ifd.rx = card.pos + card.piece
    BY <1>3, <2>1, <2>2 DEF Agreed, Complete
  <2> DEFINE d == Continue(card)
  <2>4. Reply(d)
    BY <1>5 DEF CardR
  <2>5. /\ d \in Cards /\ d.ns = Flip(card.ns) /\ d.nr = card.nr /\ d.got = card.got
        /\ d.last = card.last /\ d.resp = card.resp /\ d.req = card.req
        /\ d.pos = card.pos + card.piece /\ d.pos + d.piece <= card.resp
    BY <1>1, <1>5, ContinueIs
  <2> HIDE DEF d
  <2>6. d.ns = ifd.nr
    BY <1>1, <1>2, <2>1, <2>5, CardIs, FlipIs
  <2>7. Complete(ifd, d)
    BY <2>1, <2>3, <2>5, <2>6 DEF Complete
  <2>8. Moving(ifd, d)
    BY <1>2, <1>3, <2>1, <2>5, <2>6, <2>7 DEF Moving
  <2>9. QED
    BY <1>1, <2>4, <2>8, ReplyStep
<1>6. CASE Acknowledges(wire) /\ ~(card.pos + card.piece < card.resp)
  <2>1. Turn(card, Refuse(card))
    BY <1>6 DEF CardR
  <2>2. Incoming(ifd, card, Refuse(card))
    BY <1>1, RefuseIncoming
  <2>3. QED
    BY <1>1, <1>4, <2>1, <2>2, TurnStep
<1>7. CASE ~Acknowledges(wire)
  <2>1. Turn(card, Answer(card))
    BY <1>7 DEF CardR
  <2>2. InStep(ifd, card)
    <3>1. SUFFICES ASSUME card.last = "I", card.req = "none"
                   PROVE  card.ns = ifd.nr /\ card.pos + card.piece <= card.resp /\ ~Waiting(ifd, card)
      BY DEF InStep
    <3>2. card.ns = ifd.nr
      BY <1>1, <1>2, <1>7, <3>1 DEF Acknowledges
    <3>3. ~Waiting(ifd, card)
      BY <3>1, <3>2 DEF Waiting, Settled
    <3>4. card.pos + card.piece <= card.resp
      <4>1. CASE Complete(ifd, card)
        BY <4>1 DEF Complete
      <4>2. CASE Arrived(ifd, card)
        <5>1. card.pos = 0 /\ card.piece <= card.resp
          BY <3>1, <4>2 DEF Arrived
        <5>2. card.piece \in Nat
          BY <1>1, CardIs
        <5>3. 0 + card.piece = card.piece
          BY <5>2, SMT
        <5>4. QED
          BY <5>1, <5>3
      <4>3. QED
        BY <1>3, <3>3, <4>1, <4>2 DEF Agreed
    <3>5. QED
      BY <3>2, <3>3, <3>4
  <2>3. Incoming(ifd, card, Answer(card))
    BY <1>1, <2>2, AnswerIncoming
  <2>4. QED
    BY <1>1, <1>4, <2>1, <2>3, TurnStep
<1>8. QED
  BY <1>5, <1>6, <1>7

(* The card gets an S-block.                                               *)
LEMMA CardSStep ==
    ASSUME IInv, CardS
    PROVE  IInv'
<1>1. /\ phase = "card" /\ wire.pcb.t = "S" /\ card \in Cards /\ Sound(ifd) /\ Out(ifd, card)
      /\ Outgoing(ifd, card, wire) /\ (card.req = "IFS" => card.info \in CardIfs)
  BY DEF IInv, Coherent, CardS
<1>2. /\ wire \in Blocks /\ wire.pcb = ifd.pcb /\ ifd.pcb \in Pcbs
      /\ ~wire.pcb.r => wire.pcb.s = "IFS" /\ wire.inf[1] \in Nat
  BY <1>1, SoundIs DEF Outgoing
<1>3. Agreed(ifd, card) /\ wire.pcb.s \in SBlocks /\ (~ifd.pcb.r => ~Arrived(ifd, card))
  BY <1>1, <1>2, PcbIs DEF Out
<1>4. CASE ~wire.pcb.r
  <2> DEFINE d == [card EXCEPT !.ifsd = wire.inf[1]]
             b == Block(S("IFS", TRUE), wire.inf)
  <2>1. Turn(d, b)
    BY <1>2, <1>4 DEF CardS, Granted
  <2>2. d \in Cards
    BY <1>1, <1>2, <1>4 DEF Cards
  <2>3. /\ d.ns = card.ns /\ d.nr = card.nr /\ d.got = card.got /\ d.last = card.last
        /\ d.resp = card.resp /\ d.pos = card.pos /\ d.piece = card.piece
        /\ d.req = card.req /\ d.info = card.info
    BY <1>1 DEF Cards
  <2>4. IsBlock(b, S("IFS", TRUE), wire.inf) /\ S("IFS", TRUE).t = "S" /\ S("IFS", TRUE).s = "IFS" /\ S("IFS", TRUE).r
    <3>1. S("IFS", TRUE) \in Pcbs /\ S("IFS", TRUE).t = "S" /\ S("IFS", TRUE).s = "IFS" /\ S("IFS", TRUE).r
      <4>1. "IFS" \in SBlocks
        BY DEF SBlocks
      <4>2. QED
        BY <4>1, PcbIs
    <3>2. wire.inf \in Seq(Int)
      BY <1>2 DEF Blocks
    <3>3. QED
      BY <3>1, <3>2, BlockIs
  <2> HIDE DEF d, b
  <2>5. /\ Waiting(ifd, d) <=> Waiting(ifd, card)
        /\ Arrived(ifd, d) <=> Arrived(ifd, card)
        /\ Complete(ifd, d) <=> Complete(ifd, card)
    <3>1. Waiting(ifd, d) <=> Waiting(ifd, card)
      BY <2>3 DEF Waiting, Settled
    <3>2. Arrived(ifd, d) <=> Arrived(ifd, card)
      BY <2>3 DEF Arrived
    <3>3. Complete(ifd, d) <=> Complete(ifd, card)
      BY <2>3 DEF Complete
    <3>4. QED
      BY <3>1, <3>2, <3>3
  <2>6. Follows(ifd, d)
    BY <1>1, <1>3, <2>2, <2>3, <2>5 DEF Follows, Agreed
  <2>7. b \in Blocks /\ b.pcb.t = "S" /\ b.pcb.s = "IFS" /\ b.pcb.r
    BY <2>4 DEF IsBlock
  <2>8. Incoming(ifd, d, b)
    BY <2>7 DEF Incoming
  <2>9. QED
    BY <1>1, <2>1, <2>6, <2>8, TurnStep
<1>5. CASE wire.pcb.r /\ Granted(wire)
  <2> DEFINE d == [card EXCEPT !.req = "none"]
  <2>1. Turn(d, Answer(d))
    BY <1>5 DEF CardS
  <2>2. d \in Cards /\ d.req = "none"
    BY <1>1 DEF Cards
  <2>3. /\ d.ns = card.ns /\ d.nr = card.nr /\ d.got = card.got /\ d.last = card.last
        /\ d.resp = card.resp /\ d.pos = card.pos /\ d.piece = card.piece
    BY <1>1 DEF Cards
  <2> HIDE DEF d
  <2>4. card.req # "none"
    BY <1>3, <1>5 DEF Granted, SBlocks
  <2>5. ~Waiting(ifd, card)
    BY <2>4, WaitingNoRequest
  <2>6. Arrived(ifd, card) => Arrived(ifd, d)
    BY <2>3 DEF Arrived
  <2>7. Complete(ifd, card) => Complete(ifd, d) /\ card.ns = ifd.nr
    BY <2>3, <2>4 DEF Complete
  <2>8. d.ns = ifd.nr
    BY <1>3, <2>3, <2>5, <2>7 DEF Agreed, Arrived
  <2>9. Arrived(ifd, d) \/ Complete(ifd, d)
    BY <1>3, <2>5, <2>6, <2>7 DEF Agreed
  <2>10. Follows(ifd, d)
    BY <1>2, <1>3, <1>5, <2>2, <2>9 DEF Follows, Agreed
  <2>11. InStep(ifd, d)
    <3>1. ~Waiting(ifd, d)
      BY <2>9 DEF Waiting, Arrived, Complete
    <3>2. d.last = "I" => d.pos + d.piece <= d.resp
      <4>1. CASE Complete(ifd, d)
        BY <4>1 DEF Complete
      <4>2. CASE Arrived(ifd, d)
        <5>1. d.last = "I" => d.pos = 0 /\ d.piece <= d.resp
          BY <4>2 DEF Arrived
        <5>2. d.piece \in Nat
          BY <2>2, CardIs
        <5>3. 0 + d.piece = d.piece
          BY <5>2, SMT
        <5>4. QED
          BY <5>1, <5>3
      <4>3. QED
        BY <2>9, <4>1, <4>2
    <3>3. QED
      BY <2>8, <3>1, <3>2 DEF InStep
  <2>12. Incoming(ifd, d, Answer(d))
    BY <2>2, <2>11, AnswerIncoming
  <2>13. QED
    BY <1>1, <2>1, <2>10, <2>12, TurnStep
<1>6. CASE wire.pcb.r /\ ~Granted(wire)
  <2>1. Turn(card, Refuse(card))
    BY <1>6 DEF CardS
  <2>2. Incoming(ifd, card, Refuse(card))
    BY <1>1, RefuseIncoming
  <2>3. Follows(ifd, card)
    BY <1>1, <1>2, <1>3, <1>6 DEF Follows
  <2>4. QED
    BY <1>1, <2>1, <2>2, <2>3, TurnStep
<1>7. QED
  BY <1>4, <1>5, <1>6

(* A block garbled on the way to the card.                                 *)
LEMMA GarbledStep ==
    ASSUME IInv, Garbled
    PROVE  IInv'
<1>1. phase = "card" /\ ifd' = ifd /\ card' = card /\ wire' = Refuse(card) /\ phase' = "ifd"
  BY DEF Garbled
<1>2. card \in Cards /\ Out(ifd, card) /\ (card.req = "IFS" => card.info \in CardIfs)
  BY <1>1 DEF IInv, Coherent
<1>3. Incoming(ifd, card, Refuse(card))
  BY <1>2, RefuseIncoming
<1>4. Follows(ifd, card)
  BY <1>2 DEF Follows, Out
<1>5. Coherent(ifd, "ifd", Refuse(card), card)
  BY <1>1, <1>3, <1>4, TurnCoherent
<1>6. QED
  BY <1>1, <1>5 DEF IInv

-----------------------------------------------------------------------------
(* A new command, and a new card.                                          *)

(* ifd_t1_xchg_init leaves the reader ready for the first block.           *)
LEMMA StartReady ==
    ASSUME Roomy, NEW e, NEW c \in Cards, AtRest(e, c), NEW nc \in Commands
    PROVE  /\ Ready(ifd_t1_xchg_init([e EXCEPT !.buf = Write(Fresh.buf, 0, Command(nc))], nc),
                    [c EXCEPT !.got = <<>>])
           /\ [c EXCEPT !.got = <<>>] \in Cards
<1> DEFINE w == Write(Fresh.buf, 0, Command(nc))
           r == ifd_t1_xchg_init([e EXCEPT !.buf = w], nc)
           d == [c EXCEPT !.got = <<>>]
<1>1. /\ Sound(e) /\ e \in Ifds /\ c.nr = e.ns /\ c.req = "none"
      /\ \/ c.last = "R" /\ c.ns = e.nr
         \/ c.last = "I" /\ c.ns # e.nr /\ c.pos + c.piece = c.resp
  BY DEF AtRest, Settled, Sound
<1>2. nc \in 1 .. IFD_BUF_SIZE
  BY LengthsAssumption
<1>3. nc \in Nat /\ 0 < nc /\ nc <= IFD_BUF_SIZE /\ 0 \in Nat /\ 0 <= 1 /\ <<>> \in Seq(Int) /\ 0 + nc = nc
  BY <1>2, Sizes, SMT
<1>4. Written(w, Framing(IFD_BUF_SIZE), 0, Command(nc)) /\ Len(Framing(IFD_BUF_SIZE)) = IFD_BUF_SIZE
  <2>1. Framing(IFD_BUF_SIZE) \in Seq(Int) /\ Len(Framing(IFD_BUF_SIZE)) = IFD_BUF_SIZE
    BY FramingIs, Sizes
  <2>2. Command(nc) \in Seq(Int) /\ Len(Command(nc)) = nc
    BY <1>3, CommandIs
  <2>3. Fresh.buf = Framing(IFD_BUF_SIZE)
    BY DEF Fresh
  <2>4. QED
    BY <1>3, <2>1, <2>2, <2>3, WriteIs
<1> HIDE DEF w
<1>5. w \in Seq(Int) /\ Len(w) = IFD_BUF_SIZE /\ CommandAt(w, 0, 0, nc - 0)
  <2>1. ASSUME NEW i \in 1 .. nc PROVE w[i] = i
    <3>1. 0 + i = i
      BY <1>3, SMT
    <3>2. w[0 + i] = Command(nc)[i] /\ Command(nc)[i] = i
      BY <1>3, <1>4, CommandIs DEF Written
    <3>3. QED
      BY <3>1, <3>2
  <2>2. CommandAt(w, 0, 0, nc - 0)
    BY <1>3, <2>1, InPlaceIs
  <2>3. QED
    BY <1>4, <2>2 DEF Written
<1>6. RETRNS \in Int /\ IFD_T1_MAX_RETRY \in Int
  BY Sizes, SMT DEF RETRNS
<1>7. I(0, FALSE) \in Pcbs /\ I(0, FALSE).t = "I"
  BY FirstPcb
<1> DEFINE p == I(0, FALSE)
<1>8. r = [e EXCEPT !.buf = w, !.tx_blk = 0, !.rx_blk = 0, !.tx = 0, !.rx = 0, !.ifsc = 0, !.ifsd = 0,
                    !.tx_cmpl = FALSE, !.rx_cmpl = FALSE, !.saved_buf = <<>>, !.nc = nc, !.pcb = p,
                    !.level = RETRNS, !.retry = IFD_T1_MAX_RETRY]
  BY <1>1 DEF ifd_t1_xchg_init, ifd_t1_resync_reset, Ifds
<1> HIDE DEF r, p
<1>9. r \in Ifds
  BY <1>1, <1>3, <1>5, <1>6, <1>7, <1>8 DEF Ifds, p
<1>10. /\ r.buf = w /\ r.tx = 0 /\ r.rx = 0 /\ r.ifsd = 0 /\ ~r.tx_cmpl /\ ~r.rx_cmpl
       /\ r.nc = nc /\ r.pcb = p /\ r.ns = e.ns /\ r.nr = e.nr
  BY <1>1, <1>8 DEF Ifds
<1>11. /\ r.bug = e.bug /\ r.ack_type = e.ack_type /\ r.ack_info = e.ack_info /\ r.conf_ifsd = e.conf_ifsd
  BY <1>1, <1>8 DEF Ifds
<1>12. Sound(r)
  BY <1>1, <1>5, <1>9, <1>10, <1>11 DEF Sound
<1>13. d \in Cards
  BY <1>3 DEF Cards
<1>14. /\ d.got = <<>> /\ d.nr = c.nr /\ d.ns = c.ns /\ d.req = c.req /\ d.last = c.last
       /\ d.pos = c.pos /\ d.piece = c.piece /\ d.resp = c.resp
  BY DEF Cards
<1> HIDE DEF d
<1>15. Command(0) = <<>>
  BY SMT DEF Command
<1>16. Waiting(r, d) /\ ~Arrived(r, d)
  BY <1>1, <1>3, <1>10, <1>14, <1>15 DEF Waiting, Settled, Arrived
<1>17. Agreed(r, d) /\ InPlace(r)
  BY <1>3, <1>5, <1>10, <1>16 DEF Agreed, InPlace
<1>18. r.tx # r.nc /\ r.pcb.t = "I" /\ r.ifsd <= 1
  <2>1. 0 # nc
    BY <1>3, SMT
  <2>2. QED
    BY <1>3, <1>7, <1>10, <2>1 DEF p
<1>19. Ready(r, d)
  BY <1>10, <1>12, <1>16, <1>17, <1>18 DEF Ready
<1>20. QED
  BY <1>13, <1>19 DEF r, d, w

(* A new command: ifd_xchg_block.                                          *)
LEMMA StartStep ==
    ASSUME Roomy, IInv, NEW nc \in Commands, ifd_xchg_block(nc)
    PROVE  IInv'
<1> DEFINE e == ifd_t1_xchg_init([ifd EXCEPT !.buf = Write(Fresh.buf, 0, Command(nc))], nc)
           r == ifd_t1_xchg_aval(e)
           d == [card EXCEPT !.got = <<>>]
<1>1. AtRest(ifd, card) /\ card \in Cards
  BY DEF IInv, Coherent, ifd_xchg_block, Done
<1>2. ifd' = r /\ wire' = Sent(r) /\ phase' = "card" /\ card' = d
  BY DEF ifd_xchg_block, Send
<1>3. Ready(e, d) /\ d \in Cards
  BY <1>1, StartReady
<1>4. d.req = "none"
  <2>1. d.req = card.req
    BY <1>1 DEF Cards
  <2>2. QED
    BY <1>1, <2>1 DEF AtRest, Settled
<1> HIDE DEF e, d
<1>5. SentOut(r, d)
  BY <1>3, AvalSentOut
<1> HIDE DEF r
<1>6. Coherent(r, "card", Sent(r), d)
  BY <1>3, <1>4, <1>5, SentCoherent
<1>7. QED
  BY <1>2, <1>6 DEF IInv

LEMMA NewCardIs ==
    /\ NewCard \in Cards /\ NewCard.ns = 0 /\ NewCard.nr = 0 /\ NewCard.req = "none" /\ NewCard.last = "R"
    /\ NewCard.got = <<>> /\ <<>> = Command(0) /\ Len(<<>>) = 0
<1>1. 0 \in Nat /\ <<>> \in Seq(Int) /\ IFD_T1_IFS_IMPLICIT \in Nat /\ 0 \in Bits /\ Len(<<>>) = 0
  BY Sizes, SMT DEF Bits
<1>2. <<>> = Command(0)
  BY SMT DEF Command
<1>3. NewCard \in Cards
  BY <1>1 DEF NewCard, Cards
<1>4. NewCard.ns = 0 /\ NewCard.nr = 0 /\ NewCard.req = "none" /\ NewCard.last = "R" /\ NewCard.got = <<>>
  BY DEF NewCard
<1>5. QED
  BY <1>1, <1>2, <1>3, <1>4

LEMMA IdleCoherent ==
    ASSUME NEW e, Sound(e), e.rx_cmpl, e.ns = 0, e.nr = 0, NEW w \in Blocks
    PROVE  Coherent(e, "idle", w, NewCard)
<1>1. AtRest(e, NewCard)
  BY NewCardIs DEF AtRest, Settled
<1>2. 0 <= e.nc
  <2>1. e.nc \in Nat
    BY SoundIs
  <2>2. QED
    BY <2>1, SMT
<1>3. QED
  BY <1>1, <1>2, NewCardIs DEF Coherent

(* A new card: ifd_t1_conf_param.                                          *)
LEMMA ConfStep ==
    ASSUME IInv, ifd_t1_conf_param
    PROVE  IInv'
<1>1. Sound(ifd) /\ ifd \in Ifds /\ wire \in Blocks
  BY DEF IInv, Coherent, Sound
<1>2. PICK v \in CardIfs :
         ifd' = __ifd_t1_xfr_resync([ifd EXCEPT !.conf_ifsc = v, !.tx_cmpl = TRUE, !.rx_cmpl = TRUE])
  BY DEF ifd_t1_conf_param
<1> DEFINE e == [ifd EXCEPT !.conf_ifsc = v, !.tx_cmpl = TRUE, !.rx_cmpl = TRUE,
                            !.conf_ifsd = IFD_T1_IFS_IMPLICIT, !.ns = 0, !.nr = 0]
<1>3. ifd' = e
  BY <1>1, <1>2 DEF __ifd_t1_xfr_resync, Ifds
<1>4. IFD_T1_IFS_IMPLICIT \in Nat /\ IFD_T1_IFS_IMPLICIT \in 1 .. 254 /\ 0 \in Bits
  BY Sizes, SMT DEF Bits
<1>5. e \in Ifds
  BY <1>1, <1>4 DEF Ifds
<1>6. /\ e.rx_cmpl /\ e.ns = 0 /\ e.nr = 0 /\ e.buf = ifd.buf /\ e.bug = ifd.bug
      /\ e.ack_type = ifd.ack_type /\ e.ack_info = ifd.ack_info /\ e.conf_ifsd = IFD_T1_IFS_IMPLICIT
  BY <1>1 DEF Ifds
<1> HIDE DEF e
<1>7. Sound(e)
  BY <1>1, <1>4, <1>5, <1>6 DEF Sound
<1>8. Coherent(e, "idle", wire, NewCard)
  BY <1>1, <1>6, <1>7, IdleCoherent
<1>9. QED
  BY <1>3, <1>8 DEF IInv, ifd_t1_conf_param

LEMMA InitInv ==
    ASSUME Init
    PROVE  IInv
<1>1. PICK v \in CardIfs : ifd = [Fresh EXCEPT !.conf_ifsc = v]
  BY DEF Init
<1>2. /\ 0 \in Nat /\ 0 \in Int /\ <<>> \in Seq(Int) /\ IFD_T1_IFS_IMPLICIT \in Nat
      /\ IFD_T1_IFS_IMPLICIT \in 1 .. 254 /\ 0 \in Bits /\ RETRNS \in Int
  BY Sizes, SMT DEF Bits, RETRNS
<1>3. I(0, FALSE) \in Pcbs /\ "RESYNC" \in SBlocks /\ "RESYNC" # "IFS"
  BY FirstPcb DEF SBlocks
<1>4. Framing(IFD_BUF_SIZE) \in Seq(Int) /\ Len(Framing(IFD_BUF_SIZE)) = IFD_BUF_SIZE
  BY FramingIs, Sizes
<1> DEFINE p == I(0, FALSE)
           w == Framing(IFD_BUF_SIZE)
<1>5. p \in Pcbs /\ w \in Seq(Int) /\ Len(w) = IFD_BUF_SIZE
  BY <1>3, <1>4
<1>6. ifd = [ns |-> 0, nr |-> 0, tx_cmpl |-> TRUE, rx_cmpl |-> TRUE, pcb |-> p,
             ack_type |-> "RESYNC", ack_info |-> 0, level |-> RETRNS, retry |-> 0,
             tx |-> 0, rx |-> 0, nc |-> 0, tx_blk |-> 0, rx_blk |-> 0, ifsc |-> 0, ifsd |-> 0,
             ack_ifsc |-> 0, saved_buf |-> <<>>, buf |-> w,
             conf_ifsc |-> v, conf_ifsd |-> IFD_T1_IFS_IMPLICIT, bug |-> FALSE]
  BY <1>1 DEF Fresh
<1> HIDE DEF p, w
<1>7. ifd \in Ifds
  BY <1>2, <1>3, <1>5, <1>6 DEF Ifds
<1>8. /\ ifd.rx_cmpl /\ ifd.ns = 0 /\ ifd.nr = 0 /\ ifd.buf = w /\ ~ifd.bug
      /\ ifd.ack_type = "RESYNC" /\ ifd.conf_ifsd = IFD_T1_IFS_IMPLICIT
  BY <1>6
<1>9. Sound(ifd)
  BY <1>2, <1>3, <1>5, <1>7, <1>8 DEF Sound
<1>10. Coherent(ifd, "idle", NoBlock, NewCard)
  BY <1>8, <1>9, NoBlockIs, IdleCoherent
<1>11. QED
  BY <1>10 DEF Init, IInv

-----------------------------------------------------------------------------
(* The invariant, and what it says of the transport.                       *)

(* Every step of the reader, of the card and of the line keeps the         *)
(* accounts of the three in agreement: ifd_t1.c's counters, buffer and     *)
(* save area, the card's sequence numbers, and the block on the wire.      *)
THEOREM TransportInvariant ==
    ASSUME Roomy
    PROVE  Spec => []IInv
<1>1. Init => IInv
  BY InitInv
<1>2. ASSUME IInv, [Next]_vars PROVE IInv'
  <2>1. ASSUME NEW nc \in Commands, ifd_xchg_block(nc) PROVE IInv'
    BY <1>2, <2>1, StartStep
  <2>2. CASE CardI
    BY <1>2, <2>2, CardIStep
  <2>3. CASE CardR
    BY <1>2, <2>3, CardRStep
  <2>4. CASE CardS
    BY <1>2, <2>4, CardSStep
  <2>5. CASE Garbled
    BY <1>2, <2>5, GarbledStep
  <2>6. CASE Damaged
    BY <1>2, <2>6, DamagedStep
  <2>7. CASE ifd_t1_xchg_cmpl
    BY <1>2, <2>7, CmplStep
  <2>8. CASE ifd_t1_conf_param
    BY <1>2, <2>8, ConfStep
  <2>9. CASE UNCHANGED vars
    BY <1>2, <2>9 DEF IInv, vars
  <2>10. QED
    BY <1>2, <2>1, <2>2, <2>3, <2>4, <2>5, <2>6, <2>7, <2>8, <2>9 DEF Next
<1>3. QED
  BY <1>1, <1>2, PTL DEF Spec

(* A prefix of the command is a shorter command.                           *)
LEMMA PrefixIs ==
    ASSUME NEW n \in Nat, NEW m \in Nat, m <= n
    PROVE  SubSeq(Command(n), 1, m) = Command(m)
<1> DEFINE s == Command(n)
<1>1. s \in Seq(Int) /\ Len(s) = n /\ \A i \in 1 .. n : s[i] = i
  BY CommandIs
<1> HIDE DEF s
<1>2. 1 \in Nat /\ 1 > 0 /\ m <= Len(s) /\ 1 <= m + 1 /\ m - 1 + 1 = m
  BY <1>1, SMT
<1> DEFINE p == SubSeq(s, 1, m)
<1> DEFINE k == m - 1 + 1
<1>3. p \in Seq(Int) /\ Len(p) = m /\ \A i \in 1 .. m : p[i] = s[1 + i - 1]
  <2>1. p \in Seq(Int) /\ Len(p) = k /\ \A i \in 1 .. k : p[i] = s[1 + i - 1]
    BY <1>1, <1>2, CutIs
  <2>2. k = m
    BY <1>2
  <2> HIDE DEF k
  <2>3. QED
    BY <2>1, <2>2
<1> HIDE DEF p
<1>4. \A i \in 1 .. m : p[i] = i
  <2>1. ASSUME NEW i \in 1 .. m PROVE 1 + i - 1 = i /\ i \in 1 .. n
    BY SMT
  <2>2. QED
    BY <1>1, <1>3, <2>1
<1>5. p = Command(m)
  BY <1>3, <1>4, SMT DEF Command
<1>6. QED
  BY <1>5 DEF p, s

(* The response is read from where it was stored.                          *)
LEMMA ReadBack ==
    ASSUME Lawful, NEW b \in Seq(Int), NEW n \in Nat, n <= Len(b), ResponseAt(b, 0, 0, n)
    PROVE  Read(b, 0, n) = Response(n)
<1> DEFINE r == Read(b, 0, n)
<1>1. 0 \in Nat /\ 0 + n <= Len(b)
  BY SMT
<1>2. IsRead(r, b, 0, n)
  BY <1>1, ReadIs
<1> HIDE DEF r
<1>3. r \in Seq(Int) /\ Len(r) = n
  BY <1>2 DEF IsRead
<1>4. ASSUME NEW i \in 1 .. n PROVE r[i] = -i
  <2>1. r[i] = b[0 + i] /\ b[0 + i] = -(0 + i)
    BY <1>2 DEF IsRead, ResponseAt
  <2>2. 0 + i = i
    BY SMT
  <2>3. QED
    BY <2>1, <2>2
<1>5. r = Response(n)
  BY <1>3, <1>4, SMT DEF Response
<1>6. QED
  BY <1>5 DEF r

(* What the card has taken is always a prefix of the command, in order and *)
(* without a repetition, and all of it when ifd_t1_xchg_cmpl reports       *)
(* success: chaining (ifd_t1_build_iblock), retransmission                 *)
(* (ifd_t1_error_handling) and a change of IFSC under way                  *)
(* (ifd_t1_error_free_operation) neither lose a byte nor send one twice.   *)
THEOREM CommandIsDelivered ==
    ASSUME Roomy
    PROVE  Spec => []CommandDelivered
<1>1. ASSUME IInv PROVE CommandDelivered
  <2>1. Sound(ifd) /\ card \in Cards /\ Len(card.got) <= ifd.nc /\ card.got = Command(Len(card.got))
    BY <1>1 DEF IInv, Coherent
  <2>2. ifd.nc \in Nat /\ Len(card.got) \in Nat
    BY <2>1, SoundIs, CardIs, LenIs
  <2>3. SubSeq(Command(ifd.nc), 1, Len(card.got)) = Command(Len(card.got))
    BY <2>1, <2>2, PrefixIs
  <2>4. phase = "done" => card.got = Command(ifd.nc)
    BY <1>1 DEF IInv, Coherent, Done
  <2>5. QED
    BY <2>1, <2>3, <2>4 DEF CommandDelivered
<1>2. QED
  BY <1>1, TransportInvariant, PTL

(* When ifd_t1_xchg_cmpl reports success the buffer holds the card's       *)
(* response from its first byte to its last: the blocks built and received *)
(* in between, and the bytes ifd_t1_save_buffer saved before them and      *)
(* ifd_t1_restore_buffer put back, leave it whole. Lawful holds for the    *)
(* sizes of every shipped configuration, where the buffer has 261 bytes    *)
(* and a response at most 258, whatever IFD_T1_MAX_IFSD is.                *)
THEOREM ResponseIsIntact ==
    ASSUME Roomy, Lawful
    PROVE  Spec => []ResponseIntact
<1>1. ASSUME IInv PROVE ResponseIntact
  <2>1. SUFFICES ASSUME phase = "done" PROVE Read(ifd.buf, 0, ifd.rx) = Response(card.resp)
    BY DEF ResponseIntact
  <2>2. Done(ifd, card) /\ Sound(ifd)
    BY <1>1, <2>1 DEF IInv, Coherent
  <2>3. ifd.rx = card.resp /\ card.resp \in Responses /\ ResponseAt(ifd.buf, 0, 0, ifd.rx)
    BY <2>2 DEF Done
  <2>4. ifd.buf \in Seq(Int) /\ Len(ifd.buf) = IFD_BUF_SIZE
    BY <2>2, SoundIs DEF Sound
  <2>5. ifd.rx \in 1 .. IFD_BUF_SIZE
    BY <2>3, LengthsAssumption
  <2>6. ifd.rx \in Nat /\ ifd.rx <= IFD_BUF_SIZE
    BY <2>5, Sizes, SMT
  <2>7. Read(ifd.buf, 0, ifd.rx) = Response(ifd.rx)
    BY <2>3, <2>4, <2>6, ReadBack
  <2>8. QED
    BY <2>3, <2>7
<1>2. QED
  BY <1>1, TransportInvariant, PTL

(* No received block runs over the end of the buffer, if ifd_t1_safe_size  *)
(* does not wrap: with 3 + Epilogue + IFD_T1_MAX_IFSD up to 255 the        *)
(* place ifd_t1_save_buffer gives to a block has room for all of it. The   *)
(* default of 254 is beyond this, and there TLC finds a block that does    *)
(* not fit.                                                                *)
THEOREM BlocksStayInBuffer ==
    ASSUME Roomy, Snug
    PROVE  Spec => []BlockInBuffer
<1>1. ASSUME IInv PROVE BlockInBuffer
  <2>1. SUFFICES ASSUME phase = "ifd", Fits(ifd, Len(wire.inf))
                 PROVE  ifd.rx_blk + Len(Framed(wire.inf)) <= IFD_BUF_SIZE
    BY DEF BlockInBuffer
  <2>2. Out(ifd, card) /\ wire.inf \in Seq(Int)
    BY <1>1, <2>1 DEF IInv, Coherent, Incoming, Blocks
  <2>3. Len(Framed(wire.inf)) = 3 + Len(wire.inf) + Epilogue /\ Len(wire.inf) \in Nat
    BY <2>2, FramedIs
  <2>4. Len(wire.inf) <= ifd.ifsd
    BY <2>1 DEF Fits
  <2>5. ifd.rx_blk + (3 + Len(wire.inf) + Epilogue) <= IFD_BUF_SIZE
    BY <2>2, <2>3, <2>4, RoomForBlock
  <2>6. QED
    BY <2>3, <2>5
<1>2. QED
  BY <1>1, TransportInvariant, PTL

(* No BUG_ON on a length or an offset in ifd_t1.c fires: saved_buf never   *)
(* overflows, a block that is built never runs past the buffer, and an     *)
(* acknowledgement never advances tx past the command.                     *)
THEOREM NoBugFires ==
    ASSUME Roomy
    PROVE  Spec => []NoBug
<1>1. IInv => NoBug
  BY DEF IInv, Coherent, Sound, NoBug
<1>2. QED
  BY <1>1, TransportInvariant, PTL

=============================================================================
