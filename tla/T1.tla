-------------------------------- MODULE T1 ---------------------------------
(***************************************************************************)
(* The T=1 protocol of the smart-card reader, kernel/scs/ifd_t1.c built    *)
(* with CONFIG_IFD_XCHG_APDU, over ifd_xchg_block, ifd_xchg_idle and the   *)
(* buffer functions of ifd.c.                                              *)
(*                                                                         *)
(* Reader and card take turns: a block goes out, a block or nothing comes  *)
(* back.  The command, the response and the block of the moment share one  *)
(* buffer, so that whatever a block overwrites is saved before it is built *)
(* and restored when it has been answered.  Both of these are modelled:    *)
(* the control of the protocol, and where every byte is.                   *)
(*                                                                         *)
(* Byte i of the command is the number i, byte i of the response -i, and a *)
(* byte of a prologue or an epilogue, or one nobody put there, is Junk.    *)
(* The card, which is not part of the repository, follows ISO/IEC 7816-3.  *)
(***************************************************************************)
EXTENDS Integers, Sequences

CONSTANTS IFD_BUF_SIZE, IFD_T1_MAX_IFSD, IFD_T1_IFS_IMPLICIT, IFD_T1_MAX_RETRY,
          Epilogue,      \* ifd_t1_epilogue_size(): 1 for an LRC, 2 for a CRC
          IntBits,       \* the width of int: 16 on AVR, 32 on ARM
          Commands,      \* the lengths of the commands,
          Responses,     \*   and of the responses of the card
          CardIfs,       \* the IFSC a card may indicate
          MaxFaults,     \* bound: blocks lost or garbled
          MaxRequests    \* bound: S-block requests the card makes of its own

IFD_T1_PROLOGUE_SIZE == 3
IFD_T1_SAFE_IFSD == 1
IFD_T1_SAVE_SIZE == 8
RETRNS == 3
WRESET == 1
Junk == 1000

ASSUME SizesAssumption ==
    /\ IFD_BUF_SIZE \in Nat /\ IFD_T1_MAX_RETRY \in Nat /\ Epilogue \in {1, 2}
    /\ IFD_T1_MAX_IFSD \in 1 .. 254 /\ IFD_T1_IFS_IMPLICIT \in 1 .. 254
    /\ CardIfs \subseteq 1 .. 254 /\ IntBits \in {16, 32}
ASSUME LengthsAssumption ==
    Commands \subseteq 1 .. IFD_BUF_SIZE /\ Responses \subseteq 1 .. IFD_BUF_SIZE

VARIABLES ifd,       \* ifd_t1_xchg, ifd_t1_conf and ifd_xchg_buff of the slot
          phase,     \* who has the turn: nobody ("idle", "done", "failed"), the card, the reader
          wire,      \* the block that is on its way
          card,      \* the state of the card
          faults,    \* how many blocks have been lost or garbled,
          requests   \*   and how many requests the card has made

vars == <<ifd, phase, wire, card, faults, requests>>

Lower(a, b) == IF a < b THEN a ELSE b
Higher(a, b) == IF a > b THEN a ELSE b
uint8(n) == n % 256

(* The protocol control byte, by its fields.                               *)
I(n, m) == [t |-> "I", n |-> n, m |-> m]
R(n) == [t |-> "R", n |-> n]
S(s, r) == [t |-> "S", s |-> s, r |-> r]

Block(pcb, inf) == [pcb |-> pcb, inf |-> inf]
NoBlock == Block(R(0), <<>>)

Command(nc) == [i \in 1 .. nc |-> i]
Response(len) == [i \in 1 .. len |-> -i]

-----------------------------------------------------------------------------
(* The buffer functions: ifd_xchg_move, which copies overlapping bytes     *)
(* right, ifd_xchg_write, ifd_xchg_read.  What the code would store behind *)
(* the end of ifd_xchg_buff is lost, and Junk is read from there.          *)

Framing(n) == [i \in 1 .. n |-> Junk]

Read(buf, at, cnt) == SubSeq(buf \o Framing(cnt), at + 1, at + cnt)

Write(buf, at, bytes) ==
    SubSeq(SubSeq(buf, 1, at) \o bytes \o SubSeq(buf, at + Len(bytes) + 1, Len(buf)), 1, Len(buf))

ifd_xchg_move(buf, to, from, cnt) == Write(buf, to, Read(buf, from, cnt))

Framed(inf) == Framing(IFD_T1_PROLOGUE_SIZE) \o inf \o Framing(Epilogue)

(* BUG_ON                                                                  *)
Bug(e, cond) == [e EXCEPT !.bug = @ \/ cond]

ifd_t1_save(e, index, length) ==
    Bug([e EXCEPT !.saved_buf = Read(e.buf, index, length)], length > IFD_T1_SAVE_SIZE)

ifd_t1_restore(e, index) ==
    [e EXCEPT !.buf = Write(@, index, e.saved_buf), !.saved_buf = <<>>]

Safe(e) == uint8(IFD_T1_PROLOGUE_SIZE + Epilogue + e.ifsd)

SaveEnd(e) == Lower(Safe(e) + e.ifsc + Epilogue, e.nc)

(* What the block to be built would overwrite is saved, and the piece of   *)
(* the command it carries is moved to where the answer cannot reach it.    *)
ifd_t1_save_buffer(e) ==
    LET safe == Safe(e)
        end == e.tx + e.ifsc
        beyond == IFD_BUF_SIZE - e.rx < safe
        saved == IF beyond THEN uint8(safe - (IFD_BUF_SIZE - e.rx)) ELSE 0
        tx_blk == IF e.pcb.t = "I" THEN safe - IFD_T1_PROLOGUE_SIZE ELSE e.rx
        e1 == Bug([e EXCEPT !.rx_blk = e.rx, !.tx_blk = tx_blk],
                  \/ IFD_BUF_SIZE < tx_blk + e.ifsd + IFD_T1_PROLOGUE_SIZE + Epilogue
                  \/ SaveEnd(e) > IFD_BUF_SIZE)
        e2 == IF SaveEnd(e) > end THEN ifd_t1_save(e1, end, uint8(SaveEnd(e) - end)) ELSE e1
        e3 == IF beyond THEN ifd_t1_save(e, e.rx - saved, saved) ELSE e
    IN IF e.tx < e.nc
       THEN [e2 EXCEPT !.buf = ifd_xchg_move(@, safe, e.tx, e.ifsc)]
       ELSE [e3 EXCEPT !.rx_blk = e.rx - saved, !.tx_blk = e.rx - saved]

(* Variant: the bytes behind the piece are not put back.                   *)
RestoreMoveOnly(e, tx, rx) ==
    IF tx < e.nc /\ e.tx < e.nc
    THEN [e EXCEPT !.buf = ifd_xchg_move(@, tx, Safe(e), e.ifsc)] ELSE e

ifd_t1_restore_buffer(e, tx, rx) ==
    LET safe == Safe(e)
        e1 == [e EXCEPT !.buf = ifd_xchg_move(@, tx, safe, e.ifsc)]
    IN CASE tx < e.nc /\ e.tx < e.nc ->
              Bug(IF SaveEnd(e) > tx + e.ifsc THEN ifd_t1_restore(e1, tx + e.ifsc) ELSE e1,
                  SaveEnd(e) > IFD_BUF_SIZE)
         [] e.tx = e.nc /\ IFD_BUF_SIZE - rx < safe ->
              ifd_t1_restore(e, rx - uint8(safe - (IFD_BUF_SIZE - rx)))
         [] OTHER -> e

-----------------------------------------------------------------------------
(* Building a block: ifd_t1_write_prologue, the information field, which   *)
(* ifd_t1_save_buffer has put there if it is a piece of the command, and   *)
(* ifd_t1_compute_checksum.                                                *)
Build(e) ==
    LET e1 == ifd_t1_save_buffer(e)
        data == IF e.pcb.t = "I" THEN Read(e1.buf, e1.tx_blk + IFD_T1_PROLOGUE_SIZE, e.ifsc)
                ELSE Framing(e.ifsc)
    IN Bug([e1 EXCEPT !.buf = Write(@, e1.tx_blk, Framed(data))],
           e1.tx_blk + IFD_T1_PROLOGUE_SIZE + e.ifsc + Epilogue > IFD_BUF_SIZE)

ifd_t1_xfr_m(e) == e.nc > e.tx + e.ack_ifsc

ifd_t1_build_sblock(e, type, inf, resp) ==
    Build([Bug(e, type = "IFS" /\ inf < IFD_T1_SAFE_IFSD) EXCEPT
               !.ifsc = IF type \in {"IFS", "WTX"} THEN 1 ELSE 0,
               !.ifsd = IFD_T1_SAFE_IFSD, !.pcb = S(type, resp)])

ifd_t1_build_iblock(e, ifsc) ==
    LET e1 == [e EXCEPT !.ack_ifsc = ifsc, !.ifsc = ifsc, !.ifsd = e.conf_ifsd]
    IN Build([e1 EXCEPT !.pcb = I(e.ns, ifd_t1_xfr_m(e1))])

ifd_t1_build_rblock(e) ==
    Build([e EXCEPT !.ifsc = 0, !.ifsd = e.conf_ifsd, !.pcb = R(e.nr)])

(* Variant: the difference as the unsigned type it is assigned to.         *)
UnsignedMinus(a, b) == (a - b) % 65536

(* tx - ifsd_rx, of two uint16_t: an int, which may be negative, where int *)
(* is wider, and unsigned where it is not.                                 *)
Minus(a, b) == IF IntBits = 16 THEN (a - b) % 65536 ELSE a - b

SetIfsd(e, ifsd) ==
    ifd_t1_build_sblock([e EXCEPT !.conf_ifsd = uint8(ifsd)], "IFS", uint8(ifsd), FALSE)

(* The next block to send.  As long as the command is being sent the       *)
(* response may have no more than lies between rx and tx.                  *)
ifd_t1_xchg_aval(e) ==
    LET ifsd_rx == e.rx + IFD_T1_PROLOGUE_SIZE + Epilogue
        want == Lower(e.conf_ifsc, e.nc - e.tx)
        ifsc == IF want + Safe(e) + Epilogue >= IFD_BUF_SIZE
                THEN IFD_BUF_SIZE - Safe(e) - Epilogue ELSE want
        between == Higher(Minus(e.tx, ifsd_rx), IFD_T1_SAFE_IFSD)
        beyond == Lower(IFD_T1_MAX_IFSD, IFD_BUF_SIZE - e.rx)
    IN CASE e.pcb.t = "S" -> ifd_t1_build_sblock(e, e.ack_type, e.ack_info, TRUE)
         [] e.pcb.t = "R" -> ifd_t1_build_rblock(e)
         [] e.pcb.t = "I" /\ e.tx < e.nc ->
              IF between < e.conf_ifsd THEN SetIfsd(e, between)
              ELSE ifd_t1_build_iblock(e, uint8(ifsc))
         [] e.pcb.t = "I" /\ e.tx >= e.nc ->
              IF beyond # e.conf_ifsd THEN SetIfsd(e, beyond) ELSE ifd_t1_build_rblock(e)

(* ifd_t1_xfr_block, ifd_xchg_sync: what goes out is what is in the buffer.*)
Sent(e) == Block(e.pcb, IF e.pcb.t = "S"
                        THEN IF e.ifsc = 1 THEN <<IF e.pcb.r THEN e.ack_info ELSE e.conf_ifsd>> ELSE <<>>
                        ELSE Read(e.buf, e.tx_blk + IFD_T1_PROLOGUE_SIZE, e.ifsc))

-----------------------------------------------------------------------------
(* ifd_t1_block_valid, of a block whose checksum is right.                 *)
ValidR(e, b) ==
    /\ b.inf = <<>>
    /\ ~(ifd_t1_xfr_m(e) /\ b.pcb.n = e.ns)
    /\ ~e.tx_cmpl

ValidI(e, b) == e.pcb.t = "I" => ~e.pcb.m /\ b.pcb.n = e.nr

ValidS(e, b) ==
    /\ Len(b.inf) = IF b.pcb.s \in {"IFS", "WTX"} THEN 1 ELSE 0
    /\ b.pcb.r => e.pcb.t = "S" /\ b.pcb.s = e.pcb.s /\ ~e.pcb.r
    /\ CASE b.pcb.s = "RESYNC" -> b.pcb.r
         [] b.pcb.s = "IFS" -> b.pcb.r => b.inf[1] = e.conf_ifsd
         [] b.pcb.s = "WTX" -> ~b.pcb.r
         [] OTHER -> TRUE

ifd_t1_block_valid(e, b) ==
    /\ (e.pcb.t = "S" /\ ~e.pcb.r) => (b.pcb.t = "S" /\ b.pcb.s = e.pcb.s /\ b.pcb.r)
    /\ CASE b.pcb.t = "R" -> ValidR(e, b)
         [] b.pcb.t = "I" -> ValidI(e, b)
         [] b.pcb.t = "S" -> ValidS(e, b)

Flip(n) == 1 - n

(* The I-block that was sent last has arrived.                             *)
ifd_t1_acked_iblock(e) ==
    LET tx == e.tx + e.ack_ifsc
    IN IF e.tx_cmpl THEN e
       ELSE Bug([e EXCEPT !.ns = Flip(@), !.tx = tx, !.tx_cmpl = tx = e.nc], tx > e.nc)

(* Variant: the next piece is asked for with the number of this one.       *)
AckSameNumber(e, len, cmpl) ==
    [e EXCEPT !.rx = @ + len, !.rx_cmpl = @ \/ cmpl,
              !.buf = ifd_xchg_move(@, e.rx, e.rx_blk + IFD_T1_PROLOGUE_SIZE, len)]

(* An I-block of the card has arrived: its bytes go to the end of the      *)
(* response.                                                               *)
ifd_t1_ack_iblock(e, len, cmpl) ==
    [e EXCEPT !.nr = Flip(@), !.rx = @ + len, !.rx_cmpl = @ \/ cmpl,
              !.buf = ifd_xchg_move(@, e.rx, e.rx_blk + IFD_T1_PROLOGUE_SIZE, len)]

ifd_t1_resync_reset(e) == [e EXCEPT !.level = RETRNS, !.retry = IFD_T1_MAX_RETRY]

__ifd_t1_xfr_resync(e) == [e EXCEPT !.conf_ifsd = IFD_T1_IFS_IMPLICIT, !.ns = 0, !.nr = 0]

ifd_t1_error_free_operation(e, b) ==
    LET e0 == ifd_t1_resync_reset(e)
        request == b.pcb.t = "S" /\ ~b.pcb.r
        info == IF b.inf = <<>> THEN 0 ELSE b.inf[1]
        e1 == CASE b.pcb.t = "R" -> IF b.pcb.n # e.ns THEN ifd_t1_acked_iblock(e0) ELSE e0
                [] b.pcb.t = "I" -> ifd_t1_ack_iblock(ifd_t1_acked_iblock(e0), Len(b.inf), ~b.pcb.m)
                [] request -> [e0 EXCEPT !.ack_type = b.pcb.s, !.ack_info = info,
                                         !.conf_ifsc = IF b.pcb.s = "IFS" THEN info ELSE @]
                [] b.pcb.t = "S" /\ b.pcb.r -> IF b.pcb.s = "RESYNC" THEN __ifd_t1_xfr_resync(e0) ELSE e0
    IN [ifd_t1_restore_buffer(e1, e.tx, e.rx) EXCEPT !.pcb = IF request THEN b.pcb ELSE I(0, FALSE)]

(* Variant: the retries are not counted.                                   *)
NoRetryCount(e) ==
    [ifd_t1_restore_buffer(e, e.tx, e.rx) EXCEPT !.pcb = R(0)]

(* ifd_t1_error_handling, before the last level.                           *)
ifd_t1_error_handling(e) ==
    LET last == e.retry = 0
        e1 == [e EXCEPT !.retry = IF last THEN IFD_T1_MAX_RETRY ELSE @ - 1,
                        !.level = IF last THEN @ - 1 ELSE @]
    IN [ifd_t1_restore_buffer(e1, e.tx, e.rx) EXCEPT
            !.pcb = IF e.level = RETRNS THEN R(0) ELSE S("RESYNC", FALSE)]

-----------------------------------------------------------------------------
(* The card.  It keeps what it would send next, apart from the answers to  *)
(* S-block requests of the reader: the request it has made, or the piece   *)
(* of the response it is at, or an R-block.                                *)

Piece(c) == SubSeq(Response(c.resp), c.pos + 1, c.pos + c.piece)

Answer(c) ==
    CASE c.req # "none" -> Block(S(c.req, FALSE), <<c.info>>)
      [] c.req = "none" /\ c.last = "I" -> Block(I(c.ns, c.pos + c.piece < c.resp), Piece(c))
      [] OTHER -> Block(R(c.nr), <<>>)

(* Asks for the block it did not understand.                               *)
Refuse(c) == IF c.req # "none" THEN Answer(c) ELSE Block(R(c.nr), <<>>)

Respond(c, len) == [c EXCEPT !.last = "I", !.resp = len, !.pos = 0, !.piece = Lower(c.ifsd, len)]

Accept(c, inf) ==
    [c EXCEPT !.got = @ \o inf, !.nr = Flip(@), !.last = "R",
              !.ns = IF c.last = "I" THEN Flip(@) ELSE @]

Continue(c) ==
    [c EXCEPT !.ns = Flip(@), !.pos = @ + c.piece, !.piece = Lower(c.ifsd, c.resp - c.pos - c.piece)]

Expected(b) == b.pcb.t = "I" /\ b.pcb.n = card.nr /\ card.req = "none"
Acknowledges(b) ==
    b.pcb.t = "R" /\ card.last = "I" /\ b.pcb.n # card.ns /\ card.req = "none"
Granted(b) == b.pcb.t = "S" /\ b.pcb.r /\ b.pcb.s = card.req

Turn(c, b) == card' = c /\ wire' = b /\ phase' = "ifd" /\ UNCHANGED <<ifd, faults>>

(* It answers, or first makes a request of its own.                        *)
Reply(c) ==
    \/ Turn(c, Answer(c)) /\ UNCHANGED requests
    \/ /\ requests < MaxRequests
       /\ requests' = requests + 1
       /\ \E q \in {<<"WTX", 1>>} \cup {<<"IFS", v>> : v \in CardIfs} :
             LET c1 == [c EXCEPT !.req = q[1], !.info = q[2]] IN Turn(c1, Answer(c1))

CardI == /\ phase = "card" /\ wire.pcb.t = "I"
         /\ CASE ~Expected(wire) -> Turn(card, Refuse(card)) /\ UNCHANGED requests
              [] Expected(wire) /\ wire.pcb.m -> Reply(Accept(card, wire.inf))
              [] Expected(wire) /\ ~wire.pcb.m ->
                   \E len \in Responses : Reply(Respond(Accept(card, wire.inf), len))

CardR == /\ phase = "card" /\ wire.pcb.t = "R"
         /\ IF Acknowledges(wire) /\ card.pos + card.piece < card.resp THEN Reply(Continue(card))
            ELSE /\ Turn(card, IF Acknowledges(wire) THEN Refuse(card) ELSE Answer(card))
                 /\ UNCHANGED requests

CardS == /\ phase = "card" /\ wire.pcb.t = "S"
         /\ CASE ~wire.pcb.r /\ wire.pcb.s = "IFS" ->
                   Turn([card EXCEPT !.ifsd = wire.inf[1]], Block(S("IFS", TRUE), wire.inf))
              [] Granted(wire) -> LET c == [card EXCEPT !.req = "none"] IN Turn(c, Answer(c))
              [] OTHER -> Turn(card, Refuse(card))
         /\ UNCHANGED requests

(* What the reader sent arrives garbled; or does not arrive at all, and    *)
(* the card stays silent.                                                  *)
Garbled == /\ phase = "card" /\ faults < MaxFaults
           /\ faults' = faults + 1
           /\ wire' = Refuse(card)
           /\ phase' = "ifd"
           /\ UNCHANGED <<ifd, card, requests>>

-----------------------------------------------------------------------------
(* The reader's turn: ifd_handle_xchg_state, ifd_xchg_idle.                *)

Fresh == [ns |-> 0, nr |-> 0, tx_cmpl |-> TRUE, rx_cmpl |-> TRUE, pcb |-> I(0, FALSE),
          ack_type |-> "RESYNC", ack_info |-> 0, level |-> RETRNS, retry |-> 0,
          tx |-> 0, rx |-> 0, nc |-> 0, tx_blk |-> 0, rx_blk |-> 0, ifsc |-> 0, ifsd |-> 0,
          ack_ifsc |-> 0, saved_buf |-> <<>>, buf |-> Framing(IFD_BUF_SIZE),
          conf_ifsc |-> IFD_T1_IFS_IMPLICIT, conf_ifsd |-> IFD_T1_IFS_IMPLICIT, bug |-> FALSE]

NewCard == [ns |-> 0, nr |-> 0, got |-> <<>>, last |-> "R", resp |-> 0, pos |-> 0, piece |-> 0,
            ifsd |-> IFD_T1_IFS_IMPLICIT, req |-> "none", info |-> 0]

Init == /\ \E v \in CardIfs : ifd = [Fresh EXCEPT !.conf_ifsc = v]
        /\ phase = "idle" /\ wire = NoBlock /\ card = NewCard
        /\ faults = 0 /\ requests = 0

(* ifd_t1_xchg_init                                                        *)
ifd_t1_xchg_init(e, nc) ==
    ifd_t1_resync_reset(
        [e EXCEPT !.tx_blk = 0, !.rx_blk = 0, !.tx = 0, !.rx = 0, !.ifsc = 0, !.ifsd = 0,
                  !.tx_cmpl = FALSE, !.rx_cmpl = FALSE, !.saved_buf = <<>>, !.nc = nc, !.pcb = I(0, FALSE)])

Send(e) == ifd' = e /\ wire' = Sent(e) /\ phase' = "card"

(* The host has put a command into the buffer.                             *)
ifd_xchg_block(nc) ==
    /\ phase \in {"idle", "done"}
    /\ Send(ifd_t1_xchg_aval(ifd_t1_xchg_init([ifd EXCEPT !.buf = Write(Fresh.buf, 0, Command(nc))], nc)))
    /\ card' = [card EXCEPT !.got = <<>>]
    /\ UNCHANGED <<faults, requests>>

Proceed(e) ==
    IF e.rx_cmpl THEN ifd' = e /\ phase' = "done" /\ wire' = NoBlock
    ELSE Send(ifd_t1_xchg_aval(e))

(* At the last level SCS_ERR_HW_ERROR ends the exchange, and the slot is   *)
(* deactivated.                                                            *)
Fail(e) ==
    IF e.level = WRESET THEN ifd' = e /\ phase' = "failed" /\ wire' = NoBlock
    ELSE Proceed(ifd_t1_error_handling(e))

(* ifd_t1_ne_expire, of a block of len bytes.                              *)
Fits(e, len) == len <= e.ifsd

Stored(e, bytes) == [e EXCEPT !.buf = Write(@, e.rx_blk, bytes)]

ifd_t1_xchg_cmpl ==
    /\ phase = "ifd"
    /\ LET e == Stored(ifd, Framed(wire.inf)) IN
       CASE ~Fits(ifd, Len(wire.inf)) -> Fail(Stored(ifd, Framing(IFD_T1_PROLOGUE_SIZE)))
         [] Fits(ifd, Len(wire.inf)) /\ ~ifd_t1_block_valid(ifd, wire) -> Fail(e)
         [] OTHER -> Proceed(ifd_t1_error_free_operation(e, wire))
    /\ UNCHANGED <<card, faults, requests>>

(* The waiting time expires, or a block that is as long as it may be has a *)
(* parity error or the wrong checksum.                                     *)
Damaged ==
    /\ phase \in {"card", "ifd"} /\ faults < MaxFaults
    /\ faults' = faults + 1
    /\ \/ Fail(ifd)
       \/ Fail(Stored(ifd, Framing(IFD_T1_PROLOGUE_SIZE + ifd.ifsd + Epilogue)))
    /\ UNCHANGED <<card, requests>>

(* The slot is powered again: ifd_t1_atr_parse, ifd_t1_conf_param.         *)
ifd_t1_conf_param ==
    /\ phase = "failed"
    /\ \E v \in CardIfs :
          ifd' = __ifd_t1_xfr_resync([ifd EXCEPT !.conf_ifsc = v, !.tx_cmpl = TRUE, !.rx_cmpl = TRUE])
    /\ card' = NewCard
    /\ phase' = "idle"
    /\ UNCHANGED <<wire, faults, requests>>

Next == \/ \E nc \in Commands : ifd_xchg_block(nc)
        \/ CardI \/ CardR \/ CardS
        \/ Garbled \/ Damaged
        \/ ifd_t1_xchg_cmpl
        \/ ifd_t1_conf_param

Spec == Init /\ [][Next]_vars

(* The card answers, with a block or with silence, and the waiting timer   *)
(* of the UART wakes the reader.  Each of the two is always able to take   *)
(* its turn, so that this is weak fairness of both.                        *)
CardTurn == CardI \/ CardR \/ CardS
Fairness == /\ <>[](phase = "card") => []<><<CardTurn>>_vars
            /\ <>[](phase = "ifd") => []<><<ifd_t1_xchg_cmpl>>_vars

FairSpec == Spec /\ Fairness

-----------------------------------------------------------------------------
(* The card receives the command of the host, each byte once and in order, *)
(* however often a block is garbled, refused or sent again, and whatever   *)
(* the reader has moved, overwritten and restored in its one buffer in     *)
(* between (ifd_t1_save_buffer, ifd_t1_restore_buffer).                    *)
CommandDelivered ==
    /\ card.got = SubSeq(Command(ifd.nc), 1, Len(card.got))
    /\ phase = "done" => card.got = Command(ifd.nc)

(* When ifd_t1_xchg_cmpl reports success the buffer holds the whole        *)
(* response the card gave, without a gap, a repetition or a byte of the    *)
(* command or of a block.                                                  *)
ResponseIntact ==
    phase = "done" => Read(ifd.buf, 0, ifd.rx) = Response(card.resp)

(* A block that is received, and not refused for its length, lies in the   *)
(* buffer from its prologue to its checksum: ifd_t1_save_buffer has placed *)
(* rx_blk so that it does.  ifd_xchg_sync stores what comes in unchecked.  *)
BlockInBuffer ==
    phase = "ifd" /\ Fits(ifd, Len(wire.inf)) =>
        ifd.rx_blk + Len(Framed(wire.inf)) <= IFD_BUF_SIZE

(* No BUG_ON on a length or an offset in ifd_t1.c fires: what is saved     *)
(* fits into saved_buf, every block that is built fits into the buffer,    *)
(* and no more is acknowledged than there is.                              *)
NoBug == ~ifd.bug

(* An exchange ends, with the response or, after the retries of both       *)
(* levels of ifd_t1_error_handling, with SCS_ERR_HW_ERROR.                 *)
EveryExchangeEnds == phase \in {"card", "ifd"} ~> phase \in {"done", "failed"}
=============================================================================
