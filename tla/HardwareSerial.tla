--------------------------- MODULE HardwareSerial ---------------------------
(***************************************************************************)
(* One hardware UART: the sketch calling HardwareSerial's methods, the two *)
(* interrupt handlers, and the USART they share.                           *)
(*                                                                         *)
(* The sketch is one sequential process.  pc names the next volatile       *)
(* access of the method it is in; between two accesses an interrupt        *)
(* handler may run.  A handler runs to completion, because interrupts are  *)
(* off inside it.                                                          *)
(***************************************************************************)
EXTENDS Naturals, Sequences

CONSTANTS
  Byte,         \* the values of a byte
  Sent,         \* those the sketch writes
  Received,     \* those that arrive
  Zero,         \* the byte static storage starts with
  None,         \* an empty hardware register or an unused local
  RxSize,       \* SERIAL_RX_BUFFER_SIZE
  TxSize,       \* SERIAL_TX_BUFFER_SIZE
  WholeFrames   \* how many frames the handlers of other devices can take
                \* between two accesses of the sketch, 0: they take no time

(* The two windows of write(): between the store to UDR and the clearing   *)
(* of TXC, and between the store to the head and the setting of UDRIE.     *)
Window == { "w_txc", "w_udrie" }

(* If no other handler delays those of this UART, a pending one runs       *)
(* before the sketch's next access.                                        *)
PromptIsr == WholeFrames = 0

ASSUME SerialAssumption ==
  /\ RxSize \in Nat \ {0, 1}
  /\ TxSize \in Nat \ {0, 1}
  /\ WholeFrames \in Nat
  /\ Sent \subseteq Byte /\ Received \subseteq Byte
  /\ Zero \in Byte
  /\ None \notin Byte

VARIABLES
  rxBuf, rxHead, rxTail,  \* the receive ring
  rxDr,                   \* received byte waiting in UDR (RXC is set), or None
  rxBad,                  \* UPE: that byte has a parity error
  txBuf, txHead, txTail,  \* the transmit ring
  udr,                    \* byte waiting in the transmit half of UDR (UDRE is
                          \* clear), or None
  shift,                  \* byte in the transmit shift register, or None
  txc,                    \* TXC: transmit complete
  udrie,                  \* UDRIE: data-register-empty interrupt enabled
  enabled,                \* RXEN, TXEN and RXCIE, which change together
  written,                \* _written
  sregI,                  \* the global interrupt enable bit of SREG
  pc,                     \* the sketch's next access
  op,                     \* flush or end, for the code the two share
  c, i, n,                \* locals: the byte, the next index, a result
  frames                  \* frames that ended since a window of write() opened

rxVars  == << rxBuf, rxHead, rxTail, rxDr, rxBad >>
txRing  == << txBuf, txHead, txTail >>
txLine  == << udr, shift, txc >>
txVars  == << txRing, txLine, udrie >>
ctlVars == << enabled, written, sregI >>
locals  == << op, c, i, n >>
vars    == << rxVars, txVars, ctlVars, pc, locals, frames >>

(* Bytes in a ring of size N from its tail up to, not including, its head. *)
Ring(buf, tail, head, N) ==
  [k \in 1 .. (N + head - tail) % N |-> buf[(tail + k - 1) % N]]

AdvanceUnwrapped(index, N) == index + 1
Advance(index, N) == (index + 1) % N

Reg(r) == IF r = None THEN << >> ELSE << r >>

RxQueue  == Ring(rxBuf, rxTail, rxHead, RxSize)
TxQueue  == Ring(txBuf, txTail, txHead, TxSize)
(* Every byte write() has accepted and the line has not finished sending. *)
InFlight == Reg(shift) \o Reg(udr) \o TxQueue

Udre == udr = None

PcValue == { "idle", "w_check", "w_udre", "w_udr", "w_txc", "w_next", "w_wait",
             "w_store", "w_head", "w_udrie", "f_test", "f_poll", "f_done",
             "e_disable", "e_clear", "r_test", "r_fetch", "r_tail",
             "av_ret", "aw_ret" }
TypeOK ==
  /\ rxBuf \in [0 .. RxSize - 1 -> Byte]
  /\ rxHead \in 0 .. RxSize - 1 /\ rxTail \in 0 .. RxSize - 1
  /\ rxDr \in Byte \cup {None} /\ rxBad \in BOOLEAN
  /\ txBuf \in [0 .. TxSize - 1 -> Byte]
  /\ txHead \in 0 .. TxSize - 1 /\ txTail \in 0 .. TxSize - 1
  /\ udr \in Byte \cup {None} /\ shift \in Byte \cup {None}
  /\ txc \in BOOLEAN /\ udrie \in BOOLEAN
  /\ enabled \in BOOLEAN /\ written \in BOOLEAN /\ sregI \in BOOLEAN
  /\ pc \in PcValue /\ op \in {"none", "flush", "end"}
  /\ c \in Byte \cup {None} /\ i \in 0 .. TxSize - 1 /\ n \in Nat
  /\ frames \in Nat /\ (pc = "w_udrie" => frames <= WholeFrames + 1)

Init ==
  /\ rxBuf = [k \in 0 .. RxSize - 1 |-> Zero] /\ rxHead = 0 /\ rxTail = 0
  /\ rxDr = None /\ rxBad = FALSE
  /\ txBuf = [k \in 0 .. TxSize - 1 |-> Zero] /\ txHead = 0 /\ txTail = 0
  /\ udr = None /\ shift = None /\ txc = FALSE /\ udrie = FALSE
  /\ enabled = FALSE /\ written = FALSE /\ sregI = TRUE
  /\ pc = "idle" /\ op = "none" /\ c = None /\ i = 0 /\ n = 0 /\ frames = 0

-----------------------------------------------------------------------------
(* The USART. *)

(* A byte written to UDR goes straight on to an idle shift register. *)
LoadUdr(b) ==
  IF shift = None THEN shift' = b /\ udr' = None
                  ELSE udr' = b /\ shift' = shift

(* The frame on the line began inside the window: in the first one, that   *)
(* of the byte just stored; in the second, any but the first to end.       *)
BeganInside ==
  \/ pc = "w_txc" /\ Udre
  \/ pc = "w_udrie" /\ frames > 0

(* A frame ends.  TXC is set only if no further byte is waiting.  One that *)
(* began before a window may end in it at any time; for a whole one the    *)
(* sketch must be kept there by other handlers, with interrupts on.        *)
FrameDone ==
  /\ shift # None
  /\ BeganInside => sregI /\ 0 < WholeFrames /\ frames <= WholeFrames
  /\ frames' = IF pc \in Window THEN frames + 1 ELSE 0
  /\ shift' = udr
  /\ udr' = None
  /\ txc' = (txc \/ Udre)
  /\ UNCHANGED << rxVars, txRing, udrie, ctlVars, pc, locals >>

(* A byte arrives on the receive line, intact or not. *)
ByteArrives(b, bad) ==
  /\ enabled /\ rxDr = None
  /\ rxDr' = b
  /\ rxBad' = bad
  /\ UNCHANGED << rxBuf, rxHead, rxTail, txVars, ctlVars, pc, locals, frames >>

-----------------------------------------------------------------------------
(* The interrupt handlers. *)

RxPending == enabled /\ rxDr # None
TxPending == udrie /\ Udre

(* A byte is thrown away for its parity, or because it would fill the ring *)
(* and make it look empty.                                                 *)
RxDropsNeverFull == rxBad
RxDrops == rxBad \/ Advance(rxHead, RxSize) = rxTail

RxCompleteIrq ==
  /\ sregI /\ RxPending
  /\ IF RxDrops
       THEN UNCHANGED << rxBuf, rxHead >>
       ELSE /\ rxBuf' = [rxBuf EXCEPT ![rxHead] = rxDr]
            /\ rxHead' = Advance(rxHead, RxSize)
  /\ rxDr' = None
  /\ rxBad' = FALSE
  /\ UNCHANGED << rxTail, txVars, ctlVars, pc, locals, frames >>

(* The body of _tx_udr_empty_irq, whoever calls it.  Interrupts are off or  *)
(* the caller is the handler, so nothing of the UART comes in between.      *)
KeepUdrieAlways(tail) == TRUE
KeepUdrie(tail) == txHead # tail

TxUdrEmptyIrq ==
  LET tail == Advance(txTail, TxSize)
  IN  /\ LoadUdr(txBuf[txTail])
      /\ txTail' = tail
      /\ txc' = FALSE
      /\ udrie' = (udrie /\ KeepUdrie(tail))
      /\ UNCHANGED << txBuf, txHead >>

TxInterrupt ==
  /\ sregI /\ TxPending
  /\ TxUdrEmptyIrq
  /\ UNCHANGED << rxVars, ctlVars, pc, locals, frames >>

-----------------------------------------------------------------------------
(* The sketch.  A pending handler runs before its next access, unless some *)
(* other handler delays it.                                                *)

Main(from) ==
  /\ pc = from
  /\ (PromptIsr /\ sregI) => ~(RxPending \/ TxPending)

Goto(to) ==
  /\ pc' = to
  /\ frames' = 0

(* begin() while the port is closed: a sketch ends a port before it begins *)
(* it again.  With the port closed no handler of this UART can run.         *)
Begin ==
  /\ Main("idle") /\ ~enabled
  /\ enabled' = TRUE
  /\ written' = FALSE
  /\ udrie' = FALSE
  /\ Goto("idle")
  /\ UNCHANGED << rxVars, txRing, txLine, sregI, locals >>

(* noInterrupts() and interrupts(), between two calls. *)
SetInterrupts(on) ==
  /\ Main("idle") /\ sregI # on
  /\ sregI' = on
  /\ Goto("idle")
  /\ UNCHANGED << rxVars, txVars, enabled, written, locals >>

(* write(c) *)
WriteCall(b) ==
  /\ Main("idle") /\ enabled
  /\ written' = TRUE
  /\ c' = b
  /\ Goto("w_check")
  /\ UNCHANGED << rxVars, txVars, enabled, sregI, op, i, n >>

(* The shortcut past the ring: head against tail first, then UDRE. *)
RingIsBypassedAlways == TRUE
RingIsBypassed == txHead = txTail

WriteCheck ==
  /\ Main("w_check")
  /\ Goto(IF RingIsBypassed THEN "w_udre" ELSE "w_next")
  /\ UNCHANGED << rxVars, txVars, ctlVars, locals >>

WriteUdre ==
  /\ Main("w_udre")
  /\ Goto(IF Udre THEN "w_udr" ELSE "w_next")
  /\ UNCHANGED << rxVars, txVars, ctlVars, locals >>

WriteUdr ==
  /\ Main("w_udr")
  /\ LoadUdr(c)
  /\ Goto("w_txc")
  /\ UNCHANGED << rxVars, txRing, txc, udrie, ctlVars, locals >>

WriteTxc ==
  /\ Main("w_txc")
  /\ txc' = FALSE
  /\ c' = None
  /\ Goto("idle")
  /\ UNCHANGED << rxVars, txRing, udr, shift, udrie, ctlVars, op, i, n >>

(* The way through the ring. *)
WriteNext ==
  /\ Main("w_next")
  /\ i' = Advance(txHead, TxSize)
  /\ Goto("w_wait")
  /\ UNCHANGED << rxVars, txVars, ctlVars, op, c, n >>

(* Spins while the ring is full; with interrupts off it plays the handler. *)
WriteMayPollNever == FALSE
WriteMayPoll == ~sregI /\ Udre

WriteWait ==
  /\ Main("w_wait")
  /\ \/ /\ i # txTail
        /\ Goto("w_store")
        /\ UNCHANGED txVars
     \/ /\ i = txTail /\ WriteMayPoll
        /\ TxUdrEmptyIrq
        /\ Goto("w_wait")
  /\ UNCHANGED << rxVars, ctlVars, locals >>

WriteStore ==
  /\ Main("w_store")
  /\ txBuf' = [txBuf EXCEPT ![txHead] = c]
  /\ Goto("w_head")
  /\ UNCHANGED << rxVars, txHead, txTail, txLine, udrie, ctlVars, locals >>

WriteHead ==
  /\ Main("w_head")
  /\ txHead' = i
  /\ Goto("w_udrie")
  /\ UNCHANGED << rxVars, txBuf, txTail, txLine, udrie, ctlVars, locals >>

WriteUdrie ==
  /\ Main("w_udrie")
  /\ udrie' = TRUE
  /\ c' = None /\ i' = 0
  /\ Goto("idle")
  /\ UNCHANGED << rxVars, txRing, txLine, ctlVars, op, n >>

-----------------------------------------------------------------------------
(* flush() and end() *)

FlushCall ==
  /\ Main("idle") /\ enabled
  /\ op' = "flush"
  /\ Goto("f_test")
  /\ UNCHANGED << rxVars, txVars, ctlVars, c, i, n >>

EndCall ==
  /\ Main("idle") /\ enabled
  /\ op' = "end"
  /\ Goto("f_test")
  /\ UNCHANGED << rxVars, txVars, ctlVars, c, i, n >>

(* Where flush() leaves to: end() goes on, a bare flush() returns. *)
FlushReturn == IF op = "end" THEN "e_disable" ELSE "idle"

FlushTest ==
  /\ Main("f_test")
  /\ IF written
       THEN Goto("f_poll") /\ op' = op
       ELSE Goto(FlushReturn) /\ op' = "none"
  /\ UNCHANGED << rxVars, txVars, ctlVars, c, i, n >>

(* The loop ends when nothing is queued and the last frame has gone.  With *)
(* interrupts off it plays the handler.                                    *)
FlushIdleUdrieOnly == ~udrie
FlushIdle == ~udrie /\ txc
FlushMayPollNever == FALSE
FlushMayPoll == ~sregI /\ TxPending

FlushPoll ==
  /\ Main("f_poll")
  /\ \/ /\ FlushIdle
        /\ Goto("f_done")
        /\ UNCHANGED txVars
     \/ /\ ~FlushIdle /\ FlushMayPoll
        /\ TxUdrEmptyIrq
        /\ Goto("f_poll")
  /\ UNCHANGED << rxVars, ctlVars, locals >>

FlushDone ==
  /\ Main("f_done")
  /\ op' = "none"
  /\ Goto(FlushReturn)
  /\ UNCHANGED << rxVars, txVars, ctlVars, c, i, n >>

(* Clearing RXEN empties the receiver, so no handler runs after it. *)
EndDisable ==
  /\ Main("e_disable")
  /\ enabled' = FALSE
  /\ rxDr' = None /\ rxBad' = FALSE
  /\ udrie' = FALSE
  /\ Goto("e_clear")
  /\ UNCHANGED << rxBuf, rxHead, rxTail, txRing, txLine, written, sregI, locals >>

HeadAfterEndKept == rxHead
HeadAfterEnd == rxTail

EndClear ==
  /\ Main("e_clear")
  /\ rxHead' = HeadAfterEnd
  /\ Goto("idle")
  /\ UNCHANGED << rxBuf, rxTail, rxDr, rxBad, txVars, ctlVars, locals >>

-----------------------------------------------------------------------------
(* read(), available() and availableForWrite() *)

ReadCall ==
  /\ Main("idle")
  /\ Goto("r_test")
  /\ UNCHANGED << rxVars, txVars, ctlVars, locals >>

ReadTest ==
  /\ Main("r_test")
  /\ Goto(IF rxHead = rxTail THEN "idle" ELSE "r_fetch")
  /\ UNCHANGED << rxVars, txVars, ctlVars, locals >>

ReadFetchLate ==
  /\ Main("r_fetch")
  /\ c' = rxBuf[Advance(rxTail, RxSize)]
  /\ Goto("r_tail")
  /\ UNCHANGED << rxVars, txVars, ctlVars, op, i, n >>

ReadFetch ==
  /\ Main("r_fetch")
  /\ c' = rxBuf[rxTail]
  /\ Goto("r_tail")
  /\ UNCHANGED << rxVars, txVars, ctlVars, op, i, n >>

ReadTail ==
  /\ Main("r_tail")
  /\ rxTail' = Advance(rxTail, RxSize)
  /\ c' = None
  /\ Goto("idle")
  /\ UNCHANGED << rxBuf, rxHead, rxDr, rxBad, txVars, ctlVars, op, i, n >>

(* available(): the head is read once; the tail is the sketch's own. *)
CountUnreadModTooWide(head, tail) ==
  IF head >= tail THEN head - tail ELSE (RxSize + 1 + head - tail) % (RxSize + 1)
CountUnread(head, tail) == (RxSize + head - tail) % RxSize

AvailableCall ==
  /\ Main("idle")
  /\ n' = CountUnread(rxHead, rxTail)
  /\ Goto("av_ret")
  /\ UNCHANGED << rxVars, txVars, ctlVars, op, c, i >>

Free(head, tail) ==
  IF head >= tail THEN TxSize - 1 - head + tail ELSE tail - head - 1

(* availableForWrite(): the tail is read once; the head is the sketch's. *)
AvailableForWriteCall ==
  /\ Main("idle")
  /\ n' = Free(txHead, txTail)
  /\ Goto("aw_ret")
  /\ UNCHANGED << rxVars, txVars, ctlVars, op, c, i >>

(* Either hands its result back. *)
ResultReturn ==
  /\ \E at \in {"av_ret", "aw_ret"} : Main(at)
  /\ n' = 0
  /\ Goto("idle")
  /\ UNCHANGED << rxVars, txVars, ctlVars, op, c, i >>

-----------------------------------------------------------------------------
Calls ==
  \/ Begin \/ FlushCall \/ EndCall \/ ReadCall
  \/ AvailableCall \/ AvailableForWriteCall
  \/ \E on \in BOOLEAN : SetInterrupts(on)
  \/ \E b \in Sent : WriteCall(b)

(* A method that has been called goes on. *)
Proceed ==
  \/ WriteCheck \/ WriteUdre \/ WriteUdr \/ WriteTxc
  \/ WriteNext \/ WriteWait \/ WriteStore \/ WriteHead \/ WriteUdrie
  \/ FlushTest \/ FlushPoll \/ FlushDone \/ EndDisable \/ EndClear
  \/ ReadTest \/ ReadFetch \/ ReadTail \/ ResultReturn

Handlers == RxCompleteIrq \/ TxInterrupt

Line ==
  \/ FrameDone
  \/ \E b \in Received, bad \in BOOLEAN : ByteArrives(b, bad)

Next == Calls \/ Proceed \/ Handlers \/ Line

Spec == Init /\ [][Next]_vars

(* A pending handler runs when interrupts are on, and the line finishes    *)
(* its frames.  A called method runs on: fairness is strong because        *)
(* handlers keep interrupting it, yet a handler is done long before the    *)
(* next byte of a line is.  Nothing makes the sketch call a method, nor a  *)
(* byte arrive.                                                            *)
FairSpec ==
  /\ Spec
  /\ SF_vars(Proceed)
  /\ WF_vars(TxInterrupt) /\ WF_vars(RxCompleteIrq) /\ WF_vars(FrameDone)

-----------------------------------------------------------------------------
(* Properties *)

Rx == INSTANCE ByteFifo WITH Cap <- RxSize - 1, q <- RxQueue
Tx == INSTANCE ByteFifo WITH Cap <- TxSize + 1, q <- InFlight

(* The receive ring is a first-in first-out queue of RxSize - 1 bytes: the *)
(* handler storing at the head and the sketch reading at the tail never    *)
(* overwrite, skip or repeat a byte (HardwareSerial::_rx_complete_irq      *)
(* against read() and end()).                                              *)
RxFifo == Rx!Clearable

(* Ring, data register and shift register together are a first-in first-   *)
(* out queue: whatever write() accepts leaves on the line once, in order,  *)
(* whichever of its two ways it took (write() against                      *)
(* _tx_udr_empty_irq()).                                                   *)
TxFifo == Tx!Lossless

(* read() returns the oldest unread byte, although it fetches the byte and *)
(* gives up its slot in two steps.                                         *)
ReadReturnsOldest ==
  [][ (pc = "r_tail" /\ pc' = "idle")
        => /\ c = Head(RxQueue)
           /\ RxQueue' = Tail(RxQueue) ]_vars

(* "If interrupts are enabled, there must be more data in the output       *)
(* buffer": the comment that opens _tx_udr_empty_irq.                      *)
TxIrqHasData == TxPending => txHead # txTail

(* When flush() leaves its loop, nothing is queued any more and the last   *)
(* frame has left the shift register.                                      *)
FlushDrains == pc = "f_done" => InFlight = << >>

(* end() leaves a port that holds nothing in either direction.             *)
ClosedIsEmpty == (~enabled /\ pc = "idle") => RxQueue = << >> /\ InFlight = << >>

(* What available() returns can be read, however the handler interleaves,  *)
(* and what availableForWrite() returns is free.                           *)
AvailableIsHonest ==
  /\ pc = "av_ret" => n <= Len(RxQueue)
  /\ pc = "aw_ret" => n <= TxSize - 1 - Len(TxQueue)

(* A write() that finds the ring full gets its slot, also with interrupts  *)
(* off.                                                                    *)
WriteReturns == pc = "w_wait" ~> pc = "w_store"

(* flush() "waits for transmission of outgoing data": once everything is   *)
(* sent it returns, also with interrupts off.                              *)
FlushReturns == pc = "f_poll" ~> pc = "f_done"

(* Both, for a sketch that waits for the transmit ring.                    *)
CallsReturn == WriteReturns /\ FlushReturns

=============================================================================
