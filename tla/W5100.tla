------------------------------- MODULE W5100 --------------------------------
(***************************************************************************)
(* The data path of one socket of the W5100: send, recv, bufferData and    *)
(* sendUDP of socket.cpp over the chip's two rings, and EthernetUDP's      *)
(* framing of datagrams.                                                   *)
(*                                                                         *)
(* The chip is external and moves on between any two of the processor's    *)
(* accesses.  Its 16-bit registers are read a byte at a time.  It takes a  *)
(* new TX_WR into account, and shows it, when it is told to SEND, and a    *)
(* new RX_RD when it is told to RECV; socket.cpp relies on both.           *)
(***************************************************************************)
EXTENDS Integers, Sequences

CONSTANTS
  SSize, RSize,     \* SSIZE and RSIZE, powers of two
  PtrMod,           \* the pointers count modulo this, a multiple of both
  Base,             \* the base of the two digits a size is read in
  Payload,          \* the bytes that are sent, numbers
  Writes,           \* what the sketch writes at a time
  Reads,            \* how much it reads at a time
  Datagrams,        \* what other nodes send as UDP
  Segments,         \* what arrives by TCP at a time
  MaxDatagram       \* bound: the longest datagram the sketch builds

ASSUME W5100Assumption ==
  /\ { SSize, RSize, Base } \subseteq Nat \ {0} /\ PtrMod \in Nat
  /\ PtrMod % SSize = 0 /\ PtrMod % RSize = 0 /\ PtrMod > SSize /\ PtrMod > RSize
  /\ Payload \subseteq Nat /\ Writes \subseteq Seq(Payload) /\ Reads \subseteq Nat \ {0}
  /\ Datagrams \cup Segments \subseteq Seq(Payload)
  /\ \A d \in Datagrams : Len(d) \in Payload
  /\ MaxDatagram \in SSize .. PtrMod - 1

VARIABLES
  proto, link,       \* protocol and status of the socket
  txMem, txWr, txRd,    \* transmit memory; pointers as the registers show them
  txNew,            \* TX_WR as written, until the next SEND
  rxMem, rxRd, rxWr,    \* receive memory; RX_RD as written, end of the data
  rxFree,           \* where the chip thinks the data begins
  sendOk, noAnswer, \* SEND_OK and TIMEOUT in Sn_IR
  sockPc, op,       \* where the sketch is, in which call
  hi, val1, val,    \* the double read: high digit, first and second value
  offset,           \* _offset: what bufferData has put behind TX_WR
  remaining,        \* _remaining of the datagram being read
  txQ, rxQ          \* accepted and not yet sent, arrived and not yet read

txVars   == << txMem, txWr, txRd, txNew, txQ, offset >>
rxVars   == << rxMem, rxRd, rxWr, rxFree, rxQ, remaining >>
sizeVars == << hi, val1, val >>
w5100Vars == << proto, link, txVars, rxVars, sendOk, noAnswer, sockPc, op, sizeVars >>

Dist(a, b) == (a - b) % PtrMod
FSR == SSize - Dist(txWr, txRd)
RSR == Dist(rxWr, rxFree)
Connected == link \in { "ESTABLISHED", "CLOSE_WAIT" }

(***************************************************************************)
(* The rings.                                                              *)
(***************************************************************************)
\* data in ring mem of the given size from pointer ptr on, wrapped.
Stored(mem, size, ptr, data) ==
  [a \in 0 .. size - 1 |->
     LET k == (a - ptr) % size IN IF k < Len(data) THEN data[k + 1] ELSE mem[a]]
Fetched(mem, size, ptr, num) == [k \in 1 .. num |-> mem[(ptr + k - 1) % size]]

(***************************************************************************)
(* Reading a size that the chip may change meanwhile: getTXFreeSize and    *)
(* getRXReceivedSize, which read it until two reads agree, or it is zero.  *)
(***************************************************************************)
Sized == IF op.name \in { "send", "buffer" } THEN FSR ELSE RSR

ReadSize(pc) == /\ sockPc' = pc /\ hi' = 0 /\ val1' = 0 /\ val' = 0

ReadHigh ==
  /\ sockPc \in { "high1", "high2" }
  /\ hi' = Sized \div Base
  /\ sockPc' = IF sockPc = "high1" THEN "low1" ELSE "low2"
  /\ UNCHANGED << proto, link, txVars, rxVars, sendOk, noAnswer, op, val1, val >>

ReadLow1 ==
  /\ sockPc = "low1"
  /\ hi' = 0
  /\ val1' = (hi * Base) + (Sized % Base)
  /\ sockPc' = IF val1' # 0 THEN "high2" ELSE IF val = 0 THEN "sized" ELSE "high1"
  /\ UNCHANGED << proto, link, txVars, rxVars, sendOk, noAnswer, op, val >>

ReadLow2 ==
  /\ sockPc = "low2"
  /\ hi' = 0
  /\ val' = (hi * Base) + (Sized % Base)
  /\ sockPc' = IF val' = val1 THEN "sized" ELSE "high1"
  /\ UNCHANGED << proto, link, txVars, rxVars, sendOk, noAnswer, op, val1 >>

(***************************************************************************)
(* The calls.                                                              *)
(***************************************************************************)
CallBegins(c) ==
  /\ sockPc = "idle"
  /\ op' = c
  /\ ReadSize("high1")
  /\ UNCHANGED << proto, link, txVars, rxVars, sendOk, noAnswer >>

CallSend == \E d \in Writes : proto = "TCP" /\ CallBegins([name |-> "send", data |-> d])
CallRecv == \E num \in Reads : (proto = "UDP" => remaining > 0) /\ CallBegins([name |-> "recv", len |-> num])
CallParse == proto = "UDP" /\ CallBegins([name |-> "parse"])
CallBuffer ==
  \E d \in Writes : /\ proto = "UDP" /\ offset + Len(d) <= MaxDatagram
                    /\ CallBegins([name |-> "buffer", data |-> d])

CallEnds == sockPc' = "idle" /\ op' = [name |-> "none"] /\ hi' = 0 /\ val1' = 0 /\ val' = 0

\* Mutant: what was buffered before is overwritten.
PlaceAtStart(data, num, off) ==
  /\ txMem' = Stored(txMem, SSize, txWr, SubSeq(data, 1, num))
  /\ txNew' = (txWr + off + num) % PtrMod
  /\ txQ' = txQ \o SubSeq(data, 1, num)

\* send_data_processing_offset: num bytes of data at TX_WR + off.
Place(data, num, off) ==
  /\ txMem' = Stored(txMem, SSize, txWr + off, SubSeq(data, 1, num))
  /\ txNew' = (txWr + off + num) % PtrMod
  /\ txQ' = txQ \o SubSeq(data, 1, num)

\* send: enough room, or the connection is gone and nothing is sent.
Accepted == IF Len(op.data) > SSize THEN SSize ELSE Len(op.data)

SendAgain ==
  /\ sockPc = "sized" /\ op.name = "send" /\ Connected /\ val < Accepted
  /\ ReadSize("high1")
  /\ UNCHANGED << proto, link, txVars, rxVars, sendOk, noAnswer, op >>

SendCommand ==
  /\ sockPc = "sized" /\ op.name = "send" /\ (Connected => val >= Accepted)
  /\ Place(op.data, IF Connected THEN Accepted ELSE 0, 0)
  /\ txWr' = txNew'
  /\ sockPc' = "sending"
  /\ UNCHANGED << proto, link, txRd, offset, rxVars, sendOk, noAnswer, op, sizeVars >>

\* The end of send and sendUDP.
SendDone ==
  /\ sockPc = "sending"
  /\ \/ sendOk /\ sendOk' = FALSE /\ UNCHANGED noAnswer
     \/ ~sendOk /\ proto = "TCP" /\ link = "CLOSED" /\ UNCHANGED << sendOk, noAnswer >>
     \/ ~sendOk /\ proto = "UDP" /\ noAnswer /\ noAnswer' = FALSE /\ UNCHANGED sendOk
  /\ CallEnds
  /\ UNCHANGED << proto, link, txVars, rxVars >>

\* Nothing is on its way while a datagram is built: the size that bufferData
\* reads again, when there is too little, is still the same.  It knows nothing
\* of what is already behind TX_WR: pieces that each fit may together be more
\* than the ring holds.
Buffer ==
  /\ sockPc = "sized" /\ op.name = "buffer"
  /\ LET num == IF Len(op.data) > val THEN val ELSE Len(op.data) IN
       Place(op.data, num, offset) /\ offset' = offset + num
  /\ CallEnds
  /\ UNCHANGED << proto, link, txWr, txRd, rxVars, sendOk, noAnswer >>

EndPacket ==
  /\ sockPc = "idle" /\ proto = "UDP" /\ offset > 0
  /\ txWr' = txNew
  /\ offset' = 0        \* by the next beginPacket
  /\ sockPc' = "sending" /\ op' = [name |-> "sendUDP"]
  /\ UNCHANGED << proto, link, txMem, txRd, txNew, txQ, rxVars, sendOk, noAnswer, sizeVars >>

\* recv_data_processing and the RECV command.
TakeBytes(num) ==
  /\ rxRd' = (rxRd + num) % PtrMod
  /\ rxFree' = rxRd'
  /\ rxQ' = SubSeq(rxQ, num + 1, Len(rxQ))
  /\ UNCHANGED << rxMem, rxWr >>

AtMost(num) == IF val < num THEN val ELSE num

Recv ==
  /\ sockPc = "sized" /\ op.name = "recv"
  /\ LET num == AtMost(IF proto = "UDP" /\ remaining < op.len THEN remaining ELSE op.len) IN
       TakeBytes(num) /\ remaining' = IF proto = "UDP" THEN remaining - num ELSE remaining
  /\ CallEnds
  /\ UNCHANGED << proto, link, txVars, sendOk, noAnswer >>

\* parsePacket: what is left of the last datagram goes first, a byte a time.
Discard ==
  /\ sockPc = "sized" /\ op.name = "parse" /\ remaining > 0
  /\ TakeBytes(AtMost(1)) /\ remaining' = remaining - AtMost(1)
  /\ ReadSize("high1")
  /\ UNCHANGED << proto, link, txVars, sendOk, noAnswer, op >>

Parse ==
  /\ sockPc = "sized" /\ op.name = "parse" /\ remaining = 0
  /\ TakeBytes(AtMost(1))
  /\ remaining' = IF val > 0 THEN Fetched(rxMem, RSize, rxRd, 1)[1] ELSE 0
  /\ CallEnds
  /\ UNCHANGED << proto, link, txVars, sendOk, noAnswer >>

(***************************************************************************)
(* The chip and the other side.                                            *)
(***************************************************************************)
Pending == Dist(txWr, txRd)

\* TCP sends some, UDP the whole datagram.
Deliver ==
  /\ proto = "TCP" => Connected
  /\ \E num \in IF proto = "TCP" THEN 1 .. Pending ELSE { Pending } \ {0} :
       /\ txRd' = (txRd + num) % PtrMod
       /\ txQ' = SubSeq(txQ, num + 1, Len(txQ))
       /\ sendOk' = (sendOk \/ (num = Pending /\ sockPc = "sending"))
  /\ UNCHANGED << proto, link, txMem, txWr, txNew, offset, rxVars, noAnswer, sockPc, op, sizeVars >>

\* By TCP it may report so before the other side has acknowledged it all.
ReportSent ==
  /\ proto = "TCP" /\ Connected /\ sockPc = "sending" /\ ~sendOk /\ Pending > 0
  /\ sendOk' = TRUE
  /\ UNCHANGED << proto, link, txVars, rxVars, noAnswer, sockPc, op, sizeVars >>

\* Nobody answers the address resolution: the datagram is dropped.
GiveUp ==
  /\ proto = "UDP" /\ Pending > 0
  /\ txRd' = txWr /\ txQ' = << >> /\ noAnswer' = TRUE
  /\ UNCHANGED << proto, link, txMem, txWr, txNew, offset, rxVars, sendOk, sockPc, op, sizeVars >>

Arrive(data) ==
  /\ RSR + Len(data) <= RSize
  /\ rxMem' = Stored(rxMem, RSize, rxWr, data)
  /\ rxWr' = (rxWr + Len(data)) % PtrMod
  /\ UNCHANGED << proto, link, txVars, rxRd, rxFree, remaining, sendOk, noAnswer, sockPc, op, sizeVars >>

\* In rxQ a byte is paired with the number of those that follow it in its
\* datagram; the header, here the length alone, with its own length.
ArriveTcp ==
  /\ proto = "TCP" /\ link = "ESTABLISHED"
  /\ \E d \in Segments : Arrive(d) /\ rxQ' = rxQ \o [i \in 1 .. Len(d) |-> << d[i], 0 >>]
ArriveUdp ==
  /\ proto = "UDP"
  /\ \E d \in Datagrams :
       LET frame == << Len(d) >> \o d IN
         Arrive(frame) /\ rxQ' = rxQ \o [i \in 1 .. Len(frame) |-> << frame[i], Len(frame) - i >>]

Fin ==
  /\ proto = "TCP" /\ link = "ESTABLISHED" /\ link' = "CLOSE_WAIT"
  /\ UNCHANGED << proto, txVars, rxVars, sendOk, noAnswer, sockPc, op, sizeVars >>

\* A reset, or retransmission gives up.
Break ==
  /\ proto = "TCP" /\ Connected
  /\ link' = "CLOSED" /\ txRd' = txWr /\ txQ' = << >>
  /\ UNCHANGED << proto, txMem, txWr, txNew, offset, rxVars, sendOk, noAnswer, sockPc, op, sizeVars >>

(***************************************************************************)
(* Specification and properties.                                           *)
(***************************************************************************)
W5100Init ==
  /\ proto \in { "TCP", "UDP" }
  /\ link = IF proto = "TCP" THEN "ESTABLISHED" ELSE "UDP"
  /\ txMem = [a \in 0 .. SSize - 1 |-> 0] /\ rxMem = [a \in 0 .. RSize - 1 |-> 0]
  /\ txWr = 0 /\ txRd = 0 /\ txNew = 0 /\ rxRd = 0 /\ rxWr = 0 /\ rxFree = 0
  /\ hi = 0 /\ val1 = 0 /\ val = 0 /\ offset = 0 /\ remaining = 0
  /\ sendOk = FALSE /\ noAnswer = FALSE
  /\ sockPc = "idle" /\ op = [name |-> "none"]
  /\ txQ = << >> /\ rxQ = << >>

SketchStep ==
  ReadHigh \/ ReadLow1 \/ ReadLow2 \/ SendAgain \/ SendCommand \/ SendDone \/ Buffer \/ Recv \/ Discard \/ Parse
SketchCalls == CallSend \/ CallRecv \/ CallParse \/ CallBuffer \/ EndPacket
Chip == Deliver \/ ReportSent \/ GiveUp \/ Break
W5100Next == SketchStep \/ SketchCalls \/ Chip \/ ArriveTcp \/ ArriveUdp \/ Fin

\* The processor runs; the chip sends, or finds out that it cannot.
W5100Fairness == WF_w5100Vars(SketchStep) /\ WF_w5100Vars(Chip)
W5100Spec == W5100Init /\ [][W5100Next]_w5100Vars /\ W5100Fairness

\* The transmit ring holds what was accepted and not yet sent, in order,
\* wherever it wraps and in however many pieces a datagram was written
\* (w5100.cpp:81-101, socket.cpp:405-420), and the pointers tell how much that
\* is.  The one exception is a datagram that grew longer than the ring: as
\* socket.cpp:409 compares each piece alone with the free size, its later
\* pieces overwrite the first.
TxIsAccepted ==
  /\ Len(txQ) <= SSize => Fetched(txMem, SSize, txRd, Len(txQ)) = txQ
  /\ Dist(txNew, txRd) = Len(txQ)

\* The receive ring holds what arrived and was not yet read: no call takes
\* more than had arrived by the size it read while the chip was changing it
\* (w5100.cpp:62-72, socket.cpp:200-204).
RxIsUnread ==
  /\ Dist(rxWr, rxRd) = Len(rxQ)
  /\ Fetched(rxMem, RSize, rxRd, Len(rxQ)) = [i \in 1 .. Len(rxQ) |-> rxQ[i][1]]

\* Between the calls a sketch that reads datagrams stands inside one exactly
\* as far as _remaining says, or before the header of the next
\* (EthernetUdp.cpp:118-150).
InFrame ==
  proto = "UDP" /\ sockPc = "idle" =>
    IF remaining > 0 THEN rxQ # << >> /\ rxQ[1][2] = remaining - 1
                     ELSE rxQ # << >> => rxQ[1][1] = rxQ[1][2]

\* Every call returns, whatever the other side does (socket.cpp:141, :149).
SocketCallReturns == []<>(sockPc = "idle")

=============================================================================
