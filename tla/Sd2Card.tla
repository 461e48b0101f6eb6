------------------------------ MODULE Sd2Card ------------------------------
(***************************************************************************)
(* The SD card driver (Sd2Card.cpp) over the SPI bus (SPI.h), which it     *)
(* shares with interrupt handlers: a transaction masks their lines, or all *)
(* interrupts, from the moment the card is selected until it is released.  *)
(*                                                                         *)
(* A block has BlockLen bytes, 512 in the code; what it holds is the       *)
(* version last written, and a byte is its version and its place.          *)
(***************************************************************************)
EXTENDS Integers, Sequences

CONSTANTS
  Blocks,           \* block numbers, from 0
  BlockLen,         \* bytes in a block
  Versions,         \* what is written; Erased and others are not
  Erased, NoByte,   \* an erased block; what a card that is not selected says
  Kinds,            \* the cards, by what init() is to find: SD1, SD2, SDHC
  IntLines, AnyLine,\* interrupt lines, and the number for other interrupts
  Refused,          \* TRUE: the sketch makes calls the driver refuses in
                    \* the middle of a partial read
  StopAfterFailure, \* TRUE: it calls writeStop() after a failed writeData()
  Nested            \* TRUE: it calls init() or changes interrupts then, too

ASSUME Sd2CardAssumption ==
  /\ Blocks \subseteq Nat /\ BlockLen \in Nat \ { 0, 1 }
  /\ Kinds \subseteq { "SD1", "SD2", "SDHC" } /\ AnyLine \notin IntLines
  /\ { Refused, StopAfterFailure, Nested } \subseteq BOOLEAN

VARIABLES
  inBlock, block, offset, partial, type,    \* inBlock_, block_ and so on
  asserted, selected,   \* chip_select_asserted, and the pin
  spi,                  \* EIMSK, the I flag and interruptSave
  interruptMode, interruptMask,
  linesWanted,          \* the lines that the sketch has enabled
  cardPc, request,      \* where the call under way is, and its arguments
  result,               \* what readData() has stored for its caller
  ready,                \* init() succeeded
  sequence,             \* the sketch is between writeStart() and writeStop()
  stopped,              \* writeStop() was the last call, and succeeded
  kind, memory,         \* the card: its kind and blocks,
  stream,               \*   what it is sending, << >> if nothing,
  multi                 \*   and the block a multiple write is at, or -1

driver   == << inBlock, block, offset, partial, type >>
bus      == << asserted, selected, spi >>
handlers == << interruptMode, interruptMask, linesWanted >>
caller   == << cardPc, request, result, ready, sequence, stopped >>
card     == << kind, memory, stream, multi >>
cardVars == << driver, bus, handlers, caller, card >>

Uncalled == cardPc = "idle"
Nothing == [block |-> 0, first |-> 0, bytes |-> << >>]

(***************************************************************************)
(* SPI transactions.                                                       *)
(***************************************************************************)
beginTransaction(s) ==
  IF interruptMode = 0 THEN s
  ELSE IF interruptMode = 1 THEN [eimsk |-> s.eimsk \ interruptMask, on |-> s.on, save |-> s.eimsk]
  ELSE [eimsk |-> s.eimsk, on |-> FALSE, save |-> IF s.on THEN { AnyLine } ELSE {}]

endTransaction(s) ==
  IF interruptMode = 0 THEN s
  ELSE IF interruptMode = 1 THEN [s EXCEPT !.eimsk = s.save]
  ELSE [s EXCEPT !.on = AnyLine \in s.save]

\* Not inside a transaction (SPI.h:172-174).
usingInterrupt(l) ==
  /\ Uncalled /\ ~asserted
  /\ interruptMask' = IF l = AnyLine THEN interruptMask ELSE interruptMask \cup { l }
  /\ interruptMode' = IF l = AnyLine THEN 2 ELSE IF interruptMode = 0 THEN 1 ELSE interruptMode
  /\ UNCHANGED << driver, bus, linesWanted, caller, card >>

notUsingInterrupt(l) ==
  /\ Uncalled /\ ~asserted /\ interruptMode # 2 /\ l \in interruptMask
  /\ interruptMask' = interruptMask \ { l }
  /\ interruptMode' = IF interruptMask' = {} THEN 0 ELSE interruptMode
  /\ UNCHANGED << driver, bus, linesWanted, caller, card >>

\* attachInterrupt() and detachInterrupt(), by the sketch.
SetLine(l, on) ==
  /\ Uncalled /\ (asserted => Nested)
  /\ linesWanted' = IF on THEN linesWanted \cup { l } ELSE linesWanted \ { l }
  /\ linesWanted' # linesWanted
  /\ spi' = [spi EXCEPT !.eimsk = IF on THEN @ \cup { l } ELSE @ \ { l }]
  /\ UNCHANGED << driver, asserted, selected, interruptMode, interruptMask, caller, card >>

(***************************************************************************)
(* Selecting and releasing the card, and the end of a partial read.        *)
(***************************************************************************)
chipSelectHigh ==
  /\ selected' = FALSE /\ asserted' = FALSE /\ stream' = << >>
  /\ spi' = IF asserted THEN endTransaction(spi) ELSE spi

\* cardCommand(): readEnd() reads what is left of the block, then the card
\* is selected, for the first time or again.
cardCommand ==
  /\ inBlock' = FALSE /\ stream' = << >>
  /\ selected' = TRUE /\ asserted' = TRUE
  /\ LET released == IF inBlock /\ asserted THEN endTransaction(spi) ELSE spi
     IN spi' = IF inBlock \/ ~asserted THEN beginTransaction(released) ELSE spi

readEnd ==
  IF inBlock THEN inBlock' = FALSE /\ chipSelectHigh ELSE UNCHANGED << inBlock, stream, bus >>

AddressInBytes(b) == [byte |-> b * BlockLen]

\* A command is sent with the card's way to number blocks.
Address(b) == IF type = "SDHC" THEN [block |-> b] ELSE [byte |-> b * BlockLen]
BlockAt(address) ==
  IF kind = "SDHC" THEN (IF "block" \in DOMAIN address THEN address.block ELSE address.byte)
  ELSE (IF "byte" \in DOMAIN address THEN address.byte ELSE address.block) \div BlockLen

(***************************************************************************)
(* The calls of the sketch.  Each starts with a command, unless it goes on *)
(* with a read or a sequence or is refused, and has an outcome.            *)
(***************************************************************************)
Calls(op, args) ==
  /\ Uncalled /\ ready
  /\ cardPc' = op /\ request' = args /\ result' = Nothing /\ stopped' = FALSE
  /\ UNCHANGED << handlers, ready, partial, type, kind, memory, multi >>

Refuses ==
  /\ Uncalled /\ ready /\ ~sequence /\ (inBlock => Refused)
  /\ chipSelectHigh
  /\ result' = Nothing /\ stopped' = FALSE
  /\ UNCHANGED << driver, handlers, cardPc, request, ready, sequence, kind, memory, multi >>

\* Past the end of the block, or a write to block zero.
readDataRefuses == Refuses
writeRefuses == 0 \in Blocks /\ Refuses

GoesOn(b, first) == inBlock /\ block = b /\ first >= offset

readData(b, first, count) ==
  /\ ~sequence /\ count > 0 /\ first + count <= BlockLen
  /\ IF GoesOn(b, first)
     THEN /\ Calls("transfer", << b, first, count >>)
          /\ UNCHANGED << inBlock, block, bus, stream >>
     ELSE /\ Calls("read", << b, first, count >>)
          /\ cardCommand /\ block' = b
  /\ UNCHANGED << offset, sequence >>

writeBlock(b, v) ==
  /\ ~sequence /\ b # 0 /\ Calls("write", << b, v >>) /\ cardCommand
  /\ UNCHANGED << block, offset, sequence >>

readRegister ==
  /\ ~sequence /\ Calls("register", << >>) /\ cardCommand
  /\ UNCHANGED << block, offset, sequence >>

erase(from, to) ==
  /\ ~sequence /\ from <= to /\ Calls("erase", << from, to >>) /\ cardCommand
  /\ UNCHANGED << block, offset, sequence >>

writeStart(b) ==
  /\ ~sequence /\ b # 0 /\ Calls("start", << b >>) /\ cardCommand
  /\ UNCHANGED << block, offset, sequence >>

writeData(v) ==
  /\ sequence /\ selected /\ Calls("data", << v >>)
  /\ UNCHANGED << inBlock, block, offset, bus, stream, sequence >>

writeStop ==
  /\ sequence /\ (selected \/ StopAfterFailure) /\ Calls("stop", << >>)
  /\ UNCHANGED << inBlock, block, offset, bus, stream, sequence >>

partialBlockRead(value) ==
  /\ Uncalled /\ ready /\ ~sequence
  /\ readEnd /\ partial' = value
  /\ result' = Nothing /\ stopped' = FALSE
  /\ UNCHANGED << block, offset, type, handlers, cardPc, request, ready, sequence, kind, memory, multi >>

\* init(): ten bytes in a transaction of their own, and then the commands;
\* a card that was in a sequence is reset.
init ==
  /\ Uncalled /\ (asserted => Nested)
  /\ inBlock' = FALSE /\ partial' = FALSE /\ type' = "none"
  /\ selected' = TRUE /\ asserted' = TRUE /\ stream' = << >>
  /\ LET clocked == endTransaction(beginTransaction(spi))
     IN spi' = IF asserted THEN clocked ELSE beginTransaction(clocked)
  /\ cardPc' = "init" /\ request' = << >> /\ result' = Nothing
  /\ ready' = FALSE /\ sequence' = FALSE /\ stopped' = FALSE /\ multi' = -1
  /\ UNCHANGED << block, offset, handlers, kind, memory >>

(***************************************************************************)
(* What comes of a call: success, an error of the card or a timeout.       *)
(***************************************************************************)
Ends(op) == cardPc = op /\ cardPc' = "idle" /\ request' = << >>

\* What the card holds when it has done a write or an erase.
Written == [memory EXCEPT ![BlockAt(Address(request[1]))] = request[2]]
Cleared ==
  [b \in Blocks |-> IF b \in BlockAt(Address(request[1])) .. BlockAt(Address(request[2]))
                    THEN Erased ELSE memory[b]]

\* It may have done so though the call fails.
CommandFails ==
  /\ cardPc \in { "read", "write", "register", "erase", "start", "data", "stop" }
  /\ Ends(cardPc) /\ chipSelectHigh
  /\ \/ UNCHANGED memory
     \/ cardPc = "write" /\ memory' = Written
     \/ cardPc = "erase" /\ memory' = Cleared
  /\ UNCHANGED << driver, handlers, result, ready, sequence, stopped, kind, multi >>

readAnswered ==
  /\ cardPc = "read" /\ multi = -1
  /\ cardPc' = "transfer"
  /\ LET b == BlockAt(Address(block))
     IN stream' = IF b \in Blocks THEN [k \in 1 .. BlockLen |-> << memory[b], k - 1 >>] ELSE << >>
  /\ offset' = 0 /\ inBlock' = TRUE
  /\ UNCHANGED << block, partial, type, bus, handlers, request, result, ready, sequence, stopped,
                  kind, memory, multi >>

\* The next byte of the card, if it is selected and has one.
Sent(k) == IF selected /\ k \in DOMAIN stream THEN stream[k] ELSE NoByte

Transfer ==
  /\ cardPc = "transfer" /\ cardPc' = "idle" /\ request' = << >>
  /\ LET first == request[2]  count == request[3]  skipped == first - offset
     IN /\ result' = [block |-> request[1], first |-> first,
                      bytes |-> [k \in 1 .. count |-> Sent(skipped + k)]]
        /\ offset' = first + count
        /\ IF ~partial \/ offset' >= BlockLen
           THEN inBlock' = FALSE /\ chipSelectHigh
           ELSE /\ stream' = SubSeq(stream, skipped + count + 1, Len(stream))
                /\ UNCHANGED << inBlock, bus >>
  /\ UNCHANGED << block, partial, type, handlers, ready, sequence, stopped, kind, memory, multi >>

\* The other calls: writeBlock, the registers, erase and writeStart ...
Succeeds ==
  /\ multi = -1
  /\ \/ /\ Ends("write") /\ chipSelectHigh
        /\ LET b == BlockAt(Address(request[1]))
           IN memory' = [memory EXCEPT ![b] = request[2]]
        /\ UNCHANGED << sequence, multi >>
     \/ /\ Ends("register") /\ chipSelectHigh /\ UNCHANGED << memory, sequence, multi >>
     \/ /\ Ends("erase") /\ chipSelectHigh
        /\ memory' = Cleared
        /\ UNCHANGED << sequence, multi >>
     \/ /\ Ends("start") /\ sequence' = TRUE
        /\ multi' = BlockAt(Address(request[1]))
        /\ UNCHANGED << bus, stream, memory >>
  /\ UNCHANGED << driver, handlers, result, ready, stopped, kind >>

\* ... and the data and the end of a sequence; no one hears a stop that is
\* sent while the card is not selected, but the bus then looks idle.
DataTaken ==
  /\ Ends("data") /\ multi \in Blocks
  /\ memory' = [memory EXCEPT ![multi] = request[1]] /\ multi' = multi + 1
  /\ UNCHANGED << driver, bus, handlers, result, ready, sequence, stopped, kind, stream >>

StopTaken ==
  /\ Ends("stop") /\ chipSelectHigh
  /\ multi' = IF selected THEN -1 ELSE multi
  /\ sequence' = FALSE /\ stopped' = TRUE
  /\ UNCHANGED << driver, handlers, result, ready, kind, memory >>

initEnds ==
  /\ Ends("init") /\ chipSelectHigh
  /\ \/ ready' = TRUE /\ type' = kind
     \/ ready' = FALSE /\ type' \in { "none", "SD1", "SD2" }
  /\ UNCHANGED << inBlock, block, offset, partial, handlers, result, sequence, stopped,
                  kind, memory, multi >>

(***************************************************************************)
(* Specification and properties.                                           *)
(***************************************************************************)
CardInit ==
  /\ inBlock = FALSE /\ block = 0 /\ offset = 0 /\ partial = FALSE /\ type = "none"
  /\ asserted = FALSE /\ selected = FALSE
  /\ spi = [eimsk |-> {}, on |-> TRUE, save |-> {}]
  /\ interruptMode = 0 /\ interruptMask = {} /\ linesWanted = {}
  /\ cardPc = "idle" /\ request = << >> /\ result = Nothing /\ ready = FALSE
  /\ sequence = FALSE /\ stopped = FALSE
  /\ kind \in Kinds /\ memory = [b \in Blocks |-> Erased] /\ stream = << >> /\ multi = -1

CardCalls ==
  \/ readDataRefuses \/ writeRefuses \/ readRegister \/ writeStop \/ init
  \/ \E value \in BOOLEAN : partialBlockRead(value)
  \/ \E b \in Blocks : \/ writeStart(b)
                       \/ \E first \in 0 .. BlockLen - 1, count \in 1 .. BlockLen : readData(b, first, count)
                       \/ \E to \in Blocks : erase(b, to)
                       \/ \E v \in Versions : writeBlock(b, v)
  \/ \E v \in Versions : writeData(v)

CardInterrupts ==
  \E l \in IntLines : \/ usingInterrupt(l) \/ notUsingInterrupt(l) \/ usingInterrupt(AnyLine)
                      \/ \E on \in BOOLEAN : SetLine(l, on)

CardNext ==
  \/ CardCalls \/ CardInterrupts
  \/ CommandFails \/ readAnswered \/ Transfer \/ Succeeds \/ DataTaken \/ StopTaken \/ initEnds

CardSpec == CardInit /\ [][CardNext]_cardVars

CardTypeOK ==
  /\ { inBlock, partial, asserted, selected, ready, sequence, stopped } \subseteq BOOLEAN
  /\ block \in Blocks /\ offset \in 0 .. BlockLen /\ type \in Kinds \cup { "none", "SD1", "SD2" }
  /\ spi.eimsk \subseteq IntLines /\ spi.on \in BOOLEAN
  /\ interruptMode \in 0 .. 2 /\ interruptMask \subseteq IntLines /\ linesWanted \subseteq IntLines
  /\ memory \in [Blocks -> Versions \cup { Erased }] /\ multi \in Int

\* A read that succeeds gives the bytes of that block as it is on the card,
\* whether it starts the block or goes on with it, and whatever was called
\* since (Sd2Card.cpp:384).
ReadIsBlock ==
  \A k \in DOMAIN result.bytes :
    result.bytes[k] = << memory[result.block], result.first + k - 1 >>

\* The card stays selected only for a partial read or a sequence to go on,
\* no handler that uses the bus can run meanwhile, and once the card is
\* released all the interrupts that the sketch enabled are on again.
BusIsShared ==
  /\ asserted => \/ interruptMode = 1 /\ spi.eimsk \cap interruptMask = {}
                 \/ interruptMode = 2 /\ ~spi.on
                 \/ interruptMode = 0
  /\ asserted = selected
  /\ Uncalled /\ asserted => inBlock \/ sequence
  /\ ~asserted => spi.eimsk = linesWanted /\ spi.on

\* writeStop() that succeeds has ended the sequence.
StopEndsSequence == stopped => multi = -1

=============================================================================
