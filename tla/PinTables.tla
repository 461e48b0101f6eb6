------------------------------ MODULE PinTables ------------------------------
(***************************************************************************)
(* The tables of pins: the maps that the SD library keeps of every board   *)
(* it knows (Sd2PinMap.h), its functions that read and write a pin through *)
(* them, and the tables of the standard variant; the bits that are shifted *)
(* through pins, by the card's software SPI and by the core, the speed of  *)
(* the SPI of the chip, and the pulses that are measured on a pin.         *)
(*                                                                         *)
(* A place is a port and a bit.  A row of a map names a place for PINx and *)
(* PORTx, and another for DDRx.                                            *)
(***************************************************************************)
EXTENDS Integers, Sequences, SequencesExt

CONSTANTS
  Chips,      \* << chip, core >> of the builds
  SpiBytes,   \* bytes as sequences of bits, the highest first
  F_CPU, SpiClocks, \* the clock of the chip, and those asked for the SPI
  PulseLines, \* what a pin is, read after read; then it stays as it was last
  Timeouts,   \* of pulseIn() and pulseInLong(), in turns of the loop
  MaxPinCalls \* bound: calls for a pin

ASSUME PinTablesAssumption ==
  /\ F_CPU \in Nat \ {0} /\ SpiClocks \subseteq Nat /\ Timeouts \subseteq Nat \ {0}

(***************************************************************************)
(* The maps.                                                               *)
(***************************************************************************)
PortBits(p, bits) == [i \in 1 .. Len(bits) |-> << p, bits[i] >>]
Up(p)   == PortBits(p, << 0, 1, 2, 3, 4, 5, 6, 7 >>)
Down(p) == PortBits(p, << 7, 6, 5, 4, 3, 2, 1, 0 >>)

MegaCore ==
  Up("E") \o Up("B") \o PortBits("G", << 3, 4 >>) \o Up("D") \o PortBits("G", << 0, 1 >>) \o Up("C")
    \o << << "G", 2 >> >> \o Down("A") \o Up("F")

StandardPinout == Up("B") \o Up("D") \o Up("C") \o Up("A")

Mega ==
  PortBits("E", << 0, 1, 4, 5 >>) \o << << "G", 5 >>, << "E", 3 >> >> \o PortBits("H", << 3, 4, 5, 6 >>)
    \o PortBits("B", << 4, 5, 6, 7 >>) \o PortBits("J", << 1, 0 >>) \o PortBits("H", << 1, 0 >>)
    \o PortBits("D", << 3, 2, 1, 0 >>) \o Up("A") \o Down("C") \o << << "D", 7 >> >>
    \o PortBits("G", << 2, 1, 0 >>) \o Down("L") \o PortBits("B", << 3, 2, 1, 0 >>) \o Up("F") \o Up("K")

CoreRF ==
  PortBits("E", << 0, 1 >>) \o PortBits("D", << 2, 3 >>) \o PortBits("E", << 3, 4, 5 >>)
    \o PortBits("B", << 7, 6, 5, 4, 2, 3, 1 >>) \o PortBits("F", << 7, 6, 5, 4 >>)
    \o PortBits("D", << 1, 0 >>) \o PortBits("F", << 3, 2 >>)

\* The ports of the same rows' direction registers.
CoreRFModes ==
  << "D", "D", "D", "D", "B", "B", "B", "B", "D", "D", "B", "B", "B", "B", "F", "F", "F", "F",
     "D", "D", "F", "F" >>

CoreUSB ==
  PortBits("D", << 2, 3 >>) \o << << "E", 6 >>, << "D", 6 >>, << "D", 7 >>, << "C", 6 >>,
     << "C", 7 >>, << "E", 7 >> >> \o PortBits("B", << 6, 5, 0, 2, 3, 1 >>)
    \o PortBits("F", << 7, 6, 5, 4 >>) \o PortBits("D", << 1, 0 >>) \o PortBits("F", << 1, 0 >>)

Leonardo ==
  PortBits("D", << 2, 3, 1, 0, 4 >>) \o << << "C", 6 >>, << "D", 7 >>, << "E", 6 >> >>
    \o PortBits("B", << 4, 5, 6, 7 >>) \o << << "D", 6 >>, << "C", 7 >> >>
    \o PortBits("B", << 3, 1, 2, 0 >>) \o PortBits("F", << 7, 6, 5, 4, 1, 0 >>)

Teensy ==
  Up("D") \o PortBits("E", << 0, 1 >>) \o Up("C") \o PortBits("E", << 6, 7 >>) \o Up("B") \o Up("A")
    \o PortBits("E", << 4, 5 >>) \o Up("F")

Uno == Up("D") \o PortBits("B", << 0, 1, 2, 3, 4, 5 >>) \o PortBits("C", << 0, 1, 2, 3, 4, 5 >>)

\* The chain of #elif.  The condition for the standard pinout ends in "||
\* ATmega8535 && STANDARD_PINOUT": the chips before take it whatever the
\* pinout is, and those for Bobuino and Sanguino are never reached by them.
MapOf(chip, core) ==
  CASE chip \in { "ATmega64", "ATmega128", "ATmega1281", "ATmega2561" }               -> "MegaCore"
    [] chip \in { "ATmega1284P", "ATmega644P", "ATmega324P", "ATmega164P", "ATmega32" } -> "Standard"
    [] chip \in { "ATmega1280", "ATmega2560" }              -> "Mega"
    [] chip = "ATmega128RFA1" /\ core = "Microduino"        -> "CoreRF"
    [] chip = "ATmega32U4" /\ core = "Microduino"           -> "CoreUSB"
    [] chip = "ATmega32U4" /\ core # "Microduino"           -> "Leonardo"
    [] chip \in { "AT90USB646", "AT90USB1286" }             -> "Teensy"
    [] OTHER                                                -> "Uno"

MapNames == { "MegaCore", "Standard", "Mega", "CoreRF", "CoreUSB", "Leonardo", "Teensy", "Uno" }

digitalPinMap(name) ==
  CASE name = "MegaCore" -> MegaCore [] name = "Standard" -> StandardPinout [] name = "Mega" -> Mega
    [] name = "CoreRF" -> CoreRF [] name = "CoreUSB" -> CoreUSB [] name = "Leonardo" -> Leonardo
    [] name = "Teensy" -> Teensy [] name = "Uno" -> Uno

\* SS_PIN, MOSI_PIN, MISO_PIN and SCK_PIN of each map.
SpiPins(name) ==
  CASE name = "MegaCore" -> << 8, 10, 11, 9 >>   [] name = "Standard" -> << 4, 5, 6, 7 >>
    [] name = "Mega" -> << 53, 51, 50, 52 >>     [] name = "Leonardo" -> << 17, 16, 14, 15 >>
    [] name = "Teensy" -> << 20, 22, 23, 21 >>   [] OTHER -> << 10, 11, 12, 13 >>

\* SS, MOSI, MISO and SCK of the chips.
ChipSpi(name) ==
  CASE name = "Standard" -> PortBits("B", << 4, 5, 6, 7 >>) [] name = "Uno" -> PortBits("B", << 2, 3, 4, 5 >>)
    [] OTHER -> PortBits("B", << 0, 2, 3, 1 >>)

Row(name, p) == digitalPinMap(name)[p + 1]
ModeRow(name, p) == IF name = "CoreRF" THEN << CoreRFModes[p + 1], Row(name, p)[2] >> ELSE Row(name, p)
digitalPinCount(name) == Len(digitalPinMap(name))

(***************************************************************************)
(* Pins read and written through the maps.                                 *)
(***************************************************************************)
VARIABLES
  pinMap,       \* the map of the build
  mapDdr,       \* bits of DDRx that are set
  mapPort,      \* bits of PORTx that are set
  outputs, highs, \* pins that were set to output, and high
  pinCalls,
  said, heard   \* the last call about bits, speed or pulses, and its outcome

mapVars == << pinMap, mapDdr, mapPort, outputs, highs, pinCalls, said, heard >>

SetBit(bits, place, on) == IF on THEN bits \cup { place } ELSE bits \ { place }

setPinMode(p, mode) ==
  /\ mapDdr' = SetBit(mapDdr, ModeRow(pinMap, p), mode)
  /\ outputs' = SetBit(outputs, p, mode)
  /\ UNCHANGED << pinMap, mapPort, highs, said, heard >>

fastDigitalWrite(p, value) ==
  /\ mapPort' = SetBit(mapPort, Row(pinMap, p), value)
  /\ highs' = SetBit(highs, p, value)
  /\ UNCHANGED << pinMap, mapDdr, outputs, said, heard >>

(***************************************************************************)
(* Software SPI, with a card that shifts: it takes a bit when SCK rises    *)
(* and shows its next one when SCK falls.                                  *)
(***************************************************************************)
MOSI == 11
SCK  == 13

Drive(s, p, value) ==
  LET rises == p = SCK /\ value /\ ~s.sck
      falls == p = SCK /\ ~value /\ s.sck
  IN [s EXCEPT !.sck = IF p = SCK THEN value ELSE @,
               !.mosi = IF p = MOSI THEN value ELSE @,
               !.heard = IF rises THEN Append(@, s.mosi) ELSE @,
               !.miso = IF falls /\ @ # << >> THEN Tail(@) ELSE @]

spiSend(s, byte) ==
  LET SendBit(t, bit) == Drive(Drive(Drive(t, SCK, FALSE), MOSI, bit), SCK, TRUE)
  IN Drive(FoldLeft(SendBit, s, byte), SCK, FALSE)

spiRec(s, n) ==
  LET RecBit(t, k) == LET up == Drive(t, SCK, TRUE)
                      IN [Drive(up, SCK, FALSE) EXCEPT !.data = Append(@, Head(up.miso))]
  IN FoldLeft(RecBit, Drive(s, MOSI, TRUE), [k \in 1 .. n |-> k])

Quiet == [sck |-> FALSE, mosi |-> FALSE, miso |-> << >>, heard |-> << >>, data |-> << >>]

\* A byte out and one in.
SoftSpiTransfer(out, in) ==
  LET sent     == spiSend(Quiet, out)
      received == spiRec([sent EXCEPT !.miso = in], Len(in))
  IN /\ said' = [call |-> "spi", out |-> out, in |-> in, order |-> "MSBFIRST"]
     /\ heard' = << received.heard, received.data >>

(***************************************************************************)
(* The core's shiftOut() and shiftIn(), with the same card.                *)
(***************************************************************************)
\* The place in a byte of n bits of the bit that is shifted as the k-th.
PlaceOf(bitOrder, n, k) == IF bitOrder = "LSBFIRST" THEN n + 1 - k ELSE k

shiftOut(s, bitOrder, byte) ==
  LET ShiftBit(t, k) ==
        Drive(Drive(Drive(t, MOSI, byte[PlaceOf(bitOrder, Len(byte), k)]), SCK, TRUE), SCK, FALSE)
  IN FoldLeft(ShiftBit, s, [k \in 1 .. Len(byte) |-> k])

shiftIn(s, bitOrder, n) ==
  LET ShiftBit(t, k) ==
        LET up == Drive(t, SCK, TRUE)
        IN [Drive(up, SCK, FALSE) EXCEPT !.data[PlaceOf(bitOrder, n, k)] = Head(up.miso)]
  IN FoldLeft(ShiftBit, [s EXCEPT !.data = [k \in 1 .. n |-> FALSE]], [k \in 1 .. n |-> k])

\* The other end knows no order: it takes the bits, and gives them, as they come.
ShiftByte(bitOrder, out, in) ==
  LET sent     == shiftOut(Quiet, bitOrder, out)
      received == shiftIn([sent EXCEPT !.miso = in], bitOrder, Len(in))
  IN /\ said' = [call |-> "shift", out |-> out, in |-> in, order |-> bitOrder]
     /\ heard' = << sent.heard, received.data >>

(***************************************************************************)
(* SPISettings: the bits SPR1 and SPR0, and SPI2X.                         *)
(***************************************************************************)
\* Six halvings at the most; what they leave is not below the clock asked for
\* where there is such a one.
clockDiv(clock) ==
  LET slow == { d \in 0 .. 5 : clock >= F_CPU \div 2 ^ (d + 1) }
  IN IF slow = {} THEN 6 ELSE CHOOSE d \in slow : \A e \in slow : d <= e

\* fosc/64 is there twice, and the bit SPI2X is inverted.
ClockBits(clock) ==
  LET div      == IF clockDiv(clock) = 6 THEN 7 ELSE clockDiv(clock)
      inverted == IF div % 2 = 1 THEN div - 1 ELSE div + 1
  IN [spr |-> (inverted \div 2) % 4, spi2x |-> inverted % 2]

SetSpiClock(clock) ==
  said' = [call |-> "clock", clock |-> clock] /\ heard' = ClockBits(clock)

\* What the chip divides its clock by.
DividerOf(bits) == (<< 4, 16, 64, 128 >>[bits.spr + 1]) \div (1 + bits.spi2x)

(***************************************************************************)
(* Pulses: countPulseASM() reads the pin once in a turn of its three loops.*)
(***************************************************************************)
\* The first read, not before one, that is not at a level: past all if none is.
FirstOff(levels, from, level) ==
  LET off == { k \in from .. Len(levels) : levels[k] # level }
  IN IF off = {} THEN Len(levels) + 2 ELSE CHOOSE k \in off : \A j \in off : k <= j

\* The reads that end the loops: a pulse before is over, one starts, it is over.
LoopReads(levels, state) ==
  LET gone   == FirstOff(levels, 1, state)
      starts == FirstOff(levels, gone + 1, ~state)
  IN << gone, starts, FirstOff(levels, starts + 1, state) >>

\* A loop that never ends uses up what is left of maxloops.
countPulse(levels, state, maxloops) ==
  LET r      == LoopReads(levels, state)
      Never(k) == r[k] > Len(levels)
      before == (r[1] - 1) + (r[2] - r[1] - 1)
      width  == r[3] - r[2] - 1
  IN IF (\E k \in 1 .. 3 : Never(k)) \/ before >= maxloops \/ width >= maxloops - before THEN 0 ELSE width

\* A turn is as long as the pulse is counted in.
pulseIn(levels, state, maxloops) ==
  LET width == countPulse(levels, state, maxloops) IN IF width # 0 THEN width + 1 ELSE 0

\* A turn that looks at the clock, which ticks between two reads.
pulseInLong(levels, state, timeout) ==
  LET r == LoopReads(levels, state)
      late == \E k \in 1 .. r[3] - 1 : k \notin { r[1], r[2] } /\ k > timeout
  IN IF r[3] > Len(levels) \/ late THEN 0 ELSE r[3] - r[2]

MeasurePulse(levels, state, timeout) ==
  /\ said' = [call |-> "pulse", levels |-> levels, state |-> state, timeout |-> timeout]
  /\ heard' = << pulseIn(levels, state, timeout), pulseInLong(levels, state, timeout) >>

MapInit ==
  /\ pinMap \in { MapOf(c[1], c[2]) : c \in Chips }
  /\ mapDdr = {} /\ mapPort = {} /\ outputs = {} /\ highs = {} /\ pinCalls = 0
  /\ said = << >> /\ heard = << >>

MapNext ==
  /\ pinCalls < MaxPinCalls /\ pinCalls' = pinCalls + 1
  /\ \/ \E p \in 0 .. digitalPinCount(pinMap) - 1, on \in BOOLEAN :
          setPinMode(p, on) \/ fastDigitalWrite(p, on)
     \/ /\ \/ \E out \in SpiBytes, in \in SpiBytes :
                \/ SoftSpiTransfer(out, in)
                \/ \E bitOrder \in { "LSBFIRST", "MSBFIRST" } : ShiftByte(bitOrder, out, in)
           \/ \E clock \in SpiClocks : SetSpiClock(clock)
           \/ \E levels \in PulseLines, state \in BOOLEAN, timeout \in Timeouts :
                MeasurePulse(levels, state, timeout)
        /\ UNCHANGED << pinMap, mapDdr, mapPort, outputs, highs >>

MapSpec == MapInit /\ [][MapNext]_mapVars

MapTypeOK ==
  /\ pinMap \in MapNames /\ pinCalls \in 0 .. MaxPinCalls
  /\ outputs \cup highs \subseteq 0 .. digitalPinCount(pinMap) - 1
  /\ mapPort \subseteq { Row(pinMap, p) : p \in 0 .. digitalPinCount(pinMap) - 1 }

(***************************************************************************)
(* The standard variant, on the three families of chips it knows.          *)
(***************************************************************************)
std_pin_to_port(p) == << "B", "D", "C", "A" >>[p \div 8 + 1]
std_pin_to_bit(p) == p % 8
StandardPlace(p) == << std_pin_to_port(p), std_pin_to_bit(p) >>

SmallTimers(p) ==
  CASE p = 3 -> "0A" [] p = 12 -> "1B" [] p = 13 -> "1A" [] p = 15 -> "2" [] OTHER -> "none"
MiddleTimers(p) ==
  CASE p = 3 -> "0A" [] p = 4 -> "0B" [] p = 12 -> "1B" [] p = 13 -> "1A" [] p = 14 -> "2B"
    [] p = 15 -> "2A" [] OTHER -> "none"
LargeTimers(p) ==
  CASE p = 3 -> "0A" [] p = 4 -> "0B" [] p = 6 -> "3A" [] p = 7 -> "3B" [] p = 12 -> "1B"
    [] p = 13 -> "1A" [] p = 14 -> "2B" [] p = 15 -> "2A" [] OTHER -> "none"
std_pin_to_timer(family, p) ==
  CASE family = "small" -> SmallTimers(p) [] family = "middle" -> MiddleTimers(p)
    [] family = "large" -> LargeTimers(p)

digitalPinHasPWM(family, p) ==
  p \in CASE family = "small" -> { 3, 12, 13, 15 } [] family = "middle" -> { 3, 4 } \cup 12 .. 15
          [] family = "large" -> { 3, 4, 6, 7 } \cup 12 .. 15

analogPinToChannel(p) == IF p < 8 THEN p ELSE IF p >= 24 THEN p - 24 ELSE -1
analogInputToDigitalPin(p) == IF p < 8 THEN p + 24 ELSE -1
digitalPinToInterrupt(p) == CASE p = 2 -> 2 [] p = 10 -> 0 [] p = 11 -> 1 [] OTHER -> -1
digitalPinToPCMSK(p)    == CASE p <= 7 -> 1 [] p <= 15 -> 3 [] p <= 23 -> 2 [] OTHER -> 0
digitalPinToPCICRbit(p) == CASE p <= 7 -> 1 [] p <= 15 -> 3 [] p <= 23 -> 2 [] OTHER -> 0
std_pin_to_PCMSKbit(p) == p % 8

\* What the chips have at a place: outputs of timers, external interrupts,
\* and the group of pin change interrupts of a port.
OutputAt(family, place) ==
  CASE place = << "B", 3 >> -> "0A" [] place = << "D", 4 >> -> "1B" [] place = << "D", 5 >> -> "1A"
    [] place = << "D", 7 >> -> IF family = "small" THEN "2" ELSE "2A"
    [] place = << "B", 4 >> /\ family # "small" -> "0B"
    [] place = << "D", 6 >> /\ family # "small" -> "2B"
    [] place = << "B", 6 >> /\ family = "large" -> "3A"
    [] place = << "B", 7 >> /\ family = "large" -> "3B"
    [] OTHER -> "none"
InterruptAt(place) ==
  CASE place = << "D", 2 >> -> 0 [] place = << "D", 3 >> -> 1 [] place = << "B", 2 >> -> 2 [] OTHER -> -1
ChangeGroup(p) == CASE p = "A" -> 0 [] p = "B" -> 1 [] p = "C" -> 2 [] p = "D" -> 3

(***************************************************************************)
(* Properties.                                                             *)
(***************************************************************************)

\* Setting the mode or the level of a pin changes that of its place and of no
\* other, and the SPI pins of a map are those of the chip, so that SS is the
\* pin that init() must make an output (Sd2PinMap.h:595-626, Sd2Card.cpp:260).
MapIsOwn ==
  LET rows == { Row(pinMap, p) : p \in 0 .. digitalPinCount(pinMap) - 1 } IN
  /\ mapDdr = { Row(pinMap, p) : p \in outputs }
  /\ mapPort = { Row(pinMap, p) : p \in highs }
  /\ \A p, q \in 0 .. digitalPinCount(pinMap) - 1 : Row(pinMap, p) = Row(pinMap, q) => p = q
  /\ pinMap \notin { "CoreRF", "CoreUSB" } =>
       [i \in 1 .. 4 |-> Row(pinMap, SpiPins(pinMap)[i])] = ChipSpi(pinMap)

\* What was called last.
Said(call) == said # << >> /\ said.call = call

\* The card receives the byte that is sent, and all ones while it is read,
\* and the sketch the byte that the card sends; shifted the other way round,
\* a byte arrives and is taken with its bits in that order (Sd2Card.cpp:54-102,
\* wiring_shift.c:26-55).
SpiIsTransparent ==
  /\ Said("spi") =>
       /\ heard[1] = said.out \o [k \in 1 .. Len(said.in) |-> TRUE]
       /\ heard[2] = said.in
  /\ Said("shift") =>
       LET InOrder(byte) == IF said.order = "LSBFIRST" THEN Reverse(byte) ELSE byte
       IN heard = << InOrder(said.out), InOrder(said.in) >>

\* "We find the fastest clock that is less than or equal to the given clock
\* rate": no other divider of the chip is closer, and the slowest stands for
\* what is slower still (SPI.h:100-103).
SpiClockIsFastest ==
  Said("clock") =>
    LET div == DividerOf(heard) IN
    IF said.clock < F_CPU \div 64 THEN div = 128
    ELSE /\ F_CPU \div div <= said.clock
         /\ \A e \in { 2, 4, 8, 16, 32, 64, 128 } : e < div => F_CPU \div e > said.clock

\* A pulse that is measured is the first that begins after the call, and its
\* length that which it had: a time-out, or a pulse too short to be seen to last,
\* gives zero, and nothing else does (wiring_pulse.c:31-93, wiring_pulse.S:29-48).
PulseIsMeasured ==
  Said("pulse") =>
    LET levels  == said.levels
        pulses  == { p \in (2 .. Len(levels) - 1) \X (2 .. Len(levels) - 1) :
                       /\ p[1] <= p[2] /\ \A k \in p[1] .. p[2] : levels[k] = said.state
                       /\ levels[p[1] - 1] # said.state /\ levels[p[2] + 1] # said.state }
        first   == CHOOSE p \in pulses : \A q \in pulses : p[1] <= q[1]
        length  == first[2] - first[1] + 1
    IN /\ pulses = {} => heard = << 0, 0 >>
       /\ pulses # {} =>
            /\ heard[1] = (IF length = 1 \/ first[2] > said.timeout + 1 THEN 0 ELSE length)
            /\ heard[2] \in { 0, length } /\ (first[2] <= said.timeout => heard[2] = length)

\* A pin of the standard variant has one place in all tables, and what they
\* promise of it is what the chip has at that place (standard/pins_arduino.h).
TablesAgree ==
  pinMap = "Standard" =>
    \A p \in 0 .. 31 :
      LET place == StandardPlace(p) IN
      /\ place = Row("Standard", p)
      /\ \A family \in { "small", "middle", "large" } :
           /\ std_pin_to_timer(family, p) = OutputAt(family, place)
           /\ digitalPinHasPWM(family, p) = (std_pin_to_timer(family, p) # "none")
      /\ digitalPinToInterrupt(p) = InterruptAt(place)
      /\ place[1] = "A" => /\ analogPinToChannel(p) = place[2]
                           /\ analogInputToDigitalPin(place[2]) = p
      /\ digitalPinToPCMSK(p) = ChangeGroup(place[1]) /\ digitalPinToPCICRbit(p) = ChangeGroup(place[1])
      /\ std_pin_to_PCMSKbit(p) = place[2]

=============================================================================
