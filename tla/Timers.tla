------------------------------- MODULE Timers --------------------------------
(***************************************************************************)
(* The timers of the chip and those who share them: init() and the PWM of  *)
(* the core (wiring.c, wiring_analog.c, wiring_digital.c), tone() (Tone.cpp) *)
(* and the Servo library.  A register is the set of its bits that are on;  *)
(* the sketch changes a bit in two steps, a read and a write, and the      *)
(* handlers of tone and servos run in between.                             *)
(*                                                                         *)
(* The steps of tone() and of the pulses are in modules Tone and Servo,    *)
(* those of a port in module Pins.                                         *)
(***************************************************************************)
EXTENDS Integers, FiniteSets

CONSTANTS
  TimerChips,       \* of "ATmega1284P", "ATmega32U4", "ATmega32"
  PwmOutputs,       \* << timer, channel >> that sketches use
  Prescalers,       \* prescalarbits that the tones of the sketch come to
  Careless          \* TRUE: the sketch uses pins and outputs that serve as something else

ASSUME TimersAssumption ==
  /\ TimerChips \subseteq { "ATmega1284P", "ATmega32U4", "ATmega32" }
  /\ PwmOutputs \subseteq (0 .. 4) \X { "A", "B", "C", "D" }
  /\ Prescalers \subseteq 1 .. 7 /\ Careless \in BOOLEAN

VARIABLES
  timerChip,        \* the chip of the board
  bitsOn,           \* the bits of its registers that are on
  booted,           \* init() has run
  change,           \* a change of a bit that is under way
  tonePlace,        \* tone_pins[0]
  toneEnds,         \* the tone has a duration
  servosOn,         \* << sequence, pin >> of the servos that are attached
  ocrOf,            \* by timer: who wrote OCRnA last
  dimmed            \* the outputs whose last call was analogWrite()

timersVars == << timerChip, bitsOn, booted, change, tonePlace, toneEnds, servosOn, ocrOf, dimmed >>

(***************************************************************************)
(* The chips: the outputs of their timers, and which register has a bit.   *)
(***************************************************************************)
Timers == 0 .. 4
Plain  == << -1, "none" >>   \* a pin without a timer
NoPlace == << -2, "none" >>

OutputsOf(c) ==
  CASE c = "ATmega1284P" -> (0 .. 3) \X { "A", "B" }
    [] c = "ATmega32U4"  -> ((0 .. 1) \X { "A", "B" }) \cup { << 1, "C" >>, << 3, "A" >>, << 4, "A" >>, << 4, "D" >> }
    [] c = "ATmega32"    -> { << 0, "A" >>, << 1, "A" >>, << 1, "B" >>, << 2, "A" >> }
PlacesOf(c) == (PwmOutputs \cap OutputsOf(c)) \cup { Plain }

WGM(n, k)   == << "WGM", n, k >>
CS(n, k)    == << "CS", n, k >>
COM(output) == << "COM", output[1], output[2] >>
PWM4(ch)    == << "PWM", 4, ch >>
OCIEA(n)    == << "OCIE", n, 0 >>
TOIE0       == << "TOIE", 0, 0 >>

\* Old chips have one register for the whole of a timer of eight bits and one
\* mask for all interrupts; tone() knows them by the names of the others.
Home(bit) ==
  LET n == bit[2] IN
  CASE bit[1] \in { "OCIE", "TOIE" } -> IF timerChip = "ATmega32" THEN << "TIMSK", 0 >> ELSE << "TIMSK", n >>
    [] timerChip = "ATmega32" /\ n \in { 0, 2 } -> << "TCCR", n >>
    [] n = 4 /\ bit[1] = "WGM" -> << "TCCRD", 4 >>
    [] bit \in { COM(<< 4, "D" >>), PWM4("D") } -> << "TCCRC", 4 >>
    [] bit[1] \in { "COM", "PWM" } \/ (bit[1] = "WGM" /\ bit[3] < 2) -> << "TCCRA", n >>
    [] OTHER -> << "TCCRB", n >>

TCCRA(n) == Home(WGM(n, 0))
TCCRB(n) == Home(CS(n, 0))
TIMSK(n) == Home(OCIEA(n))

\* What is left of the bits when registers are set to 0; the value of one.
BitsOutside(bits, registers) == { bit \in bits : Home(bit) \notin registers }
ValueOf(bits, register)  == { bit \in bits : Home(bit) = register }

CsBits(n, value) == { CS(n, k) : k \in { j \in 0 .. 3 : (value \div 2^j) % 2 = 1 } }

\* What a timer does with its bits.
Mode(n) ==
  LET wgm == { k \in 0 .. 3 : WGM(n, k) \in bitsOn } IN
  CASE wgm = {} -> "normal" [] wgm = { 0 } -> "phase correct" [] wgm = { 0, 1 } -> "fast"
    [] wgm = (IF n \in { 0, 2 } THEN { 1 } ELSE { 2 }) -> "ctc" [] OTHER -> "other"

Divider(n) ==
  LET bit(k) == IF CS(n, k) \in bitsOn THEN 2^k ELSE 0
      value  == bit(0) + bit(1) + bit(2) + bit(3)
  IN CASE value = 0 -> 0
       [] n = 4 -> 2^(value - 1)
       [] n = 2 -> << 1, 8, 32, 64, 128, 256, 1024 >>[value]
       [] OTHER -> << 1, 8, 64, 256, 1024 >>[value]

(***************************************************************************)
(* init(): timer 0 for the clock, and all others for PWM.                  *)
(***************************************************************************)
Timer0Bits == { WGM(0, 1), WGM(0, 0), CS(0, 1), CS(0, 0), TOIE0 }
Timer1Bits == { CS(1, 1), CS(1, 0), WGM(1, 0) }
Timer2Bits == { CS(2, 2), WGM(2, 0) }
Timer3Bits == { CS(3, 1), CS(3, 0), WGM(3, 0) }
Timer4Bits == { CS(4, 2), CS(4, 1), CS(4, 0), WGM(4, 0), PWM4("A"), PWM4("D") }

initTimers ==
  /\ ~booted /\ booted' = TRUE
  /\ bitsOn' = Timer0Bits \cup Timer1Bits
           \cup (CASE timerChip = "ATmega32" -> Timer2Bits [] timerChip = "ATmega1284P" -> Timer2Bits \cup Timer3Bits
                   [] timerChip = "ATmega32U4" -> Timer3Bits \cup Timer4Bits)
  /\ UNCHANGED << timerChip, change, tonePlace, toneEnds, servosOn, ocrOf, dimmed >>

\* The clock of the converter for a clock of the chip (in kHz): both cores.
AdcDivider(kHz) ==
  CASE kHz >= 16000 -> 128 [] kHz >= 8000 -> 64 [] kHz >= 4000 -> 32 [] kHz >= 2000 -> 16
    [] kHz >= 1000 -> 8 [] OTHER -> 2
AdcDividerMighty == 128

(***************************************************************************)
(* Changes of one bit of a register by the sketch: sbi and cbi.            *)
(***************************************************************************)
Idle == [bit |-> << "none", 0, 0 >>, set |-> FALSE, read |-> {}]
Free == booted /\ change = Idle

toneTimer == IF timerChip = "ATmega32U4" THEN 3 ELSE 2
Sounding  == OCIEA(toneTimer) \in bitsOn

\* The registers that the end of a tone writes.
EndWrites == { TIMSK(toneTimer) } \cup (IF toneTimer = 2 THEN { TCCRA(2), TCCRB(2) } ELSE {})
Undisturbed(bit) == Careless \/ ~(Sounding /\ toneEnds /\ Home(bit) \in EndWrites)

BeginChange(bits, bit, set) == change' = [bit |-> bit, set |-> set, read |-> ValueOf(bits, Home(bit))]

EndChange ==
  /\ change # Idle /\ change' = Idle
  /\ LET bit == change.bit
         value == IF change.set THEN change.read \cup { bit } ELSE change.read \ { bit }
     IN /\ bitsOn' = BitsOutside(bitsOn, { Home(bit) }) \cup value
        /\ IF bit[1] = "COM" /\ change.set
           THEN /\ dimmed' = dimmed \cup { << bit[2], bit[3] >> }
                /\ ocrOf' = IF bit[3] = "A" THEN [ocrOf EXCEPT ![bit[2]] = "pwm"] ELSE ocrOf
           ELSE UNCHANGED << dimmed, ocrOf >>
  /\ UNCHANGED << timerChip, booted, tonePlace, toneEnds, servosOn >>

(***************************************************************************)
(* The pins: analogWrite() of 1 to 254, and the calls that turn PWM off:   *)
(* digitalWrite(), digitalRead(), analogWrite() of 0 or 255.               *)
(***************************************************************************)
ServoOn(n)  == OCIEA(n) \in bitsOn /\ n # toneTimer
InUse(p)    == p = tonePlace \/ \E s \in servosOn : s[2] = p
TakenTimer(n) == ServoOn(n) \/ (n = toneTimer /\ (Sounding \/ tonePlace # NoPlace))

connectPWM(p) ==
  /\ Free /\ p # Plain /\ (Careless \/ ~(InUse(p) \/ TakenTimer(p[1])))
  /\ Undisturbed(COM(p)) /\ BeginChange(bitsOn, COM(p), TRUE)
  /\ UNCHANGED << timerChip, bitsOn, booted, tonePlace, toneEnds, servosOn, ocrOf, dimmed >>

turnOffPWM(p) ==
  /\ Free /\ p # Plain
  /\ Undisturbed(COM(p)) /\ BeginChange(bitsOn, COM(p), FALSE)
  /\ dimmed' = dimmed \ { p }
  /\ UNCHANGED << timerChip, bitsOn, booted, tonePlace, toneEnds, servosOn, ocrOf >>

(***************************************************************************)
(* tone() and noTone(), and the handler that ends a tone.                  *)
(***************************************************************************)
CtcBit(n) == IF n = 2 THEN WGM(2, 1) ELSE WGM(n, 2)

toneBegin(p) ==
  LET n == toneTimer IN
  IF tonePlace = p THEN bitsOn ELSE BitsOutside(bitsOn, { TCCRA(n), TCCRB(n) }) \cup { CtcBit(n), CS(n, 0) }

\* Another pin gets a tone when the one before it has left the table.
tone(p, value, lasts) ==
  LET n == toneTimer IN
  /\ Free /\ tonePlace \in { p, NoPlace }
  /\ n = 2 \/ value \in { 1, 3 }
  /\ Careless \/ (p \notin dimmed /\ \A s \in servosOn : s[2] # p)
  /\ bitsOn' = (toneBegin(p) \ CsBits(n, 7)) \cup CsBits(n, value) \cup { OCIEA(n) }
  /\ tonePlace' = p /\ toneEnds' = lasts
  /\ ocrOf' = [ocrOf EXCEPT ![n] = "tone"]
  /\ dimmed' = { o \in dimmed : o[1] # n }
  /\ UNCHANGED << timerChip, booted, change, servosOn >>

timerGivenBack ==
  IF toneTimer = 2
  THEN (BitsOutside(bitsOn \ { OCIEA(2) }, { TCCRA(2) }) \ CsBits(2, 7)) \cup { WGM(2, 0), CS(2, 2) }
  ELSE bitsOn \ { OCIEA(3) }

Disabled == /\ ocrOf' = IF toneTimer = 2 THEN [ocrOf EXCEPT ![2] = "none"] ELSE ocrOf
            /\ toneEnds' = FALSE

\* The level it writes at last turns off the PWM of the pin.
noTone(p) ==
  /\ Free
  /\ IF tonePlace = p THEN bitsOn' = timerGivenBack /\ tonePlace' = NoPlace /\ Disabled
                      ELSE UNCHANGED << bitsOn, tonePlace, ocrOf, toneEnds >>
  /\ IF p = Plain THEN UNCHANGED change ELSE BeginChange(bitsOn', COM(p), FALSE)
  /\ tonePlace # p => Undisturbed(COM(p))
  /\ dimmed' = dimmed \ { p }
  /\ UNCHANGED << timerChip, booted, servosOn >>

ToneIsOver ==
  /\ Sounding /\ (toneEnds \/ tonePlace = NoPlace)
  /\ bitsOn' = IF toneTimer = 2 THEN timerGivenBack \ { COM(tonePlace) } ELSE timerGivenBack
  /\ tonePlace' = IF toneTimer = 2 THEN NoPlace ELSE tonePlace
  /\ Disabled
  /\ dimmed' = IF toneTimer = 2 THEN dimmed \ { tonePlace } ELSE dimmed
  /\ UNCHANGED << timerChip, booted, change, servosOn >>

(***************************************************************************)
(* Servos: twelve to a timer, in the order of timer16_Sequence_t.          *)
(***************************************************************************)
ServoTimers == IF timerChip = "ATmega1284P" THEN << 3, 1 >> ELSE << 1 >>
servosActive(n) == \E s \in servosOn : s[1] = n

\* Normal counting with a divider of 8.  The mask of timer 1 may be that of
\* other timers too and is read first; that of timer 3 is set as a whole.
initISR(n) ==
  LET begun == BitsOutside(bitsOn, { TCCRA(n), TCCRB(n) }) \cup { CS(n, 1) } IN
  IF n = 1 THEN Undisturbed(OCIEA(1)) /\ bitsOn' = begun /\ BeginChange(begun, OCIEA(1), TRUE)
           ELSE bitsOn' = BitsOutside(begun, { TIMSK(n) }) \cup { OCIEA(n) } /\ UNCHANGED change

AttachServo(k, p) ==
  LET n == ServoTimers[k] IN
  /\ Free /\ k \in DOMAIN ServoTimers /\ << n, p >> \notin servosOn
  /\ Careless \/ ~(p \in dimmed \/ InUse(p))
  /\ IF servosActive(n) THEN UNCHANGED << bitsOn, change, dimmed >>
     ELSE initISR(n) /\ dimmed' = { o \in dimmed : o[1] # n }
  /\ servosOn' = servosOn \cup { << n, p >> }
  /\ UNCHANGED << timerChip, booted, tonePlace, toneEnds, ocrOf >>

\* The timer is left as it is: finISR() does nothing.
DetachServo(k, p) ==
  /\ Free /\ k \in DOMAIN ServoTimers /\ << ServoTimers[k], p >> \in servosOn
  /\ servosOn' = servosOn \ { << ServoTimers[k], p >> }
  /\ UNCHANGED << timerChip, bitsOn, booted, change, tonePlace, toneEnds, ocrOf, dimmed >>

\* The compare match, with the edge of a pulse or between two.
Pulse(n) ==
  /\ ServoOn(n)
  /\ ocrOf' = [ocrOf EXCEPT ![n] = "servo"]
  /\ bitsOn' \in { bitsOn } \cup { bitsOn \ { COM(s[2]) } : s \in { a \in servosOn : a[1] = n } }
  /\ UNCHANGED << timerChip, booted, change, tonePlace, toneEnds, servosOn, dimmed >>

(***************************************************************************)
(* Specification and properties.                                           *)
(***************************************************************************)
TimersInit ==
  /\ timerChip \in TimerChips /\ bitsOn = {} /\ booted = FALSE /\ change = Idle
  /\ tonePlace = NoPlace /\ toneEnds = FALSE /\ servosOn = {}
  /\ ocrOf = [n \in Timers |-> "none"] /\ dimmed = {}

TimersNext ==
  \/ initTimers \/ EndChange \/ ToneIsOver
  \/ \E p \in PlacesOf(timerChip) :
       \/ connectPWM(p) \/ turnOffPWM(p) \/ noTone(p)
       \/ \E value \in Prescalers, lasts \in BOOLEAN : tone(p, value, lasts)
       \/ \E k \in 1 .. 2 : AttachServo(k, p) \/ DetachServo(k, p)
  \/ \E n \in { 1, 3 } : Pulse(n)

TimersSpec == TimersInit /\ [][TimersNext]_timersVars

TimersTypeOK ==
  /\ timerChip \in TimerChips /\ booted \in BOOLEAN /\ toneEnds \in BOOLEAN
  /\ tonePlace \in PlacesOf(timerChip) \cup { NoPlace }
  /\ servosOn \subseteq { 1, 3 } \X PlacesOf(timerChip) /\ dimmed \subseteq PlacesOf(timerChip) \ { Plain }
  /\ ocrOf \in [Timers -> { "none", "pwm", "tone", "servo" }]

\* Whoever uses the other timers, timer 0 counts as millis() supposes: it wraps
\* every 256 counts of 64 cycles and interrupts then (wiring.c:27-29, :196-233).
ClockCounts == booted => Mode(0) = "fast" /\ Divider(0) = 64 /\ TOIE0 \in bitsOn

\* An output that analogWrite() has set is connected to a timer that makes PWM
\* of its value at the frequency of init(), unless the sketch or a library took
\* the timer after that; tone() gives timer 2 back, whatever the sketch was doing when
\* the tone ended, and timer 3 never (Tone.cpp:423-469, wiring_analog.c:91-281).
DimmedIsPwm ==
  \A o \in dimmed :
    (o[1] # toneTimer \/ toneTimer = 2) =>
      /\ COM(o) \in bitsOn /\ Divider(o[1]) = 64 /\ Mode(o[1]) \in { "phase correct", "fast" }
      /\ o[1] = 4 => PWM4(o[2]) \in bitsOn
      /\ o[2] = "A" => ocrOf[o[1]] = "pwm"

\* A tone and the servos have a timer each, which counts the way they set it,
\* up to the value that they wrote, and the pin of a tone is the port's.
TakenIsOwn ==
  /\ Sounding /\ tonePlace # NoPlace =>
       Mode(toneTimer) = "ctc" /\ Divider(toneTimer) # 0 /\ ocrOf[toneTimer] = "tone" /\ COM(tonePlace) \notin bitsOn
  /\ \A n \in { 1, 3 } : ServoOn(n) =>
       n # toneTimer /\ Mode(n) = "normal" /\ Divider(n) = 8 /\ ocrOf[n] # "tone"
  /\ \A s \in servosOn : ServoOn(s[1]) \/ (change.set /\ change.bit = OCIEA(s[1]))

\* The converter runs between 50 and 200 kHz, as the comments of both cores say
\* (wiring.c:353), in the one for the clock of its board, in the other for every
\* clock that delayMicroseconds() knows.
ConverterIsInRange ==
  /\ 16000 \div AdcDividerMighty \in 50 .. 200
  /\ \A mhz \in { 1, 8, 12, 16, 20, 24 } : (mhz * 1000) \div AdcDivider(mhz * 1000) \in 50 .. 200

TimersAreShared == ClockCounts /\ DimmedIsPwm /\ TakenIsOwn /\ ConverterIsInRange

=============================================================================
