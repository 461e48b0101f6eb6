-------------------------------- MODULE Pins ---------------------------------
(***************************************************************************)
(* Digital and analog pins (wiring_digital.c, wiring_analog.c) with the    *)
(* tables of a board (variants/hmi4dinbox/pins_arduino.h).  The sketch     *)
(* calls pinMode(), digitalWrite(), digitalRead(), analogWrite() and       *)
(* analogRead(); a handler of the sketch interrupts at any step, and       *)
(* writes to its own pins or to those of the sketch, by digitalWrite() or  *)
(* analogWrite(), and reads an analog pin.                                 *)
(*                                                                         *)
(* A place is a port and a bit; two pin numbers may be one place.          *)
(***************************************************************************)
EXTENDS Integers

CONSTANTS
  SketchPins, HandlerPins,  \* the pins that each of the two uses
  AnalogPins,               \* what the sketch passes to analogRead()
  HandlerReads              \* TRUE: the handler calls analogRead() inside one of the sketch too

ASSUME PinsAssumption ==
  /\ SketchPins \cup HandlerPins \subseteq 0 .. 30 /\ AnalogPins \subseteq 0 .. 11 \cup 18 .. 29
  /\ HandlerReads \in BOOLEAN

(***************************************************************************)
(* The tables.                                                             *)
(***************************************************************************)
digital_pin_to_port(p) ==
  CASE p \in 0 .. 4 \cup { 6, 12, 24, 25, 29, 30 }  -> "D"
    [] p \in { 5, 13 }                              -> "C"
    [] p = 7                                        -> "E"
    [] p \in 8 .. 11 \cup 14 .. 17 \cup 26 .. 28    -> "B"
    [] OTHER                                        -> "F"

digital_pin_to_bit(p) ==
  << 2, 3, 1, 0, 4, 6, 7, 6,  4, 5, 6, 7, 6, 7,  3, 1, 2, 0,  7, 6, 5, 4, 1, 0,
     4, 7, 4, 5, 6, 6, 5 >>[p + 1]

digital_pin_to_timer(p) ==
  CASE p = 3 -> "0B" [] p = 5 -> "3A" [] p = 6 -> "4D" [] p = 9 -> "1A"
    [] p = 10 -> "1B" [] p = 11 -> "0A" [] p = 13 -> "4A" [] OTHER -> "none"

analog_pin_to_channel(i) == << 7, 6, 5, 4, 1, 0, 8, 10, 11, 12, 13, 9 >>[i + 1]

digitalPinToPCMSKbit(p) ==
  CASE p \in 8 .. 11 -> p - 4 [] p = 14 -> 3 [] p = 15 -> 1 [] p = 16 -> 2 [] p = 17 -> 0
    [] OTHER -> p - 26 + 4

Place(p) == << digital_pin_to_port(p), digital_pin_to_bit(p) >>
Places == { Place(p) : p \in SketchPins \cup HandlerPins }

\* What the chip has at a place: the output of a timer, an analog channel.
TimerAt(place) ==
  CASE place = << "D", 0 >> -> "0B" [] place = << "C", 6 >> -> "3A" [] place = << "D", 7 >> -> "4D"
    [] place = << "B", 5 >> -> "1A" [] place = << "B", 6 >> -> "1B" [] place = << "B", 7 >> -> "0A"
    [] place = << "C", 7 >> -> "4A" [] OTHER -> "none"

ChannelAt(place) ==
  CASE place[1] = "F" -> place[2]
    [] place = << "D", 4 >> -> 8  [] place = << "D", 6 >> -> 9  [] place = << "D", 7 >> -> 10
    [] OTHER -> place[2] + 7      \* port B

\* Which outputs a register TCCRnA or TCCRnC connects.
Register(timer) ==
  CASE timer \in { "0A", "0B" } -> { "0A", "0B" } [] timer \in { "1A", "1B" } -> { "1A", "1B" }
    [] OTHER -> { timer }

VARIABLES
  ddr, port,        \* bits of DDRx and PORTx that are set
  com,              \* outputs of timers that are connected to their pins
  pinsPc, pin, val, \* the call of the sketch
  read,             \* what it has read of a register
  admux, converting,\* the analog converter
  wanted,           \* by place: what the last call for it asked for
  undone,           \* places whose timer is not as asked, since the handler wrote to
                    \* its register when the sketch had read or cleared it
  wrong             \* an analogRead() returned another channel than its pin's

pinsVars == << ddr, port, com, pinsPc, pin, val, read, admux, converting, wanted, undone, wrong >>

Set(bits, place, on) == IF on THEN bits \cup { place } ELSE bits \ { place }
PinsStep(from, to) == pinsPc = from /\ pinsPc' = to

(***************************************************************************)
(* The sketch.  pinMode() is one step: it disables interrupts.             *)
(***************************************************************************)
pinMode(p, mode) ==
  /\ PinsStep("idle", "idle")
  /\ ddr' = Set(ddr, Place(p), mode = "OUTPUT")
  /\ port' = IF mode = "OUTPUT" THEN port ELSE Set(port, Place(p), mode = "INPUT_PULLUP")
  /\ wanted' = [wanted EXCEPT ![Place(p)] = IF mode = "OUTPUT" THEN @ ELSE "none"]
  /\ UNCHANGED << com, pin, val, read, admux, converting, undone, wrong >>

\* Mutant: the output of the timer stays on.
DigitalKeepsPwm(p, v) ==
  /\ PinsStep("idle", "level")
  /\ pin' = p /\ val' = v
  /\ UNCHANGED << ddr, port, com, read, admux, converting, wanted, undone, wrong >>

\* A write, or a read, which does not change the level ("none"), and which
\* ends an analogWrite() too.
Digital(p, v) ==
  /\ PinsStep("idle", IF digital_pin_to_timer(p) # "none" THEN "turnOff" ELSE "level")
  /\ pin' = p /\ val' = v
  /\ UNCHANGED << ddr, port, com, read, admux, converting, wanted, undone, wrong >>

digitalWrite(p, v) == Digital(p, v)
digitalRead(p)     == Digital(p, "none")

analogWrite(p, v) ==
  /\ PinsStep("idle", CASE v = "pwm" /\ digital_pin_to_timer(p) # "none" -> "connect"
                        [] v # "pwm" /\ digital_pin_to_timer(p) # "none" -> "turnOff"
                        [] OTHER -> "level")
  /\ ddr' = ddr \cup { Place(p) }
  /\ pin' = p /\ val' = IF v = "pwm" /\ digital_pin_to_timer(p) = "none" THEN "low" ELSE v
  /\ UNCHANGED << port, com, read, admux, converting, wanted, undone, wrong >>

\* turnOffPWM() and its opposite: the register is read, then written.
ReadRegister ==
  /\ \/ PinsStep("turnOff", "turnedOff") \/ PinsStep("connect", "connected")
  /\ read' = com \cap Register(digital_pin_to_timer(pin))
  /\ UNCHANGED << ddr, port, com, pin, val, admux, converting, wanted, undone, wrong >>

\* Places whose output the handler has turned on or off since the register was
\* read, and which the write of it turns back.
TurnedBack(t) ==
  { place \in Places : /\ TimerAt(place) \in Register(t) \ { t }
                       /\ TimerAt(place) \in com <=> TimerAt(place) \notin read }

WriteRegister ==
  LET t == digital_pin_to_timer(pin) IN
  /\ \/ /\ PinsStep("turnedOff", "level")
        /\ com' = (com \ Register(t)) \cup (read \ { t }) /\ UNCHANGED wanted
     \/ /\ PinsStep("connected", "idle")
        /\ com' = (com \ Register(t)) \cup read \cup { t }
        /\ wanted' = [wanted EXCEPT ![Place(pin)] = "pwm"]
  /\ undone' = (undone \ { Place(pin) }) \cup TurnedBack(t)
  /\ read' = {} /\ val' = IF pinsPc = "connected" THEN "none" ELSE val
  /\ UNCHANGED << ddr, port, pin, admux, converting, wrong >>

WriteLevel ==
  /\ PinsStep("level", "idle")
  /\ port' = IF val = "none" THEN port ELSE Set(port, Place(pin), val = "high")
  /\ wanted' = [wanted EXCEPT ![Place(pin)] =
                  IF val # "none" THEN val
                  ELSE IF @ = "pwm" /\ TimerAt(Place(pin)) \notin com THEN "none" ELSE @]
  /\ val' = "none"
  /\ UNCHANGED << ddr, com, pin, read, admux, converting, undone, wrong >>

(***************************************************************************)
(* analogRead(), for the number of a pin or of an analog input.            *)
(***************************************************************************)
Channel(p) == analog_pin_to_channel(IF p >= 18 THEN p - 18 ELSE p)

Select(p) ==
  /\ PinsStep("idle", "convert") /\ pin' = p /\ admux' = Channel(p)
  /\ UNCHANGED << ddr, port, com, val, read, converting, wanted, undone, wrong >>

Convert ==
  /\ PinsStep("convert", "result") /\ converting' = admux
  /\ UNCHANGED << ddr, port, com, pin, val, read, admux, wanted, undone, wrong >>

Result ==
  /\ PinsStep("result", "idle")
  /\ wrong' = (wrong \/ converting # ChannelAt(Place(IF pin >= 18 THEN pin ELSE pin + 18)))
  /\ converting' = 0 /\ admux' = 0
  /\ UNCHANGED << ddr, port, com, pin, val, read, wanted, undone >>

(***************************************************************************)
(* The handler may connect again the timer of a pin whose level the sketch *)
(* is about to write, having disconnected it: the output then stays on.    *)
(***************************************************************************)
Reconnects(p, v) == v = "pwm" /\ pinsPc = "level" /\ val # "none" /\ Place(p) = Place(pin)

(***************************************************************************)
(* The handler runs to its end.                                            *)
(***************************************************************************)
HandlerWrites(p, v) ==
  /\ v = "pwm" => digital_pin_to_timer(p) # "none"
  /\ com' = Set(com, digital_pin_to_timer(p), v = "pwm")
  /\ port' = IF v = "pwm" THEN port ELSE Set(port, Place(p), v = "high")
  /\ ddr' = IF v = "pwm" THEN ddr \cup { Place(p) } ELSE ddr
  /\ wanted' = [wanted EXCEPT ![Place(p)] = v]
  /\ undone' = Set(undone, Place(p), Reconnects(p, v))
  /\ UNCHANGED << pinsPc, pin, val, read, admux, converting, wrong >>

HandlerReadsAnalog(p) ==
  /\ HandlerReads \/ pinsPc \notin { "convert", "result" }
  /\ admux' = Channel(p) /\ converting' = Channel(p)
  /\ UNCHANGED << ddr, port, com, pinsPc, pin, val, read, wanted, undone, wrong >>

PinsInit ==
  /\ ddr = {} /\ port = {} /\ com = {} /\ pinsPc = "idle" /\ pin = 0 /\ val = "none" /\ read = {}
  /\ admux = 0 /\ converting = 0 /\ wanted = [place \in Places |-> "none"]
  /\ undone = {} /\ wrong = FALSE

PinsNext ==
  \/ \E p \in SketchPins :
       \/ \E mode \in { "INPUT", "INPUT_PULLUP", "OUTPUT" } : pinMode(p, mode)
       \/ \E v \in { "low", "high" } : digitalWrite(p, v)
       \/ digitalRead(p)
       \/ \E v \in { "low", "high", "pwm" } : analogWrite(p, v)
  \/ ReadRegister \/ WriteRegister \/ WriteLevel \/ Convert \/ Result
  \/ \E p \in AnalogPins : Select(p) \/ HandlerReadsAnalog(p)
  \/ \E p \in HandlerPins, v \in { "low", "high", "pwm" } : HandlerWrites(p, v)

PinsSpec == PinsInit /\ [][PinsNext]_pinsVars

PinsTypeOK ==
  /\ ddr \cup port \cup undone \subseteq Places /\ com \cup read \subseteq { TimerAt(place) : place \in Places }
  /\ pinsPc \in { "idle", "turnOff", "turnedOff", "level", "connect", "connected", "convert", "result" }
  /\ pin \in SketchPins \cup AnalogPins \cup { 0 } /\ val \in { "none", "low", "high", "pwm" }
  /\ { admux, converting } \subseteq 0 .. 15
  /\ wanted \in [Places -> { "none", "low", "high", "pwm" }] /\ wrong \in BOOLEAN

(***************************************************************************)
(* Properties.                                                             *)
(***************************************************************************)

\* A place has the level of the last digitalWrite() for it, or the output of
\* its timer after analogWrite(), whatever the handler writes to the same port or
\* the same timer meanwhile: "If the pin that support PWM output, we need to turn
\* it off before doing a digital write" (wiring_digital.c:147).  The level is so
\* always; the output of the timer is so unless the sketch had read its register
\* and wrote it back after the handler, or had turned it off before.
LevelIsHeld ==
  pinsPc = "idle" =>
    \A place \in Places :
      /\ wanted[place] \in { "low", "high" } =>
           /\ (place \in port) = (wanted[place] = "high")
           /\ place \in undone \/ TimerAt(place) \notin com
      /\ wanted[place] = "pwm" => place \in undone \/ TimerAt(place) \in com

\* An analogRead() returns a conversion of the channel at its pin, by either
\* of its numbers, and pin change interrupts are those of the bit that a pin
\* has in port B (pins_arduino.h:152, :351).
PinsAreOwn ==
  /\ ~wrong
  /\ \A p \in 8 .. 11 \cup 14 .. 17 \cup 26 .. 28 : digitalPinToPCMSKbit(p) = digital_pin_to_bit(p)

\* A pin holds what the last call for it asked, also when a handler sets any
\* pin at any step, but for the two races named above, and what is read of a pin is
\* that pin's
\* (wiring_digital.c:29-179, wiring_analog.c:38-292).
PinsAreSound == LevelIsHeld /\ PinsAreOwn

=============================================================================
