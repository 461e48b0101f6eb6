-------------------------------- MODULE Tone --------------------------------
(***************************************************************************)
(* Square waves on a pin (Tone.cpp), with the one timer a board has for    *)
(* it, timer 3 of an ATmega32U4 or else timer 2: tone() and noTone() of    *)
(* the sketch against the compare match interrupt, which toggles the pin   *)
(* and ends a tone by itself.                                              *)
(*                                                                         *)
(* The number of toggles left has four bytes and is written without a      *)
(* lock; two parts of it, of Half values each, show what that means.  The  *)
(* pins are of one port, so that one byte, the mask, tells them apart.     *)
(***************************************************************************)
EXTENDS Integers, Sequences

CONSTANTS
  TonePins, NoPin,  \* the pins, and 255
  Half,             \* values of the low part of timer2_toggle_count
  Toggles,          \* what frequency and duration come to; -1 is for ever
  ToneTimers        \* the timers that are looked at, of 2 and 3

ASSUME ToneAssumption ==
  /\ TonePins # {} /\ NoPin \notin TonePins /\ Half \in Nat \ {0, 1}
  /\ Toggles \subseteq { -1 } \cup Nat
  /\ ToneTimers \subseteq { 2, 3 }

VARIABLES
  soundsOn,         \* tone_pin_to_timer_PGM[0]
  tone_pins,        \* tone_pins[0]
  pin_port,         \* timer2_pin_port and timer2_pin_mask
  toggle_count,     \* timer2_toggle_count, its parts
  ctc,              \* the timer is in CTC mode; else phase correct PWM
  ocra,             \* OCRnA has the value of the tone
  ocie,             \* TIMSKn, OCIEnA
  level,            \* the pins
  tonePc,           \* "idle", or the step of tone() or noTone()
  tonePin,          \* _pin of the call
  toneCount,        \* toggle_count of the call
  found,            \* _timer of noTone() is not -1
  cutShort,         \* the handler of timer 2 has ended a tone within tone()
  quiet             \* pins for which noTone() was the last call to return

waveVars == << soundsOn, pin_port, toggle_count, ctc, ocra, ocie >>
toneVars == << tone_pins, waveVars, level, tonePc, tonePin, toneCount, found,
               cutShort, quiet >>

Parts(n) == [low |-> n % Half, high |-> n \div Half]
Whole(parts) == parts.high * Half + parts.low

(***************************************************************************)
(* tone(): the entry of the table, the registers, the count, the interrupt *)
(* - which is on already when the pin sounds.                              *)
(***************************************************************************)
ToneBegin(p, n) ==
  /\ tonePc = "idle"
  /\ tonePin' = p /\ toneCount' = n
  /\ \/ /\ tone_pins = p /\ tonePc' = "ocr"
        /\ quiet' = quiet \ { p } /\ UNCHANGED << tone_pins, cutShort >>
     \/ /\ tone_pins = NoPin /\ tonePc' = "timer"
        /\ tone_pins' = p /\ cutShort' = FALSE /\ quiet' = quiet \ { p }
     \/ /\ tone_pins \notin { p, NoPin }
        /\ UNCHANGED << tonePc, tone_pins, cutShort, quiet >>
  /\ UNCHANGED << waveVars, level, found >>

Step(from, to) == tonePc = from /\ tonePc' = to

SetTimer ==
  /\ Step("timer", "ocr") /\ ctc' = TRUE /\ pin_port' = tonePin
  /\ UNCHANGED << soundsOn, tone_pins, toggle_count, ocra, ocie, level, tonePin, toneCount, found,
                  cutShort, quiet >>

SetOcr ==
  /\ Step("ocr", "low") /\ ocra' = TRUE
  /\ UNCHANGED << soundsOn, tone_pins, pin_port, toggle_count, ctc, ocie, level, tonePin, toneCount,
                  found, cutShort, quiet >>

SetCount ==
  /\ \/ Step("low", "high") /\ toggle_count' = [toggle_count EXCEPT !.low = Parts(toneCount).low]
     \/ Step("high", "enable") /\ toggle_count' = [toggle_count EXCEPT !.high = Parts(toneCount).high]
  /\ UNCHANGED << soundsOn, tone_pins, pin_port, ctc, ocra, ocie, level, tonePin, toneCount, found,
                  cutShort, quiet >>

EnableTimer ==
  /\ Step("enable", "idle") /\ ocie' = TRUE
  /\ UNCHANGED << soundsOn, tone_pins, pin_port, toggle_count, ctc, ocra, level, tonePin, toneCount,
                  found, cutShort, quiet >>

(***************************************************************************)
(* The prescaler and the compare value that tone() looks for: timer 2 has  *)
(* seven dividers and counts to 255, the 16 bit timers take the first or   *)
(* the third of theirs.                                                    *)
(***************************************************************************)
Timer2Dividers  == << 1, 8, 32, 64, 128, 256, 1024 >>
Timer16Dividers == << 1, 64 >>

Ocr(hertz, frequency, divider) == ((hertz \div frequency) \div 2) \div divider - 1

\* The first divider whose value fits, or the last.
FitsTimer(hertz, frequency, divider, top) == Ocr(hertz, frequency, divider) <= top

Prescaler(hertz, frequency, dividers, top) ==
  dividers[CHOOSE i \in DOMAIN dividers :
             /\ i = Len(dividers) \/ FitsTimer(hertz, frequency, dividers[i], top)
             /\ \A j \in 1 .. i - 1 : ~FitsTimer(hertz, frequency, dividers[j], top)]

(***************************************************************************)
(* noTone(), called by the sketch.                                         *)
(***************************************************************************)
disableTimerKeepsIrq == ocie' = ocie /\ ctc' = FALSE /\ ocra' = FALSE

\* Only timer 2 gets its mode and its compare value back.
disableTimer ==
  /\ ocie' = FALSE
  /\ ctc' = (ctc /\ soundsOn = 3) /\ ocra' = (ocra /\ soundsOn = 3)

NoTone(p) ==
  /\ tonePc = "idle" /\ tonePc' = "disable" /\ tonePin' = p
  /\ found' = (tone_pins = p)
  /\ tone_pins' = IF tone_pins = p THEN NoPin ELSE tone_pins
  /\ UNCHANGED << waveVars, level, toneCount, cutShort, quiet >>

Disable ==
  /\ Step("disable", "write")
  /\ IF found THEN disableTimer ELSE UNCHANGED << ocie, ctc, ocra >>
  /\ UNCHANGED << soundsOn, tone_pins, pin_port, toggle_count, level, tonePin, toneCount, found,
                  cutShort, quiet >>

\* A pin that sounds on although it is not in the table is not silenced.
WriteLow ==
  /\ Step("write", "idle")
  /\ level' = [level EXCEPT ![tonePin] = 0]
  /\ quiet' = IF cutShort /\ pin_port = tonePin THEN quiet ELSE quiet \cup { tonePin }
  /\ found' = FALSE
  /\ UNCHANGED << tone_pins, waveVars, tonePin, toneCount, cutShort >>

(***************************************************************************)
(* ISR(TIMER2_COMPA_vect), ISR(TIMER3_COMPA_vect).  The end of a tone on   *)
(* timer 2 is noTone() for the pin of the entry; without one, its          *)
(* digitalWrite goes to no pin of the table.  On timer 3 the entry stays:  *)
(* a tone on another pin has to wait for a noTone().                       *)
(***************************************************************************)
Toggle ==
  /\ ocie /\ Whole(toggle_count) # 0
  /\ level' = [level EXCEPT ![pin_port] = 1 - @]
  /\ toggle_count' = IF Whole(toggle_count) > 0 THEN Parts(Whole(toggle_count) - 1) ELSE toggle_count
  /\ UNCHANGED << soundsOn, tone_pins, pin_port, ctc, ocra, ocie, tonePc, tonePin, toneCount, found,
                  cutShort, quiet >>

ToneEnds ==
  /\ ocie /\ Whole(toggle_count) = 0
  /\ disableTimer
  /\ \/ /\ soundsOn = 2 /\ tone_pins' = NoPin
        /\ level' = IF tone_pins = NoPin THEN level ELSE [level EXCEPT ![tone_pins] = 0]
        /\ cutShort' = (tonePc \in { "timer", "ocr", "low", "high", "enable" })
     \/ /\ soundsOn = 3 /\ UNCHANGED << tone_pins, cutShort >>
        /\ level' = [level EXCEPT ![pin_port] = 0]
  /\ UNCHANGED << soundsOn, pin_port, toggle_count, tonePc, tonePin, toneCount, found, quiet >>

ToneInit ==
  /\ soundsOn \in ToneTimers /\ tone_pins = NoPin /\ pin_port \in { CHOOSE p \in TonePins : TRUE }
  /\ toggle_count = Parts(0) /\ ctc = FALSE /\ ocra = FALSE /\ ocie = FALSE
  /\ level = [p \in TonePins |-> 0] /\ tonePc = "idle"
  /\ tonePin = NoPin /\ toneCount = 0 /\ found = FALSE /\ cutShort = FALSE /\ quiet = {}

ToneNext ==
  \/ \E p \in TonePins : NoTone(p) \/ \E n \in Toggles : ToneBegin(p, n)
  \/ SetTimer \/ SetOcr \/ SetCount \/ EnableTimer \/ Disable \/ WriteLow \/ Toggle \/ ToneEnds

ToneSpec == ToneInit /\ [][ToneNext]_toneVars

ToneTypeOK ==
  /\ { tone_pins, tonePin } \subseteq TonePins \cup { NoPin } /\ pin_port \in TonePins
  /\ toggle_count \in [low : 0 .. Half - 1, high : Int] /\ toneCount \in { 0 } \cup Toggles
  /\ soundsOn \in ToneTimers
  /\ { ctc, ocra, ocie, found, cutShort } \subseteq BOOLEAN /\ level \in [TonePins -> { 0, 1 }]
  /\ tonePc \in { "idle", "timer", "ocr", "low", "high", "enable", "disable", "write" }
  /\ quiet \subseteq TonePins

(***************************************************************************)
(* Properties.                                                             *)
(***************************************************************************)

\* A pin for which noTone() has returned is low and stays so until the next
\* tone() for it, though the interrupt may end the tone at any step of either
\* call (Tone.cpp:480-495) - unless it sounds on because its last tone() was cut
\* short, when the table does not know it any more.
NoToneSilences == \A p \in quiet : level[p] = 0 /\ ~(ocie /\ pin_port = p)

\* While a tone sounds and no call is under way, its timer counts up to the value
\* that makes its pitch and the table has its pin: "if we're already using the
\* pin, the timer should be configured" (Tone.cpp:132).  That is so unless the
\* handler ends the tone before while tone() for the same pin is at its registers.
SoundingIsConfigured == tonePc = "idle" /\ ocie /\ ~cutShort => ctc /\ ocra /\ tone_pins = pin_port

\* Where the end of a tone calls noTone(), "so that the tone_pins[] entry is
\* reset" (Tone.cpp:551), a tone that is over keeps no other from sounding.
EndedIsFree == soundsOn = 2 /\ tonePc = "idle" /\ ~ocie => tone_pins = NoPin

\* All three, for every order of calls and interrupts.
ToneIsSound == NoToneSilences /\ SoundingIsConfigured /\ EndedIsFree

\* From 31 Hz, the lowest a timer of 8 bits reaches at 16 MHz, every pitch is hit
\* within a 32nd above what was asked: the compare value fits its register and is
\* not smaller than its divider made necessary (Tone.cpp:257-325).
PitchIsClose ==
  \A hertz \in { 8000000, 16000000 }, frequency \in 31 .. 20000 :
    \A timer \in { << Timer2Dividers, 255 >>, << Timer16Dividers, 65535 >> } :
      LET divider == Prescaler(hertz, frequency, timer[1], timer[2])
          counts  == Ocr(hertz, frequency, divider) + 1
          asked   == 2 * frequency * divider
      IN  /\ counts \in 1 .. timer[2] + 1
          /\ asked * counts <= hertz
          /\ hertz - asked * counts < asked
          /\ 32 * (hertz - asked * counts) < hertz

=============================================================================
