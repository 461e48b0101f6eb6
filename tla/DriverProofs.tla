---------------------------- MODULE DriverProofs ----------------------------
(***************************************************************************)
(* Theorems about drivers of the board in which an interrupt handler meets *)
(* the calls of the sketch halfway: external interrupts, tones, the        *)
(* software port, the SD card, which handlers share the bus with, the time *)
(* base, pins that a handler writes too, and events of a Timer, whose      *)
(* callbacks change the table that update() goes through.  They hold for   *)
(* every set of pins, lines, functions, ports, blocks, periods and         *)
(* durations, and every size of the ring, of a block and of the clocks.    *)
(***************************************************************************)
EXTENDS Clock, EventTimer, Servo, Pins, WInterrupts, Tone, SoftwareSerial, Sd2Card, SequenceTheorems,
        WellFoundedInduction, TLAPS

-----------------------------------------------------------------------------
(* External interrupts.                                                    *)

(* The sketch changes the function of a number only when nothing is        *)
(* attached to it: WInterrupts.c writes the two bytes of a pointer that    *)
(* may be called in between otherwise.                                     *)
AttachesFree == ~Reattach

\* The numbers of the chip and the lines they stand for go together.
LEMMA NumbersAndLines ==
  ASSUME intChip \in IntChips
  PROVE  /\ EXTERNAL_NUM_INTERRUPTS \in 3 .. 8
         /\ \A n \in 0 .. EXTERNAL_NUM_INTERRUPTS - 1 : LineOf(n) \in 0 .. 7 /\ NumberOf(LineOf(n)) = n
<1>1. intChip \in { "eight lines", "ATmega32U4", "three lines", "ATmega32" }
  BY WInterruptsAssumption
<1>2. CASE intChip = "eight lines"
  <2>1. EXTERNAL_NUM_INTERRUPTS = 8
    BY <1>2 DEF EXTERNAL_NUM_INTERRUPTS
  <2>2. ASSUME NEW n \in 0 .. 7 PROVE LineOf(n) \in 0 .. 7 /\ NumberOf(LineOf(n)) = n
    <3>1. LineOf(n) = IF n <= 1 THEN n + 4 ELSE IF n <= 5 THEN n - 2 ELSE n
      BY <1>2 DEF LineOf
    <3>2. \A l : NumberOf(l) = IF l <= 3 THEN l + 2 ELSE IF l <= 5 THEN l - 4 ELSE l
      BY <1>2 DEF NumberOf
    <3>. QED BY <3>1, <3>2
  <2>. QED BY <2>1, <2>2
<1>3. CASE intChip = "ATmega32U4"
  <2>1. EXTERNAL_NUM_INTERRUPTS = 5
    BY <1>3 DEF EXTERNAL_NUM_INTERRUPTS
  <2>2. ASSUME NEW n \in 0 .. 4 PROVE LineOf(n) \in 0 .. 7 /\ NumberOf(LineOf(n)) = n
    BY <1>3 DEF LineOf, NumberOf
  <2>. QED BY <2>1, <2>2
<1>4. CASE intChip \in { "three lines", "ATmega32" }
  <2>1. EXTERNAL_NUM_INTERRUPTS = 3
    BY <1>4 DEF EXTERNAL_NUM_INTERRUPTS
  <2>2. \A n : LineOf(n) = n /\ NumberOf(n) = n
    BY <1>4 DEF LineOf, NumberOf
  <2>. QED BY <2>1, <2>2
<1>. QED BY <1>1, <1>2, <1>3, <1>4

\* The numbers whose lines are enabled.
Serving == { n \in Numbers : attached[n] # Unasked /\ Served(n) }

\* What is attached has its whole pointer and its mode.
PointersInv ==
  \A n \in Numbers : attached[n] # Unasked =>
    /\ intFunc[n] = Pointer(attached[n].function)
    /\ Served(n) => sense[LineOf(n)] = attached[n].mode

\* A call works on a number that has nothing attached, and how far it is.
CallUnderWay ==
  extPc # "idle" =>
    /\ number \in Numbers /\ attached[number] = Unasked
    /\ extPc = "high" => intFunc[number][1] = userFunc
    /\ extPc \in { "mode", "enable" } => intFunc[number] = Pointer(userFunc) /\ userFunc \in Functions
    /\ extPc = "enable" /\ Served(number) => sense[LineOf(number)] = userMode

\* A flag that is not left from earlier was raised in the mode of its line.
FlagsInv ==
  \A l \in 0 .. 7 : flagged[l] \notin { "none", "early" } => l \in eimsk /\ Raises(sense[l], flagged[l])

ExtInv ==
  /\ ExtTypeOK /\ eimsk = { LineOf(n) : n \in Serving }
  /\ PointersInv /\ CallUnderWay /\ FlagsInv /\ ~wild

\* Each number of the chip that is looked at has a line of its own.
LEMMA OneLineEach ==
  ASSUME intChip \in IntChips
  PROVE  /\ \A n \in Numbers : /\ n \in 0 .. 7 /\ n \in 0 .. EXTERNAL_NUM_INTERRUPTS - 1
                               /\ LineOf(n) \in Lines /\ LineOf(n) \in 0 .. 7 /\ NumberOf(LineOf(n)) = n
         /\ \A j, k \in Numbers : LineOf(j) = LineOf(k) => j = k
<1>1. ASSUME NEW n \in Numbers
      PROVE  /\ n \in 0 .. 7 /\ n \in 0 .. EXTERNAL_NUM_INTERRUPTS - 1
             /\ LineOf(n) \in Lines /\ LineOf(n) \in 0 .. 7 /\ NumberOf(LineOf(n)) = n
  <2>1. n \in 0 .. EXTERNAL_NUM_INTERRUPTS - 1 /\ LineOf(n) \in Lines
    BY DEF Numbers
  <2>. QED BY <2>1, NumbersAndLines
<1>. QED BY <1>1

\* No step changes the chip.
LEMMA ChipStays ==
  ASSUME intChip' = intChip
  PROVE  /\ Numbers' = Numbers /\ EXTERNAL_NUM_INTERRUPTS' = EXTERNAL_NUM_INTERRUPTS
         /\ \A n : LineOf(n)' = LineOf(n) /\ Served(n)' = Served(n)
BY DEF Numbers, EXTERNAL_NUM_INTERRUPTS, LineOf, Served

LEMMA ExtStart == ExtInit => ExtInv
<1>. SUFFICES ASSUME ExtInit PROVE ExtInv
  OBVIOUS
<1>1. intChip \in IntChips
  BY DEF ExtInit
<1>2. ExtTypeOK
  <2>1. LOW \in Modes \cup { LOW } /\ 0 \in 0 .. EXTERNAL_NUM_INTERRUPTS - 1
    BY <1>1, NumbersAndLines
  <2>. QED BY <1>1, <2>1 DEF ExtInit, ExtTypeOK, Pointer, Unasked
<1>3. \A n \in Numbers : attached[n] = Unasked
  BY <1>1, OneLineEach DEF ExtInit
<1>4. eimsk = { LineOf(n) : n \in Serving }
  BY <1>3 DEF ExtInit, Serving
<1>5. PointersInv /\ CallUnderWay /\ FlagsInv /\ ~wild
  BY <1>3 DEF ExtInit, PointersInv, CallUnderWay, FlagsInv
<1>. QED BY <1>2, <1>4, <1>5 DEF ExtInv

LEMMA ExtStep == ASSUME AttachesFree, ExtInv, [ExtNext]_extVars PROVE ExtInv'
<1>. USE DEF ExtInv
<1>1. intChip \in IntChips /\ ~Reattach
  BY DEF ExtTypeOK, AttachesFree
<1>2. CASE UNCHANGED extVars
  <2>1. Numbers' = Numbers /\ EXTERNAL_NUM_INTERRUPTS' = EXTERNAL_NUM_INTERRUPTS
        /\ \A k : LineOf(k)' = LineOf(k) /\ Served(k)' = Served(k)
    BY <1>2, ChipStays DEF extVars
  <2>. QED BY <1>2, <2>1 DEF extVars, ExtTypeOK, Serving, PointersInv, CallUnderWay, FlagsInv
<1>3. ASSUME NEW n \in Numbers, NEW f \in Functions, NEW md \in Modes, attachInterrupt(n, f, md)
      PROVE  ExtInv'
  <2>1. Numbers' = Numbers /\ EXTERNAL_NUM_INTERRUPTS' = EXTERNAL_NUM_INTERRUPTS
        /\ \A k : LineOf(k)' = LineOf(k) /\ Served(k)' = Served(k)
    BY <1>3, ChipStays DEF attachInterrupt
  <2>2. ExtTypeOK'
    <3>1. n \in 0 .. EXTERNAL_NUM_INTERRUPTS - 1
      BY DEF Numbers
    <3>. QED BY <1>3, <2>1, <3>1 DEF attachInterrupt, ExtTypeOK
  <2>3. (eimsk = { LineOf(k) : k \in Serving })' /\ PointersInv' /\ FlagsInv' /\ ~wild'
    BY <1>3, <2>1 DEF attachInterrupt, Serving, PointersInv, FlagsInv
  <2>4. CallUnderWay'
    BY <1>1, <1>3, <2>1 DEF attachInterrupt, CallUnderWay
  <2>. QED BY <2>2, <2>3, <2>4
<1>4. ASSUME WritePointer PROVE ExtInv'
  <2>1. Numbers' = Numbers /\ EXTERNAL_NUM_INTERRUPTS' = EXTERNAL_NUM_INTERRUPTS
        /\ \A k : LineOf(k)' = LineOf(k) /\ Served(k)' = Served(k)
    BY <1>4, ChipStays DEF WritePointer
  <2>2. number \in Numbers /\ number \in 0 .. 7 /\ attached[number] = Unasked
    BY <1>1, <1>4, OneLineEach DEF WritePointer, CallUnderWay
  <2>3. ASSUME NEW i \in { 1, 2 }, intFunc' = [intFunc EXCEPT ![number][i] = userFunc]
        PROVE  /\ intFunc' \in [0 .. 7 -> (Functions \cup { nothing }) \X (Functions \cup { nothing })]
               /\ intFunc'[number] = [intFunc[number] EXCEPT ![i] = userFunc]
    <3>1. /\ intFunc[number] \in (Functions \cup { nothing }) \X (Functions \cup { nothing })
          /\ userFunc \in Functions \cup { nothing }
      BY <2>2 DEF ExtTypeOK
    <3>2. [intFunc[number] EXCEPT ![i] = userFunc] \in (Functions \cup { nothing }) \X (Functions \cup { nothing })
      BY <3>1
    <3>. QED BY <2>2, <2>3, <3>2 DEF ExtTypeOK
  <2>4. ExtTypeOK'
    BY <1>4, <2>1, <2>3 DEF WritePointer, ExtTypeOK
  <2>5. \A k \in Numbers : k # number => intFunc'[k] = intFunc[k]
    BY <1>1, <1>4, OneLineEach DEF WritePointer, ExtTypeOK
  <2>6. (eimsk = { LineOf(k) : k \in Serving })' /\ PointersInv' /\ FlagsInv' /\ ~wild'
    BY <1>4, <2>1, <2>2, <2>5 DEF WritePointer, Serving, PointersInv, FlagsInv
  <2>7. CallUnderWay'
    <3>1. intFunc[number] \in (Functions \cup { nothing }) \X (Functions \cup { nothing })
      BY <2>2 DEF ExtTypeOK
    <3>2. CASE extPc = "low"
      BY <1>4, <2>1, <2>2, <2>3, <3>1, <3>2 DEF WritePointer, CallUnderWay
    <3>3. CASE extPc = "high"
      <4>1. intFunc'[number] = [intFunc[number] EXCEPT ![2] = userFunc] /\ intFunc[number][1] = userFunc
        BY <1>4, <2>3, <3>3 DEF WritePointer, CallUnderWay
      <4>2. intFunc'[number] = Pointer(userFunc)
        BY <3>1, <4>1 DEF Pointer
      <4>. QED BY <1>4, <2>1, <2>2, <3>3, <4>2 DEF WritePointer, CallUnderWay, ExtTypeOK
    <3>. QED BY <1>4, <3>2, <3>3 DEF WritePointer
  <2>. QED BY <2>4, <2>6, <2>7

<1>5. ASSUME WriteMode PROVE ExtInv'
  <2>1. Numbers' = Numbers /\ EXTERNAL_NUM_INTERRUPTS' = EXTERNAL_NUM_INTERRUPTS
        /\ \A k : LineOf(k)' = LineOf(k) /\ Served(k)' = Served(k)
    BY <1>5, ChipStays DEF WriteMode
  <2>2. /\ number \in Numbers /\ number \in 0 .. 7 /\ attached[number] = Unasked
        /\ LineOf(number) \in 0 .. 7
    BY <1>1, <1>5, OneLineEach DEF WriteMode, CallUnderWay
  <2>3. ExtTypeOK'
    BY <1>5, <2>1 DEF WriteMode, ExtTypeOK
  <2>4. LineOf(number) \notin eimsk
    BY <1>1, <2>2, OneLineEach DEF Serving
  <2>5. \A l \in 0 .. 7 : l # LineOf(number) => sense'[l] = sense[l]
    BY <1>5 DEF WriteMode, ExtTypeOK
  <2>6. PointersInv'
    <3>1. ASSUME NEW k \in Numbers, attached[k] # Unasked PROVE sense'[LineOf(k)] = sense[LineOf(k)]
      BY <1>1, <2>2, <2>5, <3>1, OneLineEach
    <3>. QED BY <1>5, <2>1, <3>1 DEF WriteMode, PointersInv
  <2>7. (eimsk = { LineOf(k) : k \in Serving })' /\ ~wild'
    BY <1>5, <2>1 DEF WriteMode, Serving
  <2>8. FlagsInv'
    BY <1>5, <2>4, <2>5 DEF WriteMode, FlagsInv
  <2>9. CallUnderWay'
    <3>1. Served(number) => sense'[LineOf(number)] = userMode
      BY <1>5, <2>2 DEF WriteMode, ExtTypeOK
    <3>. QED BY <1>5, <2>1, <2>2, <3>1 DEF WriteMode, CallUnderWay
  <2>. QED BY <2>3, <2>6, <2>7, <2>8, <2>9
<1>6. ASSUME EnableLine PROVE ExtInv'
  <2>1. Numbers' = Numbers /\ EXTERNAL_NUM_INTERRUPTS' = EXTERNAL_NUM_INTERRUPTS
        /\ \A k : LineOf(k)' = LineOf(k) /\ Served(k)' = Served(k)
    BY <1>6, ChipStays DEF EnableLine
  <2>2. /\ number \in Numbers /\ number \in 0 .. 7 /\ attached[number] = Unasked
        /\ LineOf(number) \in Lines /\ LineOf(number) \in 0 .. 7
        /\ intFunc[number] = Pointer(userFunc) /\ userFunc \in Functions
        /\ Served(number) => sense[LineOf(number)] = userMode
    BY <1>1, <1>6, OneLineEach DEF EnableLine, CallUnderWay
  <2>3. ExtTypeOK'
    BY <1>6, <2>1, <2>2 DEF EnableLine, ExtTypeOK
  <2>4. /\ attached'[number] = [function |-> userFunc, mode |-> userMode] /\ attached'[number] # Unasked
        /\ \A k \in Numbers : k # number => attached'[k] = attached[k]
    BY <1>1, <1>6, <2>2, OneLineEach, WInterruptsAssumption DEF EnableLine, ExtTypeOK, Unasked
  <2>5. Serving' = IF Served(number) THEN Serving \cup { number } ELSE Serving
    BY <2>1, <2>2, <2>4 DEF Serving
  <2>6. (eimsk = { LineOf(k) : k \in Serving })'
    <3>1. CASE Served(number)
      BY <1>6, <2>1, <2>5, <3>1 DEF EnableLine
    <3>2. CASE ~Served(number)
      BY <1>6, <2>1, <2>5, <3>2 DEF EnableLine
    <3>. QED BY <3>1, <3>2
  <2>7. PointersInv'
    BY <1>6, <2>1, <2>2, <2>4 DEF EnableLine, PointersInv
  <2>8. FlagsInv' /\ CallUnderWay' /\ ~wild'
    BY <1>6 DEF EnableLine, FlagsInv, CallUnderWay
  <2>. QED BY <2>3, <2>6, <2>7, <2>8
<1>7. ASSUME NEW n \in Numbers, detachInterrupt(n) PROVE ExtInv'
  <2>1. Numbers' = Numbers /\ EXTERNAL_NUM_INTERRUPTS' = EXTERNAL_NUM_INTERRUPTS
        /\ \A k : LineOf(k)' = LineOf(k) /\ Served(k)' = Served(k)
    BY <1>7, ChipStays DEF detachInterrupt
  <2>2. n \in 0 .. 7 /\ n \in 0 .. EXTERNAL_NUM_INTERRUPTS - 1 /\ LineOf(n) \in 0 .. 7
    BY <1>1, OneLineEach
  <2>3. ExtTypeOK'
    <3>1. LOW \in Modes \cup { LOW }
      OBVIOUS
    <3>. QED BY <1>7, <2>1, <2>2, <3>1 DEF detachInterrupt, ExtTypeOK, Unasked
  <2>4. attached'[n] = Unasked /\ \A k \in Numbers : k # n => attached'[k] = attached[k]
    BY <1>1, <1>7, <2>2, OneLineEach DEF detachInterrupt, ExtTypeOK
  <2>5. Serving' = Serving \ { n }
    BY <2>1, <2>4 DEF Serving
  <2>6. (eimsk = { LineOf(k) : k \in Serving })'
    <3>1. \A k \in Serving : k \in Numbers
      BY DEF Serving
    <3>2. \A k \in Serving : k # n => LineOf(k) # LineOf(n)
      BY <1>1, <3>1, OneLineEach
    <3>3. eimsk' = eimsk \ { LineOf(n) }
      BY <1>7 DEF detachInterrupt
    <3>. QED BY <2>1, <2>5, <3>2, <3>3
  <2>7. PointersInv'
    BY <1>7, <2>1, <2>4 DEF detachInterrupt, PointersInv
  <2>8. FlagsInv'
    <3>1. \A l \in 0 .. 7 : l # LineOf(n) => flagged'[l] = flagged[l]
      BY <1>7 DEF detachInterrupt, ExtTypeOK
    <3>2. flagged'[LineOf(n)] \in { "none", "early" }
      BY <1>7, <2>2 DEF detachInterrupt, ExtTypeOK
    <3>. QED BY <1>7, <3>1, <3>2 DEF detachInterrupt, FlagsInv
  <2>9. CallUnderWay' /\ ~wild'
    BY <1>7, <2>1, <2>4 DEF detachInterrupt, CallUnderWay
  <2>. QED BY <2>3, <2>6, <2>7, <2>8, <2>9
<1>8. ASSUME NEW l \in Lines, NEW e \in Events, Event(l, e) PROVE ExtInv'
  <2>1. Numbers' = Numbers /\ EXTERNAL_NUM_INTERRUPTS' = EXTERNAL_NUM_INTERRUPTS
        /\ \A k : LineOf(k)' = LineOf(k) /\ Served(k)' = Served(k)
    BY <1>8, ChipStays DEF Event
  <2>2. ExtTypeOK'
    BY <1>8, <2>1 DEF Event, ExtTypeOK
  <2>3. FlagsInv'
    BY <1>8 DEF Event, FlagsInv, ExtTypeOK
  <2>4. (eimsk = { LineOf(k) : k \in Serving })' /\ PointersInv' /\ CallUnderWay' /\ ~wild'
    BY <1>8, <2>1 DEF Event, Serving, PointersInv, CallUnderWay
  <2>. QED BY <2>2, <2>3, <2>4
<1>9. ASSUME NEW l \in Lines, Handle(l) PROVE ExtInv'
  <2>1. Numbers' = Numbers /\ EXTERNAL_NUM_INTERRUPTS' = EXTERNAL_NUM_INTERRUPTS
        /\ \A k : LineOf(k)' = LineOf(k) /\ Served(k)' = Served(k)
    BY <1>9, ChipStays DEF Handle
  <2>2. PICK n \in Numbers : attached[n] # Unasked /\ Served(n) /\ l = LineOf(n)
    BY <1>9 DEF Handle, Serving
  <2>3. NumberOf(l) = n /\ l \in 0 .. 7
    BY <1>1, <2>2, OneLineEach
  <2>4. intFunc[n] = Pointer(attached[n].function) /\ sense[l] = attached[n].mode
    BY <2>2 DEF PointersInv
  <2>5. flagged[l] # "early" => Raises(attached[n].mode, flagged[l])
    BY <1>9, <2>3, <2>4 DEF Handle, FlagsInv
  <2>6. ~wild'
    <3>1. intFunc[n] = Pointer(intFunc[n][1]) /\ intFunc[n][1] = attached[n].function
      BY <2>4 DEF Pointer
    <3>. QED BY <1>1, <1>9, <2>3, <2>5, <3>1 DEF Handle
  <2>7. ExtTypeOK'
    BY <1>9, <2>1, <2>6 DEF Handle, ExtTypeOK
  <2>8. FlagsInv'
    BY <1>9, <2>3 DEF Handle, FlagsInv, ExtTypeOK
  <2>9. (eimsk = { LineOf(k) : k \in Serving })' /\ PointersInv' /\ CallUnderWay'
    BY <1>9, <2>1 DEF Handle, Serving, PointersInv, CallUnderWay
  <2>. QED BY <2>6, <2>7, <2>8, <2>9
<1>. QED BY <1>2, <1>3, <1>4, <1>5, <1>6, <1>7, <1>8, <1>9 DEF ExtNext

(* A handler calls the function that is attached to its number, whole, and *)
(* for an event of the mode that was asked for, at every step of           *)
(* attachInterrupt() and detachInterrupt(); the lines that are enabled are *)
(* those of the numbers attached; and on every chip the two tables of      *)
(* lines and numbers agree (WInterrupts.c:70-275, :283-340).               *)
THEOREM HandlerCallsItsOwn == AttachesFree /\ ExtSpec => []HandlerIsAttached
<1>1. ExtInv => HandlerIsAttached
  <2>. SUFFICES ASSUME ExtInv PROVE HandlerIsAttached
    OBVIOUS
  <2>1. NumbersMeet
    BY NumbersAndLines DEF ExtInv, ExtTypeOK, NumbersMeet
  <2>. QED BY <2>1 DEF ExtInv, HandlerIsAttached, CallsWhatIsAttached, LinesAreAttached, Serving
<1>2. AttachesFree => AttachesFree'
  BY DEF AttachesFree
<1>3. AttachesFree /\ ExtInv /\ [ExtNext]_extVars => ExtInv'
  BY ExtStep
<1>. QED BY <1>1, <1>2, <1>3, ExtStart, PTL DEF ExtSpec

-----------------------------------------------------------------------------
(* Tones.                                                                  *)

\* tone() is under way: the timer is set up, unless the handler has undone it.
Starting ==
  tonePc \in { "timer", "ocr", "low", "high", "enable" } =>
    /\ tonePin \in TonePins \ quiet
    /\ ~cutShort => tone_pins = tonePin
    /\ tonePc # "timer" => pin_port = tonePin
    /\ tonePc \in { "low", "high", "enable" } /\ ~cutShort => ocra

\* The timer runs for the pin of the table, unless noTone() has just cleared it
\* or a tone was cut short.
Sounding ==
  /\ tonePc \in { "idle", "disable", "write" } /\ ocie /\ ~cutShort =>
       \/ tone_pins # NoPin /\ ocra
       \/ tonePc = "disable" /\ found
  /\ tone_pins # NoPin /\ tonePc # "timer" => pin_port = tone_pins /\ ctc
  /\ cutShort => tone_pins = NoPin

\* noTone() is under way, and has found the pin or not.
Stopping ==
  /\ tonePc \in { "disable", "write" } =>
       /\ tonePin \in TonePins /\ tone_pins # tonePin
       /\ found => tone_pins = NoPin
       /\ found /\ tonePc = "write" => ~ocie
  /\ found => tonePc \in { "disable", "write" }

\* Timer 2 leaves the table when it stops.
Leaving == soundsOn = 2 /\ ~ocie /\ tonePc \in { "idle", "disable", "write" } => tone_pins = NoPin

ToneInv == ToneTypeOK /\ NoToneSilences /\ Starting /\ Sounding /\ Stopping /\ Leaving

\* The two parts of a number of toggles are parts.
LEMMA PartsAreParts ==
  ASSUME NEW n \in Int
  PROVE  Parts(n) \in [low : 0 .. Half - 1, high : Int]
<1>1. Half \in Nat \ { 0 }
  BY ToneAssumption
<1>2. n % Half \in 0 .. Half - 1 /\ n \div Half \in Int
  BY <1>1
<1>. QED BY <1>2 DEF Parts

LEMMA WholeIsNumber ==
  ASSUME NEW x \in [low : 0 .. Half - 1, high : Int]
  PROVE  Whole(x) \in Int
<1>1. Half \in Int /\ x.low \in Int /\ x.high \in Int
  BY ToneAssumption
<1>2. x.high * Half \in Int
  BY <1>1
<1>. QED BY <1>1, <1>2 DEF Whole

LEMMA ToneStart == ToneInit => ToneInv
<1>. SUFFICES ASSUME ToneInit PROVE ToneInv
  OBVIOUS
<1>1. pin_port \in TonePins
  BY ToneAssumption DEF ToneInit
<1>2. ToneTypeOK
  <2>1. toggle_count \in [low : 0 .. Half - 1, high : Int]
    BY PartsAreParts DEF ToneInit
  <2>2. level \in [TonePins -> { 0, 1 }]
    BY DEF ToneInit
  <2>. QED BY <1>1, <2>1, <2>2 DEF ToneInit, ToneTypeOK
<1>. QED BY <1>2 DEF ToneInit, ToneInv, NoToneSilences, Starting, Sounding, Stopping, Leaving

LEMMA ToneStep == ASSUME ToneInv, [ToneNext]_toneVars PROVE ToneInv'
<1>. USE DEF ToneInv
<1>1. /\ NoPin \notin TonePins
      /\ toneCount \in Int /\ \A n \in Toggles : n \in Int
  <2>2. NoPin \notin TonePins /\ \A n \in Toggles : n \in Int
    BY ToneAssumption
  <2>3. toneCount \in { 0 } \cup Toggles
    BY DEF ToneTypeOK
  <2>. QED BY <2>2, <2>3
<1>2. CASE UNCHANGED toneVars
  BY <1>2 DEF toneVars, waveVars, ToneTypeOK, NoToneSilences, Starting, Sounding, Stopping, Leaving
<1>3. ASSUME NEW p \in TonePins, NEW n \in Toggles, ToneBegin(p, n) PROVE ToneInv'
  <2>1. ToneTypeOK'
    BY <1>3 DEF ToneBegin, waveVars, ToneTypeOK
  <2>2. CASE tone_pins = p
    <3>1. ~cutShort /\ pin_port = p /\ tonePc' = "ocr" /\ tone_pins' = p /\ ctc
      BY <1>1, <1>3, <2>2 DEF ToneBegin, Sounding
    <3>. QED BY <1>1, <1>3, <2>1, <2>2, <3>1
             DEF ToneBegin, waveVars, NoToneSilences, Starting, Sounding, Stopping, Leaving
  <2>3. CASE tone_pins = NoPin
    BY <1>1, <1>3, <2>1, <2>3
       DEF ToneBegin, waveVars, NoToneSilences, Starting, Sounding, Stopping, Leaving
  <2>4. CASE tone_pins \notin { p, NoPin }
    <3>1. tonePc' = "idle" /\ UNCHANGED << tone_pins, waveVars, level, found, cutShort, quiet >>
      BY <1>3, <2>4 DEF ToneBegin
    <3>. QED BY <1>3, <2>1, <3>1 DEF ToneBegin, waveVars, NoToneSilences, Starting, Sounding, Stopping, Leaving
  <2>. QED BY <2>2, <2>3, <2>4
<1>12. CASE SetTimer
  BY <1>1, <1>12 DEF SetTimer, Step, ToneTypeOK, NoToneSilences, Starting, Sounding, Stopping, Leaving
<1>4. CASE SetOcr
  BY <1>4 DEF SetOcr, Step, ToneTypeOK, NoToneSilences, Starting, Sounding, Stopping, Leaving
<1>5. CASE SetCount
  <2>1. Parts(toneCount) \in [low : 0 .. Half - 1, high : Int]
    BY <1>1, PartsAreParts
  <2>2. toggle_count' \in [low : 0 .. Half - 1, high : Int]
    BY <1>5, <2>1 DEF SetCount, ToneTypeOK
  <2>. QED BY <1>5, <2>2
           DEF SetCount, Step, ToneTypeOK, NoToneSilences, Starting, Sounding, Stopping, Leaving
<1>6. CASE EnableTimer
  BY <1>1, <1>6 DEF EnableTimer, Step, ToneTypeOK, NoToneSilences, Starting, Sounding, Stopping, Leaving
<1>7. ASSUME NEW p \in TonePins, NoTone(p) PROVE ToneInv'
  BY <1>1, <1>7
     DEF NoTone, waveVars, ToneTypeOK, NoToneSilences, Starting, Sounding, Stopping, Leaving
<1>8. CASE Disable
  BY <1>8
     DEF Disable, disableTimer, Step, ToneTypeOK, NoToneSilences, Starting, Sounding, Stopping, Leaving
<1>9. CASE WriteLow
  BY <1>9
     DEF WriteLow, waveVars, Step, ToneTypeOK, NoToneSilences, Starting, Sounding, Stopping, Leaving
<1>10. CASE Toggle
  <2>1. toggle_count' \in [low : 0 .. Half - 1, high : Int]
    BY <1>10, PartsAreParts, WholeIsNumber DEF Toggle, ToneTypeOK
  <2>2. level' \in [TonePins -> { 0, 1 }] /\ \A q \in quiet : level'[q] = level[q]
    BY <1>10 DEF Toggle, ToneTypeOK, NoToneSilences
  <2>. QED BY <1>10, <2>1, <2>2
           DEF Toggle, ToneTypeOK, NoToneSilences, Starting, Sounding, Stopping, Leaving
<1>11. CASE ToneEnds
  <2>1. level' \in [TonePins -> { 0, 1 }] /\ \A q \in quiet : level'[q] = 0
    BY <1>11 DEF ToneEnds, ToneTypeOK, NoToneSilences
  <2>2. /\ ocie /\ ocie' = FALSE
        /\ \/ soundsOn = 2 /\ tone_pins' = NoPin
              /\ cutShort' = (tonePc \in { "timer", "ocr", "low", "high", "enable" })
           \/ soundsOn = 3 /\ UNCHANGED << tone_pins, cutShort, ctc, ocra >>
        /\ { ctc', ocra', cutShort' } \subseteq BOOLEAN
        /\ UNCHANGED << soundsOn, pin_port, toggle_count, tonePc, tonePin, toneCount, found, quiet >>
    <3>1. { ctc, ocra, cutShort } \subseteq BOOLEAN
      BY DEF ToneTypeOK
    <3>2. /\ ocie /\ ocie' = FALSE /\ ctc' = (ctc /\ soundsOn = 3) /\ ocra' = (ocra /\ soundsOn = 3)
          /\ UNCHANGED << soundsOn, pin_port, toggle_count, tonePc, tonePin, toneCount, found, quiet >>
      BY <1>11 DEF ToneEnds, disableTimer
    <3>3. \/ soundsOn = 2 /\ tone_pins' = NoPin
             /\ cutShort' = (tonePc \in { "timer", "ocr", "low", "high", "enable" })
          \/ soundsOn = 3 /\ UNCHANGED << tone_pins, cutShort >>
      BY <1>11 DEF ToneEnds
    <3>4. soundsOn = 3 => ctc' = ctc /\ ocra' = ocra
      BY <3>1, <3>2
    <3>5. { ctc', ocra', cutShort' } \subseteq BOOLEAN
      <4>1. ctc' \in BOOLEAN /\ ocra' \in BOOLEAN
        BY <3>2
      <4>2. cutShort' \in BOOLEAN
        <5>1. (tonePc \in { "timer", "ocr", "low", "high", "enable" }) \in BOOLEAN
          OBVIOUS
        <5>2. CASE cutShort' = (tonePc \in { "timer", "ocr", "low", "high", "enable" })
          BY <5>1, <5>2, Zenon
        <5>3. CASE cutShort' = cutShort
          BY <3>1, <5>3
        <5>. QED BY <3>3, <5>2, <5>3
      <4>. QED BY <4>1, <4>2
    <3>. QED BY <3>2, <3>3, <3>4, <3>5
  <2>3. ToneTypeOK'
    BY <2>1, <2>2 DEF ToneTypeOK
  <2>4. NoToneSilences' /\ Starting' /\ Sounding' /\ Leaving'
    <3>1. CASE soundsOn = 2 /\ tone_pins' = NoPin
      <4>1. cutShort' = (tonePc \in { "timer", "ocr", "low", "high", "enable" })
        BY <2>2, <3>1
      <4>. QED BY <2>1, <2>2, <3>1, <4>1 DEF NoToneSilences, Starting, Sounding, Leaving
    <3>2. CASE soundsOn = 3 /\ UNCHANGED << tone_pins, cutShort, ctc, ocra >>
      BY <2>1, <2>2, <3>2 DEF NoToneSilences, Starting, Sounding, Leaving
    <3>. QED BY <2>2, <3>1, <3>2
  <2>5. Stopping'
    BY <1>1, <2>2 DEF Stopping
  <2>. QED BY <2>3, <2>4, <2>5
<1>. QED BY <1>2, <1>3, <1>4, <1>5, <1>6, <1>7, <1>8, <1>9, <1>10, <1>11, <1>12 DEF ToneNext

(* A pin is silent from noTone() to the next tone(), whichever interrupt   *)
(* falls between the steps of either; what sounds has its timer set up and *)
(* its entry in the table; and on timer 2 a tone that ended keeps no other *)
(* from sounding.  The sketch may call tone() for a pin that sounds; the   *)
(* one case in which that leaves a pin out of the table is named in the    *)
(* properties (Tone.cpp:132, :480-495, :551).                              *)
THEOREM TonesAreSound == ToneSpec => []ToneIsSound
<1>1. ToneInv => ToneIsSound
  BY DEF ToneInv, ToneIsSound, SoundingIsConfigured, EndedIsFree, Sounding, Leaving
<1>2. ToneInv /\ [ToneNext]_toneVars => ToneInv'
  BY ToneStep
<1>. QED BY <1>1, <1>2, ToneStart, PTL DEF ToneSpec

-----------------------------------------------------------------------------
(* The software port.                                                      *)

Bit == { 0, 1 }

SoftTypes ==
  /\ line \in [Ports -> [byte : Bytes, pos : 0 .. Bits + 2]] /\ pcint \in BOOLEAN
  /\ masked \in [Ports -> BOOLEAN] /\ { overflow, clean, awaited } \subseteq BOOLEAN
  /\ { active_object, target } \subseteq Ports \cup { NoPort }
  /\ ring \in [0 .. _SS_MAX_RX_BUFF - 1 -> Seq(Bit)]
  /\ { head, tail } \subseteq 0 .. _SS_MAX_RX_BUFF - 1 /\ sending \in 0 .. Bits + 1
  /\ sketch \in { "run", "mask", "stop", "reset", "activate", "unmask" }
  /\ recv \in { "none", "bits", "stop" } /\ d \in Seq(Bit) /\ due \in Seq(Seq(Bit))
  /\ inHand \in Seq(Bit)

\* The ring from head to tail holds what is due.
Slot(i) == IF i < _SS_MAX_RX_BUFF THEN i ELSE i - _SS_MAX_RX_BUFF
Unread == IF head <= tail THEN tail - head ELSE tail - head + _SS_MAX_RX_BUFF

RingHoldsDue ==
  /\ Len(due) = Unread
  /\ \A k \in 1 .. Unread : due[k] = ring[Slot(head + k - 1)]

\* recv() has as many bits as have passed, and they are those of the line when
\* it came in the start bit.
Receiving ==
  /\ recv = "none" => d = << >> /\ ~clean
  /\ recv # "none" => active_object \in Ports
  /\ recv = "bits" => Len(d) <= Bits
  /\ recv = "stop" => Len(d) \in Bits .. Bits + 1
  /\ clean => /\ line[active_object].pos = Len(d) + 1
              /\ \A i \in 1 .. Bits : i <= Len(d) => d[i] = line[active_object].byte[i]

\* Where listen() is, and what it has made of the pins.
Listening ==
  /\ sketch \in { "run", "mask" } /\ recv = "none" /\ active_object # NoPort => ~masked[active_object]
  /\ sketch = "unmask" => active_object \in Ports
  /\ sketch \in { "reset", "activate" } => target \in Ports
  /\ sketch = "mask" => active_object \in Ports

\* Inside read() the byte in hand is the oldest of the ring.
Reading == inHand # << >> => sketch = "run" /\ Unread > 0 /\ inHand = ring[head]

\* A byte to be heard is at its start bit with the interrupt to come, or recv()
\* is at it.
Awaiting ==
  awaited => /\ sketch = "run" /\ active_object \in Ports
             /\ \/ pcint /\ sending = 0 /\ recv = "none" /\ line[active_object].pos = 1
                \/ recv = "bits" /\ clean

SoftInv == SoftTypes /\ RingHoldsDue /\ Receiving /\ Listening /\ Reading /\ Awaiting

\* The indices of the ring.
LEMMA RingIndices ==
  /\ _SS_MAX_RX_BUFF \in Nat \ {0, 1}
  /\ \A i \in 0 .. 2 * _SS_MAX_RX_BUFF - 1 : i % _SS_MAX_RX_BUFF = Slot(i) /\ Slot(i) \in 0 .. _SS_MAX_RX_BUFF - 1
  /\ \A i \in 0 .. _SS_MAX_RX_BUFF - 1 : NextIndex(i) = Slot(i + 1) /\ NextIndex(i) \in 0 .. _SS_MAX_RX_BUFF - 1
<1>1. _SS_MAX_RX_BUFF \in Nat \ {0, 1}
  BY SoftwareSerialAssumption
<1>2. ASSUME NEW i \in 0 .. 2 * _SS_MAX_RX_BUFF - 1
      PROVE  i % _SS_MAX_RX_BUFF = Slot(i) /\ Slot(i) \in 0 .. _SS_MAX_RX_BUFF - 1
  BY <1>1 DEF Slot
<1>3. ASSUME NEW i \in 0 .. _SS_MAX_RX_BUFF - 1
      PROVE  NextIndex(i) = Slot(i + 1) /\ NextIndex(i) \in 0 .. _SS_MAX_RX_BUFF - 1
  BY <1>1, <1>2 DEF NextIndex
<1>. QED BY <1>1, <1>2, <1>3

\* A line is high or low, and goes on.
LEMMA LevelIsBit ==
  ASSUME NEW x \in [byte : Bytes, pos : 0 .. Bits + 2]
  PROVE  Level(x) \in Bit
<1>1. x.byte \in [1 .. Bits -> Bit] /\ Bits \in Nat \ { 0 }
  BY SoftwareSerialAssumption DEF Bit
<1>2. CASE x.pos \in 2 .. Bits + 1
  <2>1. Level(x) = x.byte[x.pos - 1]
    BY <1>1, <1>2 DEF Level
  <2>. QED BY <1>1, <1>2, <2>1
<1>3. CASE x.pos = 1
  BY <1>3 DEF Level, Bit
<1>4. CASE x.pos \notin 1 .. Bits + 1
  BY <1>1, <1>4 DEF Level, Bit
<1>. QED BY <1>1, <1>2, <1>3, <1>4

LEMMA FollowingIsLine ==
  ASSUME NEW x \in [byte : Bytes, pos : 0 .. Bits + 2], NEW y \in Following(x)
  PROVE  y \in [byte : Bytes, pos : 0 .. Bits + 2]
<1>1. Quiescent \in [byte : Bytes, pos : 0 .. Bits + 2]
  BY SoftwareSerialAssumption DEF Quiescent
<1>2. Bits \in Nat \ { 0 }
  BY SoftwareSerialAssumption
<1>3. CASE x.pos \in 1 .. Bits + 1
  <2>1. y = [x EXCEPT !.pos = @ + 1]
    BY <1>3 DEF Following
  <2>. QED BY <1>2, <1>3, <2>1
<1>4. CASE x.pos \notin 1 .. Bits + 1
  <2>1. y = Quiescent \/ y \in [byte : Bytes, pos : { 1 }]
    BY <1>4 DEF Following
  <2>. QED BY <1>1, <1>2, <2>1
<1>. QED BY <1>3, <1>4

LEMMA SoftStart == SoftInit => SoftInv
<1>. SUFFICES ASSUME SoftInit PROVE SoftInv
  OBVIOUS
<1>1. Quiescent \in [byte : Bytes, pos : 0 .. Bits + 2]
  BY SoftwareSerialAssumption DEF Quiescent
<1>2. << >> \in Seq(Bit) /\ << >> \in Seq(Seq(Bit))
  OBVIOUS
<1>3. SoftTypes
  <2>1. line \in [Ports -> [byte : Bytes, pos : 0 .. Bits + 2]] /\ masked \in [Ports -> BOOLEAN]
    BY <1>1 DEF SoftInit
  <2>2. ring \in [0 .. _SS_MAX_RX_BUFF - 1 -> Seq(Bit)]
    BY <1>2 DEF SoftInit
  <2>3. 0 \in 0 .. _SS_MAX_RX_BUFF - 1 /\ 0 \in 0 .. Bits + 1
    BY RingIndices, SoftwareSerialAssumption
  <2>. QED BY <1>2, <2>1, <2>2, <2>3 DEF SoftInit, SoftTypes
<1>4. RingHoldsDue
  <2>1. Unread = 0 /\ Len(due) = 0
    BY DEF SoftInit, Unread
  <2>. QED BY <2>1 DEF RingHoldsDue
<1>5. Receiving /\ Listening /\ Reading /\ Awaiting
  BY DEF SoftInit, Receiving, Listening, Reading, Awaiting
<1>. QED BY <1>3, <1>4, <1>5 DEF SoftInv

\* What leaves the ring and the bytes due alone.
LEMMA RingKept == ASSUME RingHoldsDue, UNCHANGED << ringVars, due >> PROVE RingHoldsDue'
BY DEF RingHoldsDue, ringVars, Unread, Slot

LEMMA ReadingKept ==
  ASSUME Reading, UNCHANGED ringVars, inHand' = inHand,
         inHand' # << >> => sketch' = sketch
  PROVE  Reading'
BY DEF Reading, ringVars, Unread

\* A bit passes on every line.
LEMMA BitTimeKeeps == ASSUME SoftInv, BitTime PROVE SoftInv'
<1>. USE DEF SoftInv
<1>1. line' \in [Ports -> [byte : Bytes, pos : 0 .. Bits + 2]]
  <2>1. \A p \in Ports : line[p] \in [byte : Bytes, pos : 0 .. Bits + 2] /\ line'[p] \in Following(line[p])
    BY DEF BitTime, SoftTypes
  <2>2. \A p \in Ports : line'[p] \in [byte : Bytes, pos : 0 .. Bits + 2]
    BY <2>1, FollowingIsLine
  <2>3. DOMAIN line' = Ports /\ line' = [p \in DOMAIN line' |-> line'[p]]
    BY DEF BitTime
  <2>. QED BY <2>2, <2>3
<1>2. sending' \in 0 .. Bits + 1
  <2>1. sending \in 0 .. Bits + 1 /\ sending' = IF sending > 0 THEN sending - 1 ELSE 0
    BY DEF BitTime, SoftTypes
  <2>2. Bits \in Nat
    BY SoftwareSerialAssumption
  <2>. QED BY <2>1, <2>2
<1>3. CASE recv = "none"
  <2>1. d' = d /\ UNCHANGED << masked, active_object, ringVars, overflow, sketch, target, recv, clean, due >>
    BY <1>3 DEF BitTime
  <2>2. pcint' \in BOOLEAN /\ awaited' \in BOOLEAN /\ inHand' = inHand
    BY DEF BitTime, SoftTypes
  <2>3. SoftTypes'
    BY <1>1, <1>2, <2>1, <2>2 DEF SoftTypes, ringVars
  <2>4. ASSUME awaited' PROVE Awaiting'
    <3>1. ~awaited
      BY <1>3 DEF Awaiting, BitTime
    <3>2. MustHear
      BY <2>4, <3>1 DEF BitTime, SoftTypes
    <3>3. sketch' = "run" /\ active_object' \in Ports /\ recv' = "none" /\ active_object' = active_object
      BY <2>1, <3>2 DEF MustHear, SoftTypes
    <3>4. sending' = 0 /\ line'[active_object].pos = 1
      BY <3>2, SoftwareSerialAssumption DEF MustHear, BitTime, SoftTypes
    <3>5. Level(line'[active_object]) = 0
      <4>1. \A i \in {1} : i = 1
        OBVIOUS
      <4>. QED BY <3>4 DEF Level
    <3>6. Level(line[active_object]) = 1
      <4>1. line'[active_object] \in Following(line[active_object]) /\ line[active_object].pos \in 0 .. Bits + 2
        BY <2>1, <3>3 DEF BitTime, SoftTypes
      <4>2. Bits \in Nat \ { 0 }
        BY SoftwareSerialAssumption
      <4>3. line[active_object].pos \notin 1 .. Bits + 1
        <5>1. ASSUME line[active_object].pos \in 1 .. Bits + 1 PROVE FALSE
          <6>1. line'[active_object] = [line[active_object] EXCEPT !.pos = @ + 1]
            BY <4>1, <5>1 DEF Following
          <6>2. line[active_object] \in [byte : Bytes, pos : 0 .. Bits + 2]
            BY <2>1, <3>3 DEF SoftTypes
          <6>3. line'[active_object].pos = line[active_object].pos + 1
            BY <6>1, <6>2
          <6>. QED BY <3>4, <4>2, <5>1, <6>3
        <5>. QED BY <5>1
      <4>. QED BY <4>2, <4>3 DEF Level
    <3>7. ~masked[active_object]
      BY <2>1, <3>2 DEF MustHear, Listening
    <3>8. pcint' = TRUE
      <4>1. Level(line'[active_object]) # Level(line[active_object]) /\ active_object \in Ports
        BY <2>1, <3>3, <3>5, <3>6
      <4>2. pcint' = (pcint \/ \E p \in Ports : ~masked[p] /\ Level(line'[p]) # Level(line[p]))
        BY DEF BitTime
      <4>. QED BY <3>7, <4>1, <4>2
    <3>. QED BY <3>3, <3>4, <3>8 DEF Awaiting
  <2>5. Awaiting'
    BY <2>4 DEF Awaiting
  <2>. QED BY <1>3, <2>1, <2>2, <2>3, <2>5, RingKept, ReadingKept DEF Receiving, Listening
<1>4. CASE recv # "none"
  <2>1. /\ d' = Append(d, Level(line'[active_object])) /\ active_object \in Ports
        /\ UNCHANGED << masked, active_object, ringVars, overflow, sketch, target, recv, clean, due >>
    BY <1>4 DEF BitTime, Receiving
  <2>2. pcint' \in BOOLEAN /\ awaited' = awaited /\ inHand' = inHand
    BY <1>4 DEF BitTime, MustHear, SoftTypes
  <2>3. Level(line'[active_object]) \in Bit /\ d \in Seq(Bit)
    BY <1>1, <2>1, LevelIsBit DEF SoftTypes
  <2>4. /\ d' \in Seq(Bit) /\ Len(d') = Len(d) + 1 /\ d'[Len(d) + 1] = Level(line'[active_object])
        /\ \A i \in 1 .. Len(d) : d'[i] = d[i]
    BY <2>1, <2>3
  <2>5. SoftTypes'
    BY <1>1, <1>2, <2>1, <2>2, <2>4 DEF SoftTypes, ringVars
  <2>6. Bits \in Nat \ { 0 } /\ Len(d) \in Nat
    BY <2>3, SoftwareSerialAssumption
  <2>7. /\ recv \in { "bits", "stop" }
        /\ recv = "bits" => Len(d) < Bits
        /\ recv = "stop" => Len(d) < Bits + 1
    <3>1. recv \in { "bits", "stop" } /\ Len(d) < Bits + (IF recv = "stop" THEN 1 ELSE 0)
      BY <1>4 DEF BitTime, SoftTypes
    <3>. QED BY <2>6, <3>1
  <2>8. ASSUME clean'
        PROVE  /\ line'[active_object].pos = Len(d') + 1
               /\ \A i \in 1 .. Bits : i <= Len(d') => d'[i] = line'[active_object].byte[i]
    <3>1. /\ line[active_object].pos = Len(d) + 1
          /\ \A i \in 1 .. Bits : i <= Len(d) => d[i] = line[active_object].byte[i]
      BY <2>1, <2>8 DEF Receiving
    <3>2. line[active_object] \in [byte : Bytes, pos : 0 .. Bits + 2]
      BY <2>1 DEF SoftTypes
    <3>3. line'[active_object] = [line[active_object] EXCEPT !.pos = @ + 1]
      <4>1. line'[active_object] \in Following(line[active_object])
        BY <2>1 DEF BitTime
      <4>2. line[active_object].pos \in 1 .. Bits + 1
        BY <2>6, <2>7, <3>1
      <4>. QED BY <4>1, <4>2 DEF Following
    <3>4. /\ line'[active_object].pos = Len(d') + 1
          /\ line'[active_object].byte = line[active_object].byte
      BY <2>4, <3>1, <3>2, <3>3
    <3>5. ASSUME NEW i \in 1 .. Bits, i <= Len(d') PROVE d'[i] = line[active_object].byte[i]
      <4>1. CASE i <= Len(d)
        BY <2>4, <2>6, <3>1, <4>1
      <4>2. CASE i = Len(d) + 1
        <5>1. line'[active_object].pos = i + 1 /\ i + 1 \in 2 .. Bits + 1 /\ i + 1 # 1
          BY <2>4, <2>6, <3>4, <4>2
        <5>2. Level(line'[active_object]) = line'[active_object].byte[i + 1 - 1]
          BY <5>1 DEF Level
        <5>3. i + 1 - 1 = i
          OBVIOUS
        <5>. QED BY <2>4, <3>4, <4>2, <5>2, <5>3
      <4>. QED BY <2>4, <2>6, <3>5, <4>1, <4>2
    <3>. QED BY <3>4, <3>5
  <2>9. Receiving'
    <3>1. /\ recv' = "bits" => Len(d') <= Bits
          /\ recv' = "stop" => Len(d') \in Bits .. Bits + 1
      BY <2>1, <2>4, <2>6, <2>7 DEF Receiving
    <3>. QED BY <1>4, <2>1, <2>8, <3>1 DEF Receiving
  <2>. QED BY <1>4, <2>1, <2>2, <2>5, <2>9, RingKept, ReadingKept DEF Listening, Awaiting
<1>. QED BY <1>3, <1>4

\* What recv() has sampled in time is what the peer sent.
LEMMA HeardIsSampled == ASSUME SoftInv, recv = "bits", Len(d) = Bits PROVE Heard = d
<1>. USE DEF SoftInv
<1>1. CASE ~clean
  BY <1>1 DEF Heard
<1>2. CASE clean
  <2>1. active_object \in Ports /\ \A i \in 1 .. Bits : d[i] = line[active_object].byte[i]
    BY <1>2, SoftwareSerialAssumption DEF Receiving
  <2>2. line[active_object].byte \in [1 .. Bits -> Bit]
    BY <2>1, SoftwareSerialAssumption DEF SoftTypes, Bit
  <2>3. d \in [1 .. Bits -> Bit]
    BY DEF SoftTypes
  <2>4. Heard = line[active_object].byte
    BY <1>2 DEF Heard
  <2>. QED BY <2>1, <2>2, <2>3, <2>4
<1>. QED BY <1>1, <1>2

\* A byte that finds room is the last in the ring, and the last that is due.
LEMMA StoreKeeps == ASSUME SoftInv, Store PROVE SoftInv'
<1>. USE DEF SoftInv
<1>1. /\ recv = "bits" /\ Len(d) = Bits /\ recv' = "stop" /\ active_object \in Ports
      /\ UNCHANGED << hardware, masked, active_object, head, sketch, target, sending, d, clean >>
      /\ inHand' = inHand /\ awaited' = FALSE
  BY DEF Store, Receiving, Awaiting
<1>2. Receiving' /\ Listening' /\ Awaiting'
  <2>1. Bits \in Bits .. Bits + 1
    BY SoftwareSerialAssumption
  <2>. QED BY <1>1, <2>1 DEF hardware, Receiving, Listening, Awaiting
<1>3. CASE Full
  <2>1. overflow' = TRUE /\ UNCHANGED << ringVars, due >>
    BY <1>1, <1>3 DEF Store, ringVars
  <2>2. SoftTypes'
    BY <1>1, <2>1 DEF SoftTypes, hardware, ringVars
  <2>. QED BY <1>1, <1>2, <2>1, <2>2, RingKept, ReadingKept
<1>4. CASE ~Full
  <2>1. /\ ring' = [ring EXCEPT ![tail] = d] /\ tail' = NextIndex(tail) /\ due' = Append(due, d)
        /\ overflow' = overflow
    BY <1>1, <1>4, HeardIsSampled DEF Store
  <2>2. /\ tail \in 0 .. _SS_MAX_RX_BUFF - 1 /\ head \in 0 .. _SS_MAX_RX_BUFF - 1
        /\ d \in Seq(Bit) /\ due \in Seq(Seq(Bit)) /\ ring \in [0 .. _SS_MAX_RX_BUFF - 1 -> Seq(Bit)]
    BY DEF SoftTypes
  <2>3. tail' = Slot(tail + 1) /\ tail' \in 0 .. _SS_MAX_RX_BUFF - 1 /\ tail' # head
    BY <1>4, <2>1, <2>2, RingIndices DEF Full
  <2>4. due' \in Seq(Seq(Bit)) /\ Len(due') = Len(due) + 1 /\ due'[Len(due) + 1] = d
        /\ \A k \in 1 .. Len(due) : due'[k] = due[k]
    BY <2>1, <2>2
  <2>5. ring' \in [0 .. _SS_MAX_RX_BUFF - 1 -> Seq(Bit)] /\ ring'[tail] = d
        /\ \A i \in 0 .. _SS_MAX_RX_BUFF - 1 : i # tail => ring'[i] = ring[i]
    BY <2>1, <2>2
  <2>6. SoftTypes'
    BY <1>1, <2>1, <2>3, <2>4, <2>5 DEF SoftTypes, hardware
  <2>7. Unread' = Unread + 1 /\ Slot(head + Unread) = tail
        /\ \A k \in 1 .. Unread : Slot(head + k - 1) \in 0 .. _SS_MAX_RX_BUFF - 1 /\ Slot(head + k - 1) # tail
    <3>1. head' = head /\ _SS_MAX_RX_BUFF \in Nat \ { 0, 1 }
      BY <1>1, RingIndices
    <3>. QED BY ONLY <2>2, <2>3, <3>1 DEF Unread, Slot
  <2>8. RingHoldsDue'
    <3>1. head' = head /\ Len(due) = Unread /\ Unread \in Nat /\ \A i : Slot(i)' = Slot(i)
      BY <1>1, <2>2, RingIndices DEF RingHoldsDue, Unread, Slot
    <3>2. ASSUME NEW k \in 1 .. Unread + 1 PROVE due'[k] = ring'[Slot(head + k - 1)]
      <4>1. CASE k \in 1 .. Unread
        BY <2>4, <2>5, <2>7, <3>1, <4>1 DEF RingHoldsDue
      <4>2. CASE k = Unread + 1
        <5>1. head + k - 1 = head + Unread
          BY <2>2, <3>1, <4>2
        <5>. QED BY <2>4, <2>5, <2>7, <3>1, <4>2, <5>1
      <4>. QED BY <3>1, <4>1, <4>2
    <3>. QED BY <2>4, <2>7, <3>1, <3>2 DEF RingHoldsDue
  <2>9. Reading'
    <3>1. inHand' # << >> => sketch' = "run" /\ Unread > 0 /\ inHand' = ring[head] /\ head # tail
      BY <1>1, <2>2 DEF Reading, Unread
    <3>2. Unread \in Nat /\ Unread' > 0
      <4>1. _SS_MAX_RX_BUFF \in Nat
        BY RingIndices
      <4>2. Unread \in Nat
        BY <2>2, <4>1 DEF Unread
      <4>. QED BY <2>7, <4>2
    <3>3. ring'[head'] = ring[head] \/ head = tail
      BY <1>1, <2>2, <2>5
    <3>. QED BY <1>1, <3>1, <3>2, <3>3 DEF Reading
  <2>. QED BY <1>2, <2>6, <2>8, <2>9
<1>. QED BY <1>3, <1>4

\* read() frees the place of the byte in hand, which was the first that is due.
LEMMA ReadAdvancesKeeps == ASSUME SoftInv, ReadAdvances PROVE SoftInv'
<1>. USE DEF SoftInv
<1>1. /\ inHand # << >> /\ inHand' = << >>
      /\ head' = NextIndex(head) /\ due' = Tail(due) /\ ring' = [ring EXCEPT ![head] = << >>]
      /\ UNCHANGED << hardware, masked, active_object, tail, overflow, sketch, target, sending,
                      recv, d, clean, awaited >>
  BY DEF ReadAdvances
<1>2. Receiving' /\ Listening' /\ Reading' /\ Awaiting'
  BY <1>1 DEF hardware, Receiving, Listening, Reading, Awaiting
<1>3. /\ tail \in 0 .. _SS_MAX_RX_BUFF - 1 /\ head \in 0 .. _SS_MAX_RX_BUFF - 1
      /\ due \in Seq(Seq(Bit)) /\ _SS_MAX_RX_BUFF \in Nat \ { 0, 1 }
  BY RingIndices DEF SoftTypes
<1>4. head' = Slot(head + 1) /\ head' \in 0 .. _SS_MAX_RX_BUFF - 1
  BY <1>1, <1>3, RingIndices
<1>5. /\ Unread \in Nat /\ Unread > 0 /\ Unread' = Unread - 1
      /\ \A k \in 1 .. Unread - 1 :
           /\ Slot(head' + k - 1) = Slot(head + (k + 1) - 1)
           /\ Slot(head + (k + 1) - 1) \in 0 .. _SS_MAX_RX_BUFF - 1 /\ Slot(head + (k + 1) - 1) # head
  <2>1. head # tail
    BY <1>1, <1>3 DEF Reading, Unread
  <2>. QED BY ONLY <1>1, <1>3, <1>4, <2>1 DEF Unread, Slot
<1>6. due # << >> /\ Len(due) = Unread
  BY <1>3, <1>5 DEF RingHoldsDue
<1>7. due' \in Seq(Seq(Bit)) /\ Len(due') = Unread - 1 /\ \A k \in 1 .. Unread - 1 : due'[k] = due[k + 1]
  BY <1>1, <1>3, <1>5, <1>6
<1>r. /\ ring' \in [0 .. _SS_MAX_RX_BUFF - 1 -> Seq(Bit)]
      /\ \A i \in 0 .. _SS_MAX_RX_BUFF - 1 : i # head => ring'[i] = ring[i]
  <2>1. ring \in [0 .. _SS_MAX_RX_BUFF - 1 -> Seq(Bit)] /\ << >> \in Seq(Bit)
    BY DEF SoftTypes
  <2>. QED BY <1>1, <1>3, <2>1
<1>8. SoftTypes'
  <2>1. << >> \in Seq(Bit)
    OBVIOUS
  <2>. QED BY <1>1, <1>4, <1>7, <1>r, <2>1 DEF SoftTypes, hardware
<1>9. RingHoldsDue'
  <2>1. \A i : Slot(i)' = Slot(i)
    BY DEF Slot
  <2>2. ASSUME NEW k \in 1 .. Unread - 1 PROVE due'[k] = ring'[Slot(head' + k - 1)]
    <3>1. k + 1 \in 1 .. Unread
      BY <1>5
    <3>2. due[k + 1] = ring[Slot(head + (k + 1) - 1)]
      BY <3>1 DEF RingHoldsDue
    <3>. QED BY <1>5, <1>7, <1>r, <3>2
  <2>. QED BY <1>5, <1>7, <2>1, <2>2 DEF RingHoldsDue
<1>. QED BY <1>2, <1>8, <1>9

\* A ring that is emptied holds nothing, and nothing is due.
LEMMA EmptyRing ==
  ASSUME SoftInv, Empty
  PROVE  /\ RingHoldsDue' /\ due' \in Seq(Seq(Bit)) /\ { head', tail' } \subseteq 0 .. _SS_MAX_RX_BUFF - 1
         /\ ring' \in [0 .. _SS_MAX_RX_BUFF - 1 -> Seq(Bit)]
<1>1. head' = 0 /\ tail' = 0 /\ due' = << >>
  BY DEF Empty
<1>2. Unread' = 0 /\ Len(due') = 0
  BY <1>1 DEF Unread
<1>3. RingHoldsDue'
  BY <1>2 DEF RingHoldsDue
<1>4. << >> \in Seq(Bit) /\ << >> \in Seq(Seq(Bit)) /\ 0 \in 0 .. _SS_MAX_RX_BUFF - 1
  BY RingIndices
<1>5. ring' \in [0 .. _SS_MAX_RX_BUFF - 1 -> Seq(Bit)]
  BY <1>4 DEF Empty, SoftInv, SoftTypes
<1>. QED BY <1>1, <1>3, <1>4, <1>5

LEMMA SoftStep == ASSUME SoftInv, [SoftNext]_softVars PROVE SoftInv'
<1>1. CASE UNCHANGED softVars
  <2>1. UNCHANGED << ringVars, due >>
    BY <1>1 DEF softVars
  <2>. QED BY <1>1, <2>1, RingKept
           DEF softVars, hardware, ringVars, SoftInv, SoftTypes, Receiving, Listening, Reading, Unread,
               Awaiting
<1>2. CASE Interrupt
  <2>1. UNCHANGED << ringVars, due, line, active_object, overflow, sketch, target, sending, d, inHand,
                     awaited >>
    BY <1>2 DEF Interrupt
  <2>2. d = << >> /\ recv = "none" /\ Bits \in Nat
    BY <1>2, SoftwareSerialAssumption DEF Interrupt, SoftInv, Receiving
  <2>3. CASE active_object # NoPort /\ Level(line[active_object]) = 0
    <3>1. /\ recv' = "bits" /\ clean' = (line[active_object].pos = 1) /\ pcint' = FALSE
          /\ masked' = [masked EXCEPT ![active_object] = TRUE] /\ active_object \in Ports
      BY <1>2, <2>3 DEF Interrupt, SoftInv, SoftTypes
    <3>2. SoftTypes'
      BY <2>1, <3>1 DEF SoftInv, SoftTypes, ringVars
    <3>3. Receiving'
      <4>1. d' = << >> /\ Len(d') = 0 /\ 0 <= Bits
        BY <2>1, <2>2
      <4>2. clean' => line'[active_object'].pos = Len(d') + 1
        <5>1. clean' => line[active_object].pos = 1
          BY ONLY <3>1
        <5>2. line'[active_object'] = line[active_object] /\ Len(d') + 1 = 1
          BY <2>1, <4>1
        <5>. QED BY <5>1, <5>2
      <4>3. \A i \in 1 .. Bits : ~(i <= Len(d'))
        BY <2>2, <4>1
      <4>4. recv' = "bits" /\ active_object' \in Ports
        BY <2>1, <3>1
      <4>. QED BY <4>1, <4>2, <4>3, <4>4 DEF Receiving
    <3>4. Listening'
      BY <2>1, <3>1 DEF SoftInv, Listening
    <3>5. Awaiting'
      BY <2>1, <2>2, <3>1 DEF SoftInv, Awaiting
    <3>. QED BY <2>1, <3>2, <3>3, <3>4, <3>5, RingKept, ReadingKept DEF SoftInv
  <2>4. CASE ~(active_object # NoPort /\ Level(line[active_object]) = 0)
    <3>1. UNCHANGED << masked, recv, clean >> /\ pcint' = FALSE
      BY <1>2, <2>4 DEF Interrupt
    <3>2. ~awaited
      <4>1. ASSUME awaited PROVE FALSE
        <5>1. active_object \in Ports /\ line[active_object].pos = 1
          BY <1>2, <4>1 DEF Interrupt, SoftInv, Awaiting
        <5>2. Level(line[active_object]) = 0 /\ active_object # NoPort
          BY <5>1, SoftwareSerialAssumption DEF Level
        <5>. QED BY <2>4, <5>2
      <4>. QED BY <4>1
    <3>. QED BY <2>1, <3>1, <3>2, RingKept, ReadingKept
             DEF ringVars, SoftInv, SoftTypes, Receiving, Listening, Awaiting
  <2>. QED BY <2>3, <2>4
<1>3. CASE RecvReturns
  <2>1. /\ active_object \in Ports /\ masked' = [masked EXCEPT ![active_object] = FALSE]
        /\ recv' = "none" /\ d' = << >> /\ clean' = FALSE
        /\ UNCHANGED << ringVars, due, hardware, active_object, overflow, sketch, target, sending, inHand,
                       awaited >>
        /\ ~awaited
    BY <1>3 DEF RecvReturns, SoftInv, Receiving, Awaiting
  <2>2. << >> \in Seq(Bit)
    OBVIOUS
  <2>3. SoftTypes'
    BY <2>1, <2>2 DEF SoftInv, SoftTypes, hardware, ringVars
  <2>4. Receiving' /\ Listening' /\ Awaiting'
    BY <2>1 DEF SoftInv, SoftTypes, Receiving, Listening, Awaiting
  <2>. QED BY <2>1, <2>3, <2>4, RingKept, ReadingKept DEF SoftInv
<1>4. ASSUME NEW p \in Ports, Listen(p) PROVE SoftInv'
  <2>1. UNCHANGED << ringVars, due >>
    BY <1>4 DEF Listen
  <2>. QED BY <1>4, <2>1, RingKept, ReadingKept
           DEF Listen, SketchCalls, SketchRuns, hardware, ringVars, SoftInv, SoftTypes, Receiving, Listening, Awaiting, Reading
<1>5. CASE EndPort
  <2>1. UNCHANGED << ringVars, due >>
    BY <1>5 DEF EndPort
  <2>. QED BY <1>5, <2>1, RingKept, ReadingKept
           DEF EndPort, SketchCalls, SketchRuns, hardware, ringVars, SoftInv, SoftTypes, Receiving, Listening, Awaiting, Reading
<1>6. CASE StopListening
  <2>1. UNCHANGED << ringVars, due >>
    BY <1>6 DEF StopListening
  <2>. QED BY <1>6, <2>1, RingKept, ReadingKept
           DEF StopListening, SketchRuns, hardware, ringVars, SoftInv, SoftTypes, Receiving, Listening, Awaiting, Reading
<1>7. CASE Reset
  <2>1. SoftTypes'
    BY <1>7, EmptyRing DEF Reset, SketchRuns, hardware, SoftInv, SoftTypes
  <2>2. Receiving' /\ Listening' /\ Awaiting' /\ Reading'
    BY <1>7 DEF Reset, SketchRuns, hardware, SoftInv, Receiving, Listening, Awaiting, Reading
  <2>. QED BY <1>7, <2>1, <2>2, EmptyRing DEF Reset, SoftInv
<1>8. CASE StartListening
  <2>1. UNCHANGED << ringVars, due >>
    BY <1>8 DEF StartListening
  <2>. QED BY <1>8, <2>1, RingKept, ReadingKept
           DEF StartListening, SketchRuns, hardware, ringVars, SoftInv, SoftTypes, Receiving, Listening, Awaiting, Reading
<1>9. CASE Flush
  <2>1. SoftTypes'
    BY <1>9, EmptyRing DEF Flush, hardware, SoftInv, SoftTypes
  <2>2. Receiving' /\ Listening' /\ Awaiting' /\ Reading'
    BY <1>9 DEF Flush, SketchCalls, hardware, SoftInv, Receiving, Listening, Awaiting, Reading
  <2>. QED BY <1>9, <2>1, <2>2, EmptyRing DEF Flush, SoftInv
<1>10. CASE WriteByte
  <2>1. UNCHANGED << ringVars, due >> /\ Bits + 1 \in 0 .. Bits + 1
    BY <1>10, SoftwareSerialAssumption DEF WriteByte
  <2>. QED BY <1>10, <2>1, RingKept, ReadingKept
           DEF WriteByte, SketchCalls, SketchRuns, hardware, ringVars, SoftInv, SoftTypes, Receiving, Listening,
               Awaiting, Reading
<1>11. CASE Read
  <2>1. /\ UNCHANGED << ringVars, due, hardware, masked, active_object, overflow, sketch, target, sending,
                        recv, d, clean, awaited >>
        /\ inHand' = ring[head] /\ sketch = "run" /\ head # tail
    BY <1>11 DEF Read, SketchCalls
  <2>2. inHand' \in Seq(Bit) /\ Unread > 0
    <3>1. /\ head \in 0 .. _SS_MAX_RX_BUFF - 1 /\ tail \in 0 .. _SS_MAX_RX_BUFF - 1
          /\ ring \in [0 .. _SS_MAX_RX_BUFF - 1 -> Seq(Bit)] /\ _SS_MAX_RX_BUFF \in Nat
      BY RingIndices DEF SoftInv, SoftTypes
    <3>2. Unread > 0
      BY ONLY <2>1, <3>1 DEF Unread
    <3>. QED BY <2>1, <3>1, <3>2
  <2>3. Reading'
    BY <2>1, <2>2 DEF Reading, Unread, ringVars
  <2>. QED BY <2>1, <2>2, <2>3, RingKept
           DEF hardware, ringVars, SoftInv, SoftTypes, Receiving, Listening, Awaiting
<1>. QED BY <1>1, <1>2, <1>3, <1>4, <1>5, <1>6, <1>7, <1>8, <1>9, <1>10, <1>11, BitTimeKeeps, StoreKeeps,
         ReadAdvancesKeeps
         DEF SoftNext

(* The sketch reads what the peer of the listening port has sent, whatever *)
(* the other lines do and wherever in read() the handler comes; every byte *)
(* that starts while the port listens is stored, or counted as an          *)
(* overflow, before its stop bit, also when bytes follow one another       *)
(* without a pause; and the port that listens is not left masked.  For any *)
(* set of ports, bytes of any width and a ring of any size                 *)
(* (SoftwareSerial.cpp:85-187, :393-403).                                  *)
THEOREM PortHearsItsPeer == SoftSpec => []SoftPortHears
<1>1. SoftInv => SoftPortHears
  <2>. SUFFICES ASSUME SoftInv PROVE SoftPortHears
    OBVIOUS
  <2>. USE DEF SoftInv
  <2>1. /\ tail \in 0 .. _SS_MAX_RX_BUFF - 1 /\ head \in 0 .. _SS_MAX_RX_BUFF - 1
        /\ due \in Seq(Seq(Bit)) /\ _SS_MAX_RX_BUFF \in Nat \ { 0, 1 }
    BY RingIndices DEF SoftTypes
  <2>2. (tail + _SS_MAX_RX_BUFF - head) % _SS_MAX_RX_BUFF = Unread
    BY ONLY <2>1 DEF Unread
  <2>3. Len(due) = Unread /\ Unread \in 0 .. _SS_MAX_RX_BUFF - 1
    BY <2>1 DEF RingHoldsDue, Unread
  <2>4. ASSUME NEW k \in 1 .. Unread PROVE ring[(head + k - 1) % _SS_MAX_RX_BUFF] = due[k]
    <3>1. head + k - 1 \in 0 .. 2 * _SS_MAX_RX_BUFF - 1
      BY ONLY <2>1, <2>3
    <3>. QED BY <3>1, RingIndices DEF RingHoldsDue
  <2>5. Content = due
    <3>1. Content = [k \in 1 .. Unread |-> ring[(head + k - 1) % _SS_MAX_RX_BUFF]]
      BY <2>2 DEF Content
    <3>2. due = [k \in 1 .. Unread |-> due[k]]
      BY <2>1, <2>3
    <3>. QED BY <2>4, <3>1, <3>2
  <2>6. inHand # << >> => due # << >> /\ inHand = Head(due)
    <3>1. ASSUME inHand # << >> PROVE due # << >> /\ inHand = Head(due)
      <4>1. Unread >= 1 /\ inHand = ring[head]
        BY <2>3, <3>1 DEF Reading
      <4>2. due[1] = ring[(head + 1 - 1) % _SS_MAX_RX_BUFF]
        <5>1. 1 \in 1 .. Unread
          BY <2>3, <4>1
        <5>. QED BY ONLY <2>4, <5>1
      <4>3. (head + 1 - 1) % _SS_MAX_RX_BUFF = head
        <5>1. head + 1 - 1 = head /\ head \in 0 .. 2 * _SS_MAX_RX_BUFF - 1
          BY ONLY <2>1
        <5>2. head % _SS_MAX_RX_BUFF = Slot(head)
          BY <5>1, RingIndices
        <5>3. Slot(head) = head
          BY <2>1 DEF Slot
        <5>. QED BY <5>1, <5>2, <5>3
      <4>. QED BY <2>1, <2>3, <4>1, <4>2, <4>3
    <3>. QED BY <3>1
  <2>7. HearsEveryByte
    <3>1. Bits \in Nat \ { 0 } /\ NoPort \notin Ports
      BY SoftwareSerialAssumption
    <3>2. recv = "bits" /\ clean => line[active_object].pos = Len(d) + 1 /\ Len(d) <= Bits /\ Len(d) \in Nat
      BY DEF Receiving, SoftTypes
    <3>. QED BY <3>1, <3>2 DEF HearsEveryByte, Awaiting
  <2>. QED BY <2>5, <2>6, <2>7 DEF SoftPortHears, SoftRxFifo, ListenerHears, Listening
<1>2. SoftInv /\ [SoftNext]_softVars => SoftInv'
  BY SoftStep
<1>. QED BY <1>1, <1>2, SoftStart, PTL DEF SoftSpec

-----------------------------------------------------------------------------
(* The card.                                                               *)

(* The sketch goes on with a partial read by calls that the driver takes,  *)
(* stops a sequence only while it lasts, and leaves interrupts alone       *)
(* during one: the driver looks after none of the three.                   *)
KeepsTheRules == ~Refused /\ ~StopAfterFailure /\ ~Nested

SpiStates == [eimsk : SUBSET IntLines, on : BOOLEAN, save : SUBSET (IntLines \cup { AnyLine })]

\* The interrupts as the sketch set them, and as a transaction leaves them.
Unmasked(s) == s.eimsk = linesWanted /\ s.on = TRUE
Masked(s) ==
  /\ interruptMode = 0 => s.eimsk = linesWanted /\ s.on = TRUE
  /\ interruptMode = 1 => s.eimsk = linesWanted \ interruptMask /\ s.save = linesWanted /\ s.on = TRUE
  /\ interruptMode = 2 => s.eimsk = linesWanted /\ s.save = { AnyLine } /\ s.on = FALSE

MaskInv ==
  /\ spi \in SpiStates /\ linesWanted \in SUBSET IntLines
  /\ interruptMode \in 0 .. 2 /\ interruptMask \in SUBSET IntLines
  /\ asserted \in BOOLEAN /\ selected = asserted
  /\ asserted => Masked(spi)
  /\ ~asserted => Unmasked(spi)

\* Where a call is, and what it may count on.
CallInv ==
  /\ cardPc \in { "idle", "init", "read", "transfer", "write", "register", "erase", "start", "data", "stop" }
  /\ { inBlock, sequence, ready, stopped, partial } \subseteq BOOLEAN
  /\ cardPc # "idle" => asserted /\ result = Nothing /\ stopped = FALSE
  /\ cardPc = "idle" /\ asserted => inBlock \/ sequence
  /\ inBlock => asserted /\ ~sequence /\ cardPc \in { "idle", "transfer" }
  /\ cardPc = "transfer" => inBlock
  /\ cardPc \in { "data", "stop" } => sequence
  /\ sequence => cardPc \in { "idle", "data", "stop" }
  /\ cardPc \notin { "idle", "init" } => ready
  /\ ready => type = kind
  /\ stopped => multi = -1

\* What the card sends is the rest of the block that is being read.
Cells == { << memory[block], k >> : k \in Nat }

StreamInv ==
  /\ kind \in { "SD1", "SD2", "SDHC" }
  /\ cardPc \in { "read", "transfer" } =>
       /\ request[1] = block /\ block \in Blocks
       /\ request[2] \in Nat /\ request[3] \in Nat \ { 0 } /\ request[2] + request[3] <= BlockLen
  /\ cardPc = "transfer" => offset <= request[2]
  /\ inBlock =>
       /\ offset \in 0 .. BlockLen
       /\ stream \in Seq(Cells) /\ Len(stream) = BlockLen - offset
       /\ \A k \in 1 .. BlockLen - offset : stream[k] = << memory[block], offset + k - 1 >>

CardInv == MaskInv /\ CallInv /\ StreamInv /\ ReadIsBlock

LEMMA TransactionBegins ==
  ASSUME NEW s \in SpiStates, MaskInv, Unmasked(s)
  PROVE  beginTransaction(s) \in SpiStates /\ Masked(beginTransaction(s))
<1>s. /\ s = [eimsk |-> s.eimsk, on |-> s.on, save |-> s.save]
      /\ s.eimsk \in SUBSET IntLines /\ s.on \in BOOLEAN /\ s.save \in SUBSET (IntLines \cup { AnyLine })
      /\ s.eimsk = linesWanted /\ s.on = TRUE
  BY DEF SpiStates, Unmasked
<1>0. CASE interruptMode = 0
  BY <1>0, <1>s DEF beginTransaction, Masked
<1>1. CASE interruptMode = 1
  <2>1. beginTransaction(s) = [eimsk |-> s.eimsk \ interruptMask, on |-> s.on, save |-> s.eimsk]
    BY <1>1 DEF beginTransaction
  <2>. QED BY <1>1, <2>1, <1>s DEF SpiStates, Masked
<1>2. CASE interruptMode = 2
  <2>1. beginTransaction(s) = [eimsk |-> s.eimsk, on |-> FALSE, save |-> { AnyLine }]
    BY <1>2, <1>s DEF beginTransaction
  <2>. QED BY <1>2, <2>1, <1>s DEF SpiStates, Masked
<1>3. interruptMode \in 0 .. 2
  BY DEF MaskInv
<1>. QED BY <1>0, <1>1, <1>2, <1>3

LEMMA TransactionEnds ==
  ASSUME NEW s \in SpiStates, MaskInv, Masked(s)
  PROVE  endTransaction(s) \in SpiStates /\ Unmasked(endTransaction(s))
<1>s. /\ s = [eimsk |-> s.eimsk, on |-> s.on, save |-> s.save]
      /\ s.eimsk \in SUBSET IntLines /\ s.on \in BOOLEAN /\ s.save \in SUBSET (IntLines \cup { AnyLine })
  BY DEF SpiStates
<1>0. CASE interruptMode = 0
  BY <1>0 DEF endTransaction, Masked, Unmasked
<1>1. CASE interruptMode = 1
  <2>1. endTransaction(s) = [eimsk |-> s.save, on |-> s.on, save |-> s.save]
    BY <1>1, <1>s DEF endTransaction, SpiStates
  <2>2. s.save = linesWanted /\ s.on = TRUE /\ linesWanted \in SUBSET IntLines
    BY <1>1 DEF Masked, MaskInv
  <2>. QED BY <2>1, <2>2, <1>s DEF SpiStates, Unmasked
<1>2. CASE interruptMode = 2
  <2>1. s.save = { AnyLine } /\ s.eimsk = linesWanted
    BY <1>2 DEF Masked
  <2>3. (AnyLine \in s.save) = TRUE
    BY <2>1
  <2>5. interruptMode # 0 /\ interruptMode # 1
    BY <1>2
  <2>4. endTransaction(s) = [s EXCEPT !.on = TRUE]
    BY <2>3, <2>5, Zenon DEF endTransaction
  <2>2. endTransaction(s) = [eimsk |-> s.eimsk, on |-> TRUE, save |-> s.save]
    BY <2>4, <1>s DEF SpiStates
  <2>. QED BY <2>1, <2>2, <1>s DEF SpiStates, Unmasked
<1>3. interruptMode \in 0 .. 2
  BY DEF MaskInv
<1>. QED BY <1>0, <1>1, <1>2, <1>3

\* The address in a command, in the way of the card, is that of the block.
LEMMA AddressIsBlock ==
  ASSUME NEW b \in Blocks, type = kind, kind \in { "SD1", "SD2", "SDHC" }
  PROVE  BlockAt(Address(b)) = b
<1>1. b \in Nat /\ BlockLen \in Nat \ { 0, 1 }
  BY Sd2CardAssumption
<1>2. (b * BlockLen) \div BlockLen = b
  BY <1>1
<1>. QED BY <1>2 DEF BlockAt, Address

LEMMA CardStart == CardInit => CardInv
<1>. SUFFICES ASSUME CardInit PROVE CardInv
  OBVIOUS
<1>. USE DEF CardInit
<1>1. MaskInv
  <2>1. spi \in SpiStates /\ Unmasked(spi)
    BY DEF SpiStates, Unmasked
  <2>2. ~asserted /\ asserted \in BOOLEAN /\ selected = asserted
    BY Zenon
  <2>3. /\ linesWanted \in SUBSET IntLines /\ interruptMask \in SUBSET IntLines
        /\ interruptMode \in 0 .. 2
    OBVIOUS
  <2>. QED BY <2>1, <2>2, <2>3, Zenon DEF MaskInv
<1>2. CallInv
  BY DEF CallInv
<1>3. StreamInv
  BY Sd2CardAssumption DEF StreamInv
<1>4. ReadIsBlock
  BY DEF ReadIsBlock, Nothing
<1>. QED BY <1>1, <1>2, <1>3, <1>4 DEF CardInv

-----------------------------------------------------------------------------
(* A step keeps each part.                                                 *)

\* The card is released: whoever was masked is not.
LEMMA Releases ==
  ASSUME MaskInv, chipSelectHigh, UNCHANGED handlers
  PROVE  MaskInv' /\ ~asserted'
<1>1. spi' \in SpiStates /\ Unmasked(spi')
  <2>1. CASE asserted
    BY <2>1, TransactionEnds DEF chipSelectHigh, MaskInv
  <2>2. CASE ~asserted
    BY <2>2 DEF chipSelectHigh, MaskInv
  <2>. QED BY <2>1, <2>2 DEF MaskInv
<1>2. ~asserted' /\ asserted' \in BOOLEAN /\ selected' = asserted'
  BY Zenon DEF chipSelectHigh
<1>. QED BY <1>1, <1>2 DEF MaskInv, handlers, Unmasked

\* A command selects it, and masks them.
LEMMA Selects ==
  ASSUME MaskInv, CallInv, cardCommand, cardPc = "idle", ~sequence, UNCHANGED handlers
  PROVE  MaskInv' /\ asserted'
<1>1. spi' \in SpiStates /\ Masked(spi')
  <2>1. CASE inBlock
    <3>1. asserted
      BY <2>1 DEF CallInv
    <3>2. endTransaction(spi) \in SpiStates /\ Unmasked(endTransaction(spi))
      BY <3>1, TransactionEnds DEF MaskInv
    <3>3. spi' = beginTransaction(endTransaction(spi))
      BY <2>1, <3>1 DEF cardCommand
    <3>. QED BY <3>2, <3>3, TransactionBegins
  <2>2. CASE ~inBlock
    <3>1. ~asserted
      BY <2>2 DEF CallInv, MaskInv
    <3>2. spi' = beginTransaction(spi) /\ spi \in SpiStates /\ Unmasked(spi)
      BY <2>2, <3>1 DEF cardCommand, MaskInv
    <3>. QED BY <3>2, TransactionBegins
  <2>. QED BY <2>1, <2>2 DEF CallInv
<1>2. asserted' /\ asserted' \in BOOLEAN /\ selected' = asserted'
  BY Zenon DEF cardCommand
<1>. QED BY <1>1, <1>2 DEF MaskInv, handlers, Masked

LEMMA MaskStep == ASSUME KeepsTheRules, MaskInv, CallInv, [CardNext]_cardVars PROVE MaskInv'
<1>1. CASE UNCHANGED << bus, handlers >>
  BY <1>1 DEF MaskInv, bus, handlers, Masked, Unmasked
<1>2. ASSUME chipSelectHigh, UNCHANGED handlers PROVE MaskInv'
  BY <1>2, Releases
<1>3. ASSUME cardCommand, cardPc = "idle", ~sequence, UNCHANGED handlers PROVE MaskInv'
  BY <1>3, Selects
<1>4. CASE CardInterrupts
  <2>0. ~asserted
    BY <1>4 DEF CardInterrupts, usingInterrupt, notUsingInterrupt, SetLine, KeepsTheRules
  <2>1. UNCHANGED asserted /\ UNCHANGED selected
    BY <1>4 DEF CardInterrupts, usingInterrupt, notUsingInterrupt, SetLine, bus
  <2>2. /\ interruptMode' \in 0 .. 2 /\ interruptMask' \in SUBSET IntLines
        /\ linesWanted' \in SUBSET IntLines
    BY <1>4 DEF CardInterrupts, usingInterrupt, notUsingInterrupt, SetLine, MaskInv
  <2>3. spi' \in SpiStates /\ Unmasked(spi)'
    <3>1. CASE UNCHANGED << spi, linesWanted >>
      BY <3>1, <2>0 DEF MaskInv, Unmasked
    <3>2. ASSUME NEW l \in IntLines, NEW on \in BOOLEAN, SetLine(l, on) PROVE spi' \in SpiStates /\ Unmasked(spi)'
      <4>1. spi \in SpiStates /\ Unmasked(spi)
        BY <2>0 DEF MaskInv
      <4>2. CASE on
        BY <3>2, <4>1, <4>2 DEF SetLine, SpiStates, Unmasked
      <4>3. CASE ~on
        BY <3>2, <4>1, <4>3 DEF SetLine, SpiStates, Unmasked
      <4>. QED BY <4>2, <4>3
    <3>. QED BY <1>4, <3>1, <3>2 DEF CardInterrupts, usingInterrupt, notUsingInterrupt, bus
  <2>. QED BY <2>0, <2>1, <2>2, <2>3 DEF MaskInv, Unmasked
<1>5. CASE CardCalls
  <2>1. CASE readDataRefuses \/ writeRefuses
    BY <1>2, <2>1 DEF readDataRefuses, writeRefuses, Refuses
  <2>2. CASE readRegister
    BY <1>3, <2>2 DEF readRegister, Calls, Uncalled
  <2>3. CASE writeStop
    BY <1>1, <2>3 DEF writeStop, Calls
  <2>4. CASE init
    <3>1. ~asserted
      BY <2>4 DEF init, KeepsTheRules
    <3>2. spi \in SpiStates /\ Unmasked(spi)
      BY <3>1 DEF MaskInv
    <3>3. /\ endTransaction(beginTransaction(spi)) \in SpiStates
          /\ Unmasked(endTransaction(beginTransaction(spi)))
      BY <3>2, TransactionBegins, TransactionEnds
    <3>4. spi' \in SpiStates /\ Masked(spi')
      <4>1. spi' = beginTransaction(endTransaction(beginTransaction(spi)))
        BY <2>4, <3>1 DEF init
      <4>. QED BY <3>3, <4>1, TransactionBegins
    <3>5. asserted' /\ asserted' \in BOOLEAN /\ selected' = asserted' /\ UNCHANGED handlers
      BY <2>4, Zenon DEF init
    <3>. QED BY <3>4, <3>5 DEF MaskInv, handlers, Masked
  <2>5. ASSUME NEW value \in BOOLEAN, partialBlockRead(value) PROVE MaskInv'
    BY <1>1, <1>2, <2>5 DEF partialBlockRead, readEnd
  <2>6. ASSUME NEW b \in Blocks, writeStart(b) PROVE MaskInv'
    BY <1>3, <2>6 DEF writeStart, Calls, Uncalled
  <2>7. ASSUME NEW b \in Blocks, NEW first \in 0 .. BlockLen - 1, NEW count \in 1 .. BlockLen,
               readData(b, first, count)
        PROVE  MaskInv'
    BY <1>1, <1>3, <2>7 DEF readData, Calls, Uncalled
  <2>8. ASSUME NEW b \in Blocks, NEW to \in Blocks, erase(b, to) PROVE MaskInv'
    BY <1>3, <2>8 DEF erase, Calls, Uncalled
  <2>9. ASSUME NEW b \in Blocks, NEW v \in Versions, writeBlock(b, v) PROVE MaskInv'
    BY <1>3, <2>9 DEF writeBlock, Calls, Uncalled
  <2>10. ASSUME NEW v \in Versions, writeData(v) PROVE MaskInv'
    BY <1>1, <2>10 DEF writeData, Calls
  <2>. QED BY <1>5, <2>1, <2>2, <2>3, <2>4, <2>5, <2>6, <2>7, <2>8, <2>9, <2>10 DEF CardCalls
<1>6. CASE CommandFails
  BY <1>2, <1>6 DEF CommandFails
<1>7. CASE readAnswered \/ DataTaken
  BY <1>1, <1>7 DEF readAnswered, DataTaken
<1>8. CASE Transfer
  BY <1>1, <1>2, <1>8 DEF Transfer
<1>9. CASE Succeeds
  BY <1>1, <1>2, <1>9 DEF Succeeds
<1>10. CASE StopTaken \/ initEnds
  BY <1>2, <1>10 DEF StopTaken, initEnds
<1>11. CASE UNCHANGED cardVars
  BY <1>1, <1>11 DEF cardVars, bus, handlers
<1>. QED BY <1>4, <1>5, <1>6, <1>7, <1>8, <1>9, <1>10, <1>11 DEF CardNext

LEMMA CallStep == ASSUME KeepsTheRules, MaskInv, CallInv, StreamInv, [CardNext]_cardVars PROVE CallInv'
<1>1. CASE UNCHANGED << cardPc, inBlock, sequence, ready, stopped, partial, asserted, result, type, kind, multi >>
  BY <1>1 DEF CallInv
<1>2. CASE CardInterrupts
  BY <1>1, <1>2 DEF CardInterrupts, usingInterrupt, notUsingInterrupt, SetLine, driver, bus, caller, card
<1>3. CASE CardCalls
  <2>1. CASE readDataRefuses \/ writeRefuses
    <3>1. Refuses
      BY <2>1 DEF readDataRefuses, writeRefuses
    <3>2. ~asserted' /\ stopped' = FALSE
      BY <3>1 DEF Refuses, chipSelectHigh
    <3>3. /\ cardPc = "idle" /\ ~inBlock
          /\ UNCHANGED << cardPc, inBlock, sequence, ready, partial, type, kind, multi >>
      BY <3>1 DEF Refuses, Uncalled, driver, KeepsTheRules
    <3>. QED BY <3>2, <3>3 DEF CallInv
  <2>2. ASSUME NEW op \in { "read", "write", "register", "erase", "start" }, NEW args,
               Calls(op, args), cardCommand, ~sequence, UNCHANGED sequence
        PROVE  CallInv'
    BY <2>2 DEF Calls, cardCommand, Uncalled, CallInv
  <2>3. CASE readRegister
    BY <2>2, <2>3 DEF readRegister
  <2>4. CASE writeStop
    BY <2>4 DEF writeStop, Calls, Uncalled, bus, CallInv, MaskInv, KeepsTheRules
  <2>5. CASE init
    BY <2>5 DEF init, Uncalled, CallInv
  <2>6. ASSUME NEW value \in BOOLEAN, partialBlockRead(value) PROVE CallInv'
    BY <2>6 DEF partialBlockRead, readEnd, chipSelectHigh, Uncalled, bus, CallInv
  <2>7. ASSUME NEW b \in Blocks, writeStart(b) PROVE CallInv'
    BY <2>2, <2>7 DEF writeStart
  <2>8. ASSUME NEW b \in Blocks, NEW first \in 0 .. BlockLen - 1, NEW count \in 1 .. BlockLen,
               readData(b, first, count)
        PROVE  CallInv'
    <3>1. CASE GoesOn(b, first)
      BY <2>8, <3>1 DEF readData, GoesOn, Calls, Uncalled, bus, CallInv
    <3>2. CASE ~GoesOn(b, first)
      BY <2>2, <2>8, <3>2 DEF readData
    <3>. QED BY <3>1, <3>2
  <2>9. ASSUME NEW b \in Blocks, NEW to \in Blocks, erase(b, to) PROVE CallInv'
    BY <2>2, <2>9 DEF erase
  <2>10. ASSUME NEW b \in Blocks, NEW v \in Versions, writeBlock(b, v) PROVE CallInv'
    BY <2>2, <2>10 DEF writeBlock
  <2>11. ASSUME NEW v \in Versions, writeData(v) PROVE CallInv'
    BY <2>11 DEF writeData, Calls, Uncalled, bus, CallInv, MaskInv
  <2>. QED BY <1>3, <2>1, <2>3, <2>4, <2>5, <2>6, <2>7, <2>8, <2>9, <2>10, <2>11 DEF CardCalls
<1>4. CASE CommandFails
  BY <1>4 DEF CommandFails, Ends, chipSelectHigh, driver, CallInv
<1>5. CASE readAnswered
  BY <1>5 DEF readAnswered, bus, CallInv
<1>6. CASE Transfer
  BY <1>6 DEF Transfer, chipSelectHigh, bus, CallInv
<1>7. CASE Succeeds
  BY <1>7 DEF Succeeds, Ends, chipSelectHigh, driver, bus, CallInv
<1>8. CASE DataTaken
  BY <1>8 DEF DataTaken, Ends, driver, bus, CallInv
<1>9. CASE StopTaken
  BY <1>9 DEF StopTaken, Ends, chipSelectHigh, driver, CallInv, MaskInv
<1>10. CASE initEnds
  BY <1>10 DEF initEnds, Ends, chipSelectHigh, CallInv, StreamInv
<1>11. CASE UNCHANGED cardVars
  BY <1>1, <1>11 DEF cardVars, driver, bus, caller, card
<1>. QED BY <1>2, <1>3, <1>4, <1>5, <1>6, <1>7, <1>8, <1>9, <1>10, <1>11 DEF CardNext

\* Only a read has to do with what the card sends.
LEMMA NoRead ==
  ASSUME StreamInv, ~inBlock', cardPc' \notin { "read", "transfer" }, UNCHANGED kind
  PROVE  StreamInv'
BY DEF StreamInv

LEMMA ReadStarts ==
  ASSUME CallInv, StreamInv, NEW b \in Blocks, NEW first \in 0 .. BlockLen - 1, NEW count \in 1 .. BlockLen,
         readData(b, first, count)
  PROVE  StreamInv'
<1>1. /\ request' = << b, first, count >> /\ UNCHANGED << kind, memory, offset >>
      /\ first + count <= BlockLen
  BY DEF readData, Calls
<1>2. CASE GoesOn(b, first)
  <2>1. cardPc' = "transfer" /\ block' = b /\ UNCHANGED << inBlock, block, stream >>
    BY <1>2 DEF readData, Calls, GoesOn
  <2>2. offset <= first
    BY <1>2 DEF GoesOn, StreamInv
  <2>. QED BY <1>1, <2>1, <2>2, Sd2CardAssumption DEF StreamInv, Cells
<1>3. CASE ~GoesOn(b, first)
  <2>1. cardPc' = "read" /\ ~inBlock' /\ block' = b
    BY <1>3 DEF readData, Calls, cardCommand
  <2>. QED BY <1>1, <2>1, Sd2CardAssumption DEF StreamInv
<1>. QED BY <1>2, <1>3

LEMMA ReadAnswers == ASSUME CallInv, StreamInv, readAnswered PROVE StreamInv'
<1>1. /\ block \in Blocks /\ cardPc = "read" /\ cardPc' = "transfer" /\ offset' = 0 /\ inBlock'
      /\ UNCHANGED << block, request, kind, memory >>
  BY DEF readAnswered, StreamInv
<1>2. BlockAt(Address(block)) = block
  BY <1>1, AddressIsBlock DEF CallInv, StreamInv
<1>3. stream' = [k \in 1 .. BlockLen |-> << memory[block], k - 1 >>]
  BY <1>1, <1>2 DEF readAnswered
<1>4. /\ stream' \in Seq(Cells) /\ Len(stream') = BlockLen
      /\ \A k \in 1 .. BlockLen : stream'[k] = << memory[block], k - 1 >>
  <2>1. BlockLen \in Nat
    BY Sd2CardAssumption
  <2>2. \A k \in 1 .. BlockLen : << memory[block], k - 1 >> \in Cells
    BY <2>1 DEF Cells
  <2>. QED BY <1>3, <2>1, <2>2
<1>. QED BY <1>1, <1>4, Sd2CardAssumption DEF StreamInv, Cells

LEMMA TransferTakes == ASSUME MaskInv, CallInv, StreamInv, Transfer PROVE StreamInv' /\ ReadIsBlock'
<1>. DEFINE first == request[2]
            count == request[3]
            skipped == first - offset
<1>1. /\ inBlock /\ first \in Nat /\ count \in Nat \ { 0 } /\ offset \in 0 .. BlockLen
      /\ offset <= first /\ first + count <= BlockLen /\ BlockLen \in Nat
      /\ request[1] = block /\ UNCHANGED << block, kind, memory >> /\ cardPc' = "idle"
      /\ offset' = first + count
      /\ stream \in Seq(Cells) /\ Len(stream) = BlockLen - offset
      /\ \A k \in 1 .. BlockLen - offset : stream[k] = << memory[block], offset + k - 1 >>
  BY Sd2CardAssumption DEF Transfer, CallInv, StreamInv
<1>n. /\ first \in Nat /\ count \in Nat \ { 0 } /\ offset \in Nat /\ BlockLen \in Nat
      /\ offset <= first /\ first + count <= BlockLen
      /\ skipped \in Nat /\ offset + skipped = first /\ Len(stream) = BlockLen - offset
  BY <1>1
<1>2. ReadIsBlock'
  <2>1. selected
    BY <1>1 DEF CallInv, MaskInv
  <2>2. result' = [block |-> block, first |-> first, bytes |-> [k \in 1 .. count |-> Sent(skipped + k)]]
    BY <1>1 DEF Transfer
  <2>3. ASSUME NEW k \in 1 .. count PROVE Sent(skipped + k) = << memory[block], first + k - 1 >>
    <3>1. skipped + k \in 1 .. BlockLen - offset /\ offset + (skipped + k) - 1 = first + k - 1
      <4>. HIDE DEF first, count, skipped
      <4>. QED BY <1>n
    <3>2. skipped + k \in DOMAIN stream
      BY <1>1, <3>1
    <3>. QED BY <1>1, <2>1, <3>1, <3>2 DEF Sent
  <2>. HIDE DEF first, count, skipped
  <2>. QED BY <1>1, <2>2, <2>3 DEF ReadIsBlock
<1>3. StreamInv'
  <2>1. CASE ~inBlock'
    BY <1>1, <2>1 DEF StreamInv
  <2>2. CASE inBlock'
    <3>1. /\ stream' = SubSeq(stream, skipped + count + 1, Len(stream))
          /\ offset' < BlockLen
      BY SMTT(30), <1>1, <2>2 DEF Transfer
    <3>2. /\ skipped + count + 1 \in 1 .. Len(stream) + 1 /\ Len(stream) \in Nat
          /\ Len(stream) - (skipped + count + 1) + 1 = BlockLen - offset'
          /\ skipped + count + 1 <= Len(stream) /\ offset' \in 0 .. BlockLen
          /\ \A k \in 1 .. BlockLen - offset' :
               /\ (skipped + count + 1) + k - 1 \in 1 .. BlockLen - offset
               /\ offset + ((skipped + count + 1) + k - 1) - 1 = offset' + k - 1
      <4>1. offset' = first + count
        BY <1>1
      <4>. HIDE DEF first, count, skipped
      <4>. QED BY <1>n, <3>1, <4>1
    <3>3. /\ stream' \in Seq(Cells) /\ Len(stream') = BlockLen - offset'
          /\ \A k \in 1 .. BlockLen - offset' : stream'[k] = stream[(skipped + count + 1) + k - 1]
      <4>. HIDE DEF first, count, skipped, Cells
      <4>1. /\ stream' \in Seq(Cells)
            /\ Len(stream') = Len(stream) - (skipped + count + 1) + 1
            /\ \A k \in 1 .. Len(stream) - (skipped + count + 1) + 1 :
                 stream'[k] = stream[(skipped + count + 1) + k - 1]
        <5>1. \A i \in skipped + count + 1 .. Len(stream) : stream[i] \in Cells
          BY <1>1, <3>2
        <5>2. skipped + count + 1 \in Int /\ Len(stream) \in Int
          BY <3>2
        <5>. QED BY SMTT(30), <3>1, <3>2, <5>1, <5>2, SubSeqProperties
      <4>. QED BY <3>2, <4>1
    <3>4. \A k \in 1 .. BlockLen - offset' : stream'[k] = << memory[block], offset' + k - 1 >>
      BY <1>1, <3>2, <3>3
    <3>5. stream' \in Seq(Cells)' /\ kind \in { "SD1", "SD2", "SDHC" }
      BY <1>1, <3>3 DEF Cells, StreamInv
    <3>. QED BY <1>1, <3>2, <3>3, <3>4, <3>5 DEF StreamInv
  <2>. QED BY <2>1, <2>2
<1>. QED BY <1>2, <1>3

LEMMA StreamStep ==
  ASSUME KeepsTheRules, MaskInv, CallInv, StreamInv, [CardNext]_cardVars
  PROVE  StreamInv'
<1>1. CASE UNCHANGED << cardPc, inBlock, block, offset, request, kind, memory, stream >>
  BY <1>1 DEF StreamInv, Cells
<1>2. CASE CardInterrupts
  BY <1>1, <1>2 DEF CardInterrupts, usingInterrupt, notUsingInterrupt, SetLine, driver, bus, caller, card
<1>3. CASE CardCalls
  <2>1. CASE readDataRefuses \/ writeRefuses
    BY <2>1, NoRead DEF readDataRefuses, writeRefuses, Refuses, Uncalled, driver, KeepsTheRules
  <2>2. ASSUME NEW op \in { "write", "register", "erase", "start" }, NEW args,
               Calls(op, args), cardCommand
        PROVE  StreamInv'
    BY <2>2, NoRead DEF Calls, cardCommand
  <2>3. CASE readRegister
    BY <2>2, <2>3 DEF readRegister
  <2>4. CASE writeStop
    BY <2>4, NoRead DEF writeStop, Calls, CallInv
  <2>5. CASE init
    BY <2>5, NoRead DEF init
  <2>6. ASSUME NEW value \in BOOLEAN, partialBlockRead(value) PROVE StreamInv'
    BY <2>6, NoRead DEF partialBlockRead, readEnd, Uncalled, CallInv
  <2>7. ASSUME NEW b \in Blocks, writeStart(b) PROVE StreamInv'
    BY <2>2, <2>7 DEF writeStart
  <2>8. ASSUME NEW b \in Blocks, NEW first \in 0 .. BlockLen - 1, NEW count \in 1 .. BlockLen,
               readData(b, first, count)
        PROVE  StreamInv'
    BY <2>8, ReadStarts
  <2>9. ASSUME NEW b \in Blocks, NEW to \in Blocks, erase(b, to) PROVE StreamInv'
    BY <2>2, <2>9 DEF erase
  <2>10. ASSUME NEW b \in Blocks, NEW v \in Versions, writeBlock(b, v) PROVE StreamInv'
    BY <2>2, <2>10 DEF writeBlock
  <2>11. ASSUME NEW v \in Versions, writeData(v) PROVE StreamInv'
    BY <2>11, NoRead DEF writeData, Calls, CallInv
  <2>. QED BY <1>3, <2>1, <2>3, <2>4, <2>5, <2>6, <2>7, <2>8, <2>9, <2>10, <2>11 DEF CardCalls
<1>4. CASE CommandFails
  BY <1>4, NoRead DEF CommandFails, Ends, driver, CallInv
<1>5. CASE readAnswered
  BY <1>5, ReadAnswers
<1>6. CASE Transfer
  BY <1>6, TransferTakes
<1>7. CASE Succeeds
  BY <1>7, NoRead DEF Succeeds, Ends, driver, CallInv
<1>8. CASE DataTaken \/ StopTaken \/ initEnds
  BY <1>8, NoRead DEF DataTaken, StopTaken, initEnds, Ends, driver, CallInv
<1>11. CASE UNCHANGED cardVars
  BY <1>1, <1>11 DEF cardVars, driver, caller, card
<1>. QED BY <1>2, <1>3, <1>4, <1>5, <1>6, <1>7, <1>8, <1>11 DEF CardNext

\* The block is written only by calls, which have forgotten what was read.
LEMMA ReadStep ==
  ASSUME KeepsTheRules, MaskInv, CallInv, StreamInv, ReadIsBlock, [CardNext]_cardVars
  PROVE  ReadIsBlock'
<1>1. CASE UNCHANGED << result, memory >>
  BY <1>1 DEF ReadIsBlock
<1>2. CASE result' = Nothing
  BY <1>2 DEF ReadIsBlock, Nothing
<1>3. CASE CardInterrupts
  BY <1>1, <1>3 DEF CardInterrupts, usingInterrupt, notUsingInterrupt, SetLine, caller, card
<1>4. CASE CardCalls
  BY <1>2, <1>4 DEF CardCalls, readDataRefuses, writeRefuses, Refuses, readRegister, writeStop, init,
                    partialBlockRead, writeStart, readData, erase, writeBlock, writeData, Calls
<1>5. CASE Transfer
  BY <1>5, TransferTakes
<1>6. CASE CommandFails \/ readAnswered \/ Succeeds \/ DataTaken \/ StopTaken \/ initEnds
  BY <1>2, <1>6 DEF CommandFails, readAnswered, Succeeds, DataTaken, StopTaken, initEnds, Ends, CallInv
<1>7. CASE UNCHANGED cardVars
  BY <1>1, <1>7 DEF cardVars, caller, card
<1>. QED BY <1>3, <1>4, <1>5, <1>6, <1>7 DEF CardNext

LEMMA CardInductive == KeepsTheRules /\ CardSpec => []CardInv
<1>1. KeepsTheRules /\ CardInv /\ [CardNext]_cardVars => CardInv'
  BY MaskStep, CallStep, StreamStep, ReadStep DEF CardInv
<1>2. KeepsTheRules => KeepsTheRules'
  BY DEF KeepsTheRules
<1>. QED BY <1>1, <1>2, CardStart, PTL DEF CardSpec

\* The card's part of StorageIsSound: a read gives the bytes of its block, the
\* handlers that share the bus are held off while the card is selected and
\* let in once it is not, and a sequence that ends without an error is over
\* on the card, too; the sketch keeps the rules above.
THEOREM CardIsSound ==
  KeepsTheRules /\ CardSpec => [](ReadIsBlock /\ BusIsShared /\ StopEndsSequence)
<1>1. CardInv => ReadIsBlock /\ BusIsShared /\ StopEndsSequence
  <2>. SUFFICES ASSUME CardInv PROVE ReadIsBlock /\ BusIsShared /\ StopEndsSequence
    OBVIOUS
  <2>1. BusIsShared
    <3>1. CASE asserted
      <4>1. Masked(spi) /\ interruptMode \in 0 .. 2 /\ asserted = selected
        BY <3>1 DEF CardInv, MaskInv
      <4>2. Uncalled => inBlock \/ sequence
        BY <3>1 DEF CardInv, CallInv, Uncalled
      <4>3. \/ interruptMode = 1 /\ spi.eimsk \cap interruptMask = {}
            \/ interruptMode = 2 /\ ~spi.on
            \/ interruptMode = 0
        BY <4>1 DEF Masked
      <4>. QED BY <3>1, <4>1, <4>2, <4>3 DEF BusIsShared
    <3>2. CASE ~asserted
      BY <3>2 DEF CardInv, MaskInv, Unmasked, BusIsShared
    <3>. QED BY <3>1, <3>2
  <2>2. StopEndsSequence
    BY DEF CardInv, CallInv, StopEndsSequence
  <2>. QED BY <2>1, <2>2 DEF CardInv
<1>. QED BY <1>1, CardInductive, PTL

-----------------------------------------------------------------------------
(* The time base.                                                          *)

\* Remainders.
LEMMA RemainderIs ==
  ASSUME NEW N \in Nat, N > 0, NEW q \in Int, NEW r \in 0 .. N - 1
  PROVE  (N * q + r) % N = r
OBVIOUS

LEMMA RemainderOf ==
  ASSUME NEW N \in Nat, N > 0, NEW x \in Int
  PROVE  /\ (x % N) \in 0 .. N - 1
         /\ \E q \in Int : x = N * q + (x % N)
<1>1. x = N * (x \div N) + (x % N) /\ (x \div N) \in Int /\ (x % N) \in 0 .. N - 1
  OBVIOUS
<1>. QED BY <1>1

LEMMA MultiplesVanish ==
  ASSUME NEW N \in Nat, N > 0, NEW x \in Int, NEW k \in Int
  PROVE  (x + N * k) % N = x % N
<1>. DEFINE r == x % N
<1>1. r \in 0 .. N - 1 /\ \E q \in Int : x = N * q + r
  BY RemainderOf
<1>2. PICK q \in Int : x = N * q + r
  BY <1>1
<1>3. x + N * k = N * (q + k) + r
  <2>. HIDE DEF r
  <2>. QED BY <1>1, <1>2
<1>4. (N * (q + k) + r) % N = r
  <2>. HIDE DEF r
  <2>. QED BY <1>1, RemainderIs
<1>. QED BY <1>3, <1>4

\* A remainder may be taken before an addition or a multiplication.
LEMMA RemainderPlus ==
  ASSUME NEW N \in Nat, N > 0, NEW x \in Int, NEW y \in Int
  PROVE  ((x % N) + y) % N = (x + y) % N
<1>. DEFINE r == x % N
<1>1. r \in 0 .. N - 1 /\ \E q \in Int : x = N * q + r
  BY RemainderOf
<1>2. PICK q \in Int : x = N * q + r
  BY <1>1
<1>3. x + y = (r + y) + N * q
  <2>. HIDE DEF r
  <2>. QED BY <1>1, <1>2
<1>4. ((r + y) + N * q) % N = (r + y) % N
  <2>. HIDE DEF r
  <2>1. r + y \in Int
    BY <1>1
  <2>. QED BY <2>1, MultiplesVanish
<1>. QED BY <1>3, <1>4

LEMMA RemainderTimes ==
  ASSUME NEW N \in Nat, N > 0, NEW x \in Int, NEW c \in Int, NEW y \in Int
  PROVE  (c * (x % N) + y) % N = (c * x + y) % N
<1>. DEFINE r == x % N
<1>1. r \in 0 .. N - 1 /\ \E q \in Int : x = N * q + r
  BY RemainderOf
<1>2. PICK q \in Int : x = N * q + r
  BY <1>1
<1>3. c * x + y = (c * r + y) + N * (c * q)
  <2>. HIDE DEF r
  <2>. QED BY <1>1, <1>2
<1>4. ((c * r + y) + N * (c * q)) % N = (c * r + y) % N
  <2>. HIDE DEF r
  <2>1. c * r + y \in Int /\ c * q \in Int
    BY <1>1
  <2>. QED BY <2>1, MultiplesVanish
<1>. QED BY <1>3, <1>4

\* A moment is a count of overflows and a value of the timer.
Moment(count, value) == count * Top + value

LEMMA MomentIsTick ==
  ASSUME NEW count \in 0 .. Wrap - 1, NEW value \in 0 .. Top - 1
  PROVE  /\ Moment(count, value) \in 0 .. Ticks - 1
         /\ Moment(count, value) % Ticks = Moment(count, value)
<1>. DEFINE turned == count * Top
            above  == (Wrap - 1 - count) * Top
<1>1. Ticks = turned + above + Top
  BY ClockAssumption DEF Ticks
<1>2. turned \in Nat /\ above \in Nat /\ Top \in Nat
  BY ClockAssumption
<1>3. turned + value \in 0 .. Ticks - 1 /\ Ticks \in Nat /\ Ticks > 0
  <2>. HIDE DEF turned, above
  <2>. QED BY <1>1, <1>2
<1>4. \A x \in 0 .. Ticks - 1 : x % Ticks = x
  BY <1>3
<1>. QED BY <1>3, <1>4 DEF Moment

LEMMA NextMoment ==
  ASSUME NEW count \in 0 .. Wrap - 1, NEW value \in 0 .. Top - 1
  PROVE  (Moment(count, value) + 1) % Ticks
           = IF value + 1 < Top THEN Moment(count, value + 1) ELSE Moment((count + 1) % Wrap, 0)
<1>. DEFINE turned == count * Top
<1>w. turned \in Int /\ Top \in Nat /\ Wrap \in Nat /\ Wrap > 0 /\ Top > 3
  BY ClockAssumption
<1>1. CASE value + 1 < Top
  <2>1. value + 1 \in 0 .. Top - 1
    BY <1>1, <1>w
  <2>2. Moment(count, value) + 1 = Moment(count, value + 1)
    <3>1. (turned + value) + 1 = turned + (value + 1)
      <4>. HIDE DEF turned
      <4>. QED BY <1>w
    <3>. QED BY <3>1 DEF Moment
  <2>. QED BY <1>1, <2>1, <2>2, MomentIsTick
<1>2. CASE value + 1 = Top
  <2>1. Moment(count, value) + 1 = (count + 1) * Top
    <3>1. (count + 1) * Top = turned + Top
      BY <1>w
    <3>2. (turned + value) + 1 = turned + Top
      <4>. HIDE DEF turned
      <4>. QED BY <1>w, <1>2
    <3>. QED BY <3>1, <3>2 DEF Moment
  <2>2. CASE count + 1 < Wrap
    <3>1. count + 1 \in 0 .. Wrap - 1 /\ (count + 1) % Wrap = count + 1 /\ 0 \in 0 .. Top - 1
      BY <2>2, <1>w
    <3>2. Moment(count + 1, 0) = (count + 1) * Top
      BY <1>w DEF Moment
    <3>. QED BY <1>2, <2>1, <3>1, <3>2, MomentIsTick
  <2>3. CASE count + 1 = Wrap
    <3>1. (count + 1) % Wrap = 0 /\ Moment(count, value) + 1 = Ticks
      BY <2>1, <2>3, <1>w DEF Ticks
    <3>2. Moment(0, 0) = 0
      BY <1>w DEF Moment
    <3>3. Ticks \in Nat /\ Ticks > 0
      BY <1>w DEF Ticks
    <3>4. Ticks % Ticks = 0
      BY <3>3
    <3>. QED BY <1>2, <3>1, <3>2, <3>4
  <2>. QED BY <2>2, <2>3, <1>w
<1>. QED BY <1>1, <1>2, <1>w

LEMMA RoundTheClock ==
  ASSUME NEW value \in 0 .. Top - 1
  PROVE  (Wrap * Top + value) % Ticks = value
<1>. DEFINE x == value
<1>1. value \in 0 .. Ticks - 1 /\ Ticks \in Nat /\ Ticks > 0
  <2>1. 0 \in 0 .. Wrap - 1 /\ Moment(0, value) = value
    BY ClockAssumption DEF Moment
  <2>2. value \in 0 .. Ticks - 1
    BY <2>1, MomentIsTick
  <2>3. Ticks \in Nat
    BY ClockAssumption DEF Ticks
  <2>. QED BY <2>2, <2>3
<1>2. Wrap * Top + value = value + Ticks * 1
  BY ClockAssumption DEF Ticks
<1>3. (value + Ticks * 1) % Ticks = value % Ticks
  BY <1>1, MultiplesVanish
<1>. QED BY <1>1, <1>2, <1>3

\* The overflows that the handler will have counted.
Counted == IF tov THEN (overflows + 1) % Wrap ELSE overflows

\* The count and the timer are the time, and an overflow that waits is not
\* older than the interrupts are off.
TimerInv ==
  /\ tcnt \in 0 .. Top - 1 /\ tov \in BOOLEAN /\ sei \in BOOLEAN
  /\ overflows \in 0 .. Wrap - 1 /\ offFor \in 0 .. OffMax
  /\ instant = Moment(Counted, tcnt)
  /\ tov /\ ~sei => tcnt <= offFor

\* Halfway through micros(): interrupts are off, the count is the last, and
\* what was read of the timer makes up the moment with the flag.
MicrosInv ==
  /\ clockPc \in { "run", "count", "timer", "answer" } /\ restore \in BOOLEAN
  /\ clockPc \in { "count", "timer" } => ~sei /\ m = overflows
  /\ clockPc = "timer" =>
       /\ t \in 0 .. Top - 1
       /\ sampled = Moment(IF Unserved THEN (overflows + 1) % Wrap ELSE overflows, t)
       /\ instant = sampled => tcnt = t
  /\ MicrosExact

\* The milliseconds and their fraction.
MillisInv ==
  /\ millis \in Nat /\ fract \in 0 .. FRACT_MAX - 1
  /\ MillisExact

ClockInv == TimerInv /\ MicrosInv /\ MillisInv

LEMMA CountedInRange ==
  ASSUME TimerInv
  PROVE  /\ Counted \in 0 .. Wrap - 1
         /\ (overflows + 1) % Wrap \in 0 .. Wrap - 1
         /\ Top \in Nat /\ Top > 3 /\ OffMax \in 0 .. Top - 3 /\ Wrap \in Nat /\ Wrap > 0
<1>1. Wrap \in Nat /\ Wrap > 0 /\ overflows \in 0 .. Wrap - 1
  BY ClockAssumption DEF TimerInv
<1>2. (overflows + 1) % Wrap \in 0 .. Wrap - 1
  BY <1>1
<1>. QED BY <1>1, <1>2, ClockAssumption DEF Counted

LEMMA ClockStart == ClockInit => ClockInv
<1>. SUFFICES ASSUME ClockInit PROVE ClockInv
  OBVIOUS
<1>1. TimerInv
  <2>1. Moment(0, 0) = 0 /\ 0 \in 0 .. Top - 1 /\ 0 \in 0 .. Wrap - 1 /\ 0 \in 0 .. OffMax
    BY ClockAssumption DEF Moment
  <2>2. Counted = 0 /\ tcnt = 0 /\ ~tov /\ tov \in BOOLEAN /\ sei \in BOOLEAN
    BY DEF ClockInit, Counted
  <2>. QED BY <2>1, <2>2 DEF ClockInit, TimerInv
<1>2. MicrosInv
  BY DEF ClockInit, MicrosInv, MicrosExact
<1>3. MillisInv
  <2>1. FRACT_MAX * 0 + 0 = 0 /\ (FRACT_MAX * MILLIS_INC + FRACT_INC) * 0 = 0
    BY ClockAssumption
  <2>. QED BY <2>1, ClockAssumption DEF ClockInit, MillisInv, MillisExact
<1>. QED BY <1>1, <1>2, <1>3 DEF ClockInv

\* A tick of the timer, the only step of time.
LEMMA TickKeepsTime == ASSUME TimerInv, TimerTick PROVE TimerInv'
<1>1. /\ tcnt \in 0 .. Top - 1 /\ tov \in BOOLEAN /\ sei \in BOOLEAN
      /\ overflows \in 0 .. Wrap - 1 /\ offFor \in 0 .. OffMax
      /\ instant = Moment(Counted, tcnt) /\ (tov /\ ~sei => tcnt <= offFor)
  BY DEF TimerInv
<1>2. /\ sei => ~tov
      /\ ~sei => offFor < OffMax
      /\ tcnt' = (tcnt + 1) % Top
      /\ instant' = (instant + 1) % Ticks
      /\ offFor' = IF sei THEN 0 ELSE offFor + 1
      /\ overflows' = overflows /\ sei' = sei
  BY DEF TimerTick, timer0
<1>3. tov' = (tov \/ tcnt' = 0)
  BY DEF TimerTick
<1>4. tov' \in BOOLEAN /\ offFor' \in 0 .. OffMax
  BY <1>1, <1>2, <1>3, CountedInRange
<1>5. instant' = IF tcnt + 1 < Top THEN Moment(Counted, tcnt + 1) ELSE Moment((Counted + 1) % Wrap, 0)
  BY <1>1, <1>2, CountedInRange, NextMoment
<1>6. tov => tcnt + 1 < Top
  BY <1>1, <1>2, CountedInRange
<1>7. CASE tcnt + 1 < Top
  <2>1. tcnt' = tcnt + 1 /\ tcnt' # 0
    BY <1>1, <1>2, <1>7, CountedInRange
  <2>2. tov' = tov /\ Counted' = Counted
    <3>1. tov' = tov
      BY <1>1, <1>3, <2>1, Zenon
    <3>. QED BY <1>2, <3>1 DEF Counted
  <2>3. instant' = Moment(Counted, tcnt)'
    BY <1>5, <1>7, <2>1, <2>2 DEF Moment
  <2>4. (tov /\ ~sei => tcnt <= offFor)'
    BY <1>1, <1>2, <2>1, <2>2, CountedInRange
  <2>5. tcnt' \in 0 .. Top - 1
    BY <1>1, <1>7, <2>1, CountedInRange
  <2>. QED BY <1>1, <1>2, <1>4, <2>3, <2>4, <2>5 DEF TimerInv
<1>8. CASE tcnt + 1 = Top
  <2>1. tcnt' = 0 /\ ~tov
    BY <1>1, <1>2, <1>6, <1>8, CountedInRange
  <2>2. tov' /\ Counted' = (overflows + 1) % Wrap /\ Counted = overflows
    BY <1>2, <1>3, <2>1 DEF Counted
  <2>3. instant' = Moment(Counted, tcnt)'
    BY <1>5, <1>8, <1>1, CountedInRange, <2>1, <2>2 DEF Moment
  <2>4. (tov /\ ~sei => tcnt <= offFor)'
    BY <1>4, <2>1
  <2>. QED BY <1>1, <1>2, <1>4, <2>1, <2>3, <2>4, CountedInRange DEF TimerInv
<1>. QED BY <1>1, <1>7, <1>8, CountedInRange

\* No time between the reads of micros() that the flag does not tell.
LEMMA TickKeepsMicros == ASSUME TimerInv, MicrosInv, TimerTick PROVE MicrosInv'
<1>1. /\ UNCHANGED << clockPc, m, t, restore, sampled, answer, overflows, sei >>
      /\ instant' = (instant + 1) % Ticks /\ tcnt' = (tcnt + 1) % Top
      /\ clockPc = "run" \/ instant = sampled
  BY DEF TimerTick, timer0, microsVars
<1>2. tov' = (tov \/ tcnt' = 0)
  BY DEF TimerTick
<1>3. CASE clockPc # "timer"
  BY <1>1, <1>3 DEF MicrosInv, MicrosExact
<1>4. CASE clockPc = "timer"
  <2>1. /\ t \in 0 .. Top - 1 /\ tcnt = t /\ ~sei /\ m = overflows /\ instant = sampled
        /\ sampled = Moment(IF Unserved THEN (overflows + 1) % Wrap ELSE overflows, t)
    BY <1>1, <1>4 DEF MicrosInv
  <2>2. tcnt' = IF t + 1 < Top THEN t + 1 ELSE 0
    BY <1>1, <2>1, CountedInRange
  <2>3. Unserved' = Unserved
    BY <1>1, <1>2, <2>1, <2>2, CountedInRange DEF Unserved, TimerInv
  <2>4. instant' # sampled'
    <3>1. instant \in 0 .. Ticks - 1 /\ Ticks \in Nat /\ Ticks > 3
      <4>1. instant \in 0 .. Ticks - 1
        BY CountedInRange, MomentIsTick DEF TimerInv
      <4>2. Ticks \in Nat
        BY CountedInRange DEF Ticks
      <4>3. Moment(0, 3) = 3 /\ 0 \in 0 .. Wrap - 1 /\ 3 \in 0 .. Top - 1
        BY CountedInRange DEF Moment
      <4>4. 3 \in 0 .. Ticks - 1
        BY <4>3, MomentIsTick
      <4>. QED BY <4>1, <4>2, <4>4
    <3>2. (instant + 1) % Ticks # instant
      BY <3>1
    <3>. QED BY <1>1, <2>1, <3>2
  <2>5. (IF Unserved THEN (overflows + 1) % Wrap ELSE overflows)' = IF Unserved THEN (overflows + 1) % Wrap ELSE overflows
    BY <1>1, <2>3
  <2>6. sampled' = Moment(IF Unserved THEN (overflows + 1) % Wrap ELSE overflows, t)'
    BY <1>1, <2>1, <2>5 DEF Moment
  <2>. QED BY <1>1, <1>4, <2>1, <2>4, <2>6 DEF MicrosInv, MicrosExact
<1>. QED BY <1>3, <1>4

\* The other steps.
LEMMA OverflowIsCounted == ASSUME TimerInv, MicrosInv, Overflow PROVE TimerInv' /\ MicrosInv'
<1>1. /\ sei /\ tov /\ tov' = FALSE /\ overflows' = (overflows + 1) % Wrap
      /\ UNCHANGED << tcnt, sei, offFor, clockPc, m, t, restore, answer, sampled, instant >>
  BY DEF Overflow, microsVars
<1>2. Counted' = Counted
  BY <1>1 DEF Counted
<1>3. TimerInv'
  BY <1>1, <1>2, CountedInRange DEF TimerInv, Moment
<1>4. MicrosInv'
  BY <1>1 DEF MicrosInv, MicrosExact
<1>. QED BY <1>3, <1>4

LEMMA InterruptsKeepTime ==
  ASSUME TimerInv, MicrosInv, NEW on \in BOOLEAN, Interrupts(on) PROVE TimerInv' /\ MicrosInv'
<1>1. /\ clockPc = "run" /\ (sei /\ tov => tcnt = 0) /\ sei = ~on /\ sei' = on /\ offFor' = 0
      /\ UNCHANGED << tcnt, tov, overflows, clockPc, m, t, restore, answer, sampled, instant >>
  BY DEF Interrupts, MayTurnOff, timer0, microsVars
<1>2. (tov /\ ~sei => tcnt <= offFor)'
  <2>1. tov' /\ ~sei' => sei /\ tov
    BY <1>1, Zenon
  <2>. SUFFICES ASSUME tov', ~sei' PROVE tcnt' <= offFor'
    OBVIOUS
  <2>2. tcnt' = 0 /\ offFor' = 0
    BY <1>1, <2>1
  <2>. QED BY <2>2
<1>3. Counted' = Counted /\ instant' = Moment(Counted, tcnt)'
  BY <1>1 DEF Counted, TimerInv, Moment
<1>4. offFor' \in 0 .. OffMax /\ sei' \in BOOLEAN
  BY <1>1, CountedInRange
<1>5. TimerInv'
  BY <1>1, <1>2, <1>3, <1>4 DEF TimerInv
<1>6. MicrosInv'
  BY <1>1 DEF MicrosInv, MicrosExact
<1>. QED BY <1>5, <1>6

LEMMA ReadsKeepTime == ASSUME TimerInv, MicrosInv, Micros PROVE TimerInv' /\ MicrosInv'
<1>1. CASE ReadCount
  <2>1. /\ (sei /\ tov => tcnt = 0) /\ sei' = FALSE /\ m' = overflows /\ sampled' = instant
        /\ clockPc' = "count" /\ restore' = sei /\ offFor' = (IF sei THEN 0 ELSE offFor)
        /\ UNCHANGED << tcnt, tov, overflows, instant >>
    BY <1>1 DEF ReadCount, MayTurnOff, timer0
  <2>2. Counted' = Counted /\ instant' = Moment(Counted, tcnt)'
    BY <2>1 DEF Counted, TimerInv, Moment
  <2>3. offFor' \in 0 .. OffMax /\ (tov /\ ~sei => tcnt <= offFor)'
    BY <2>1, CountedInRange DEF TimerInv
  <2>4. TimerInv'
    BY <2>1, <2>2, <2>3 DEF TimerInv
  <2>5. MicrosInv'
    BY <2>1 DEF MicrosInv, MicrosExact, TimerInv
  <2>. QED BY <2>4, <2>5
<1>2. CASE ReadTimer
  <2>1. /\ clockPc = "count" /\ clockPc' = "timer" /\ t' = tcnt /\ sampled' = instant
        /\ UNCHANGED << tcnt, tov, overflows, sei, offFor, m, restore, instant >>
    BY <1>2 DEF ReadTimer, timer0
  <2>2. Counted' = Counted /\ TimerInv'
    BY <2>1 DEF Counted, TimerInv, Moment
  <2>3. ~sei /\ m = overflows
    BY <2>1 DEF MicrosInv
  <2>4. tov => tcnt < Top - 1
    BY <2>3, CountedInRange DEF TimerInv
  <2>5. Unserved' <=> tov
    BY <2>1, <2>4 DEF Unserved
  <2>6. (IF Unserved THEN (overflows + 1) % Wrap ELSE overflows)' = Counted
    BY <2>1, <2>5 DEF Counted
  <2>7. sampled' = Moment(IF Unserved THEN (overflows + 1) % Wrap ELSE overflows, t)'
    BY <2>1, <2>6 DEF TimerInv, Moment
  <2>8. t' \in 0 .. Top - 1
    BY <2>1 DEF TimerInv
  <2>. QED BY <2>1, <2>2, <2>3, <2>7, <2>8 DEF MicrosInv, MicrosExact
<1>3. CASE ReadFlag
  <2>1. /\ clockPc = "timer" /\ clockPc' = "answer" /\ sei' = restore
        /\ answer' = ((IF Unserved THEN m + 1 ELSE m) * Top + t) % Ticks
        /\ UNCHANGED << tcnt, tov, overflows, offFor, m, t, restore, sampled, instant >>
    BY <1>3 DEF ReadFlag, timer0
  <2>2. /\ ~sei /\ m = overflows /\ t \in 0 .. Top - 1
        /\ sampled = Moment(IF Unserved THEN (overflows + 1) % Wrap ELSE overflows, t)
    BY <2>1 DEF MicrosInv
  <2>3. overflows \in 0 .. Wrap - 1
    BY DEF TimerInv
  <2>7. answer' = sampled
    <3>1. CASE ~Unserved
      <4>1. answer' = Moment(overflows, t) % Ticks /\ sampled = Moment(overflows, t)
        BY <2>1, <2>2, <3>1 DEF Moment
      <4>. QED BY <2>2, <2>3, <4>1, MomentIsTick
    <3>2. CASE Unserved /\ overflows + 1 < Wrap
      <4>1. overflows + 1 \in 0 .. Wrap - 1 /\ (overflows + 1) % Wrap = overflows + 1
        BY <2>3, <3>2, CountedInRange
      <4>2. answer' = Moment(overflows + 1, t) % Ticks /\ sampled = Moment(overflows + 1, t)
        BY <2>1, <2>2, <3>2, <4>1 DEF Moment
      <4>. QED BY <2>2, <4>1, <4>2, MomentIsTick
    <3>3. CASE Unserved /\ overflows + 1 = Wrap
      <4>1. (overflows + 1) % Wrap = 0 /\ Moment(0, t) = t
        BY <2>2, <3>3, CountedInRange DEF Moment
      <4>2. answer' = (Wrap * Top + t) % Ticks /\ sampled = t
        BY <2>1, <2>2, <3>3, <4>1
      <4>. QED BY <2>2, <4>2, RoundTheClock
    <3>4. overflows + 1 < Wrap \/ overflows + 1 = Wrap
      BY <2>3, CountedInRange
    <3>. QED BY <3>1, <3>2, <3>3, <3>4
  <2>8. TimerInv'
    <3>1. Counted' = Counted /\ instant' = Moment(Counted, tcnt)'
      BY <2>1 DEF Counted, TimerInv, Moment
    <3>2. (tov /\ ~sei => tcnt <= offFor)'
      BY <2>1, <2>2 DEF TimerInv
    <3>3. sei' \in BOOLEAN
      BY <2>1 DEF MicrosInv
    <3>. QED BY <2>1, <3>1, <3>2, <3>3 DEF TimerInv
  <2>. QED BY <2>1, <2>7, <2>8 DEF MicrosInv, MicrosExact
<1>. QED BY <1>1, <1>2, <1>3 DEF Micros

\* The steps that leave the time alone.
LEMMA RestKeepsTime ==
  ASSUME TimerInv, MicrosInv,
         Resume \/ (\E n \in Delays : Delay(n)) \/ DelayCounts \/ DelayReturns \/ UNCHANGED clockVars
  PROVE  TimerInv' /\ MicrosInv'
<1>1. UNCHANGED << tcnt, tov, overflows, sei, offFor, instant >>
  BY DEF Resume, Delay, DelayCounts, DelayReturns, clockVars, timer0
<1>2. \/ clockPc' = "run" /\ restore' = TRUE
      \/ UNCHANGED << clockPc, m, t, restore, answer, sampled >>
  BY DEF Resume, Delay, DelayCounts, DelayReturns, Called, clockVars, microsVars
<1>3. TimerInv'
  BY <1>1 DEF TimerInv, Counted, Moment
<1>4. MicrosInv'
  BY <1>1, <1>2 DEF MicrosInv, MicrosExact, Unserved, Moment
<1>. QED BY <1>3, <1>4

\* The handler adds the same to both sides of the account of milliseconds.
LEMMA OverflowKeepsMillis == ASSUME TimerInv, MillisInv, Overflow PROVE MillisInv'
<1>. DEFINE K == FRACT_MAX * MILLIS_INC + FRACT_INC
            more == IF fract + FRACT_INC >= FRACT_MAX THEN MILLIS_INC + 1 ELSE MILLIS_INC
            shown == FRACT_MAX * millis + fract
<1>t. /\ Wrap \in Nat /\ Wrap > 0 /\ FRACT_MAX \in Nat /\ MILLIS_INC \in Nat /\ FRACT_INC \in Nat
      /\ FRACT_INC < FRACT_MAX /\ overflows \in Nat /\ millis \in Nat /\ fract \in 0 .. FRACT_MAX - 1
  BY ClockAssumption DEF TimerInv, MillisInv
<1>1. /\ overflows' = (overflows + 1) % Wrap
      /\ millis' = (millis + more) % Wrap
      /\ fract' = IF fract + FRACT_INC >= FRACT_MAX THEN fract + FRACT_INC - FRACT_MAX
                                                    ELSE fract + FRACT_INC
  BY <1>t DEF Overflow
<1>2. more \in Nat /\ fract' \in 0 .. FRACT_MAX - 1 /\ millis' \in Nat
  <2>1. more \in Nat /\ fract' \in 0 .. FRACT_MAX - 1
    BY <1>t, <1>1
  <2>2. millis + more \in Nat
    BY <1>t, <2>1
  <2>3. (millis + more) % Wrap \in Nat
    <3>. HIDE DEF more
    <3>. QED BY <1>t, <2>2
  <2>. QED BY <1>1, <2>1, <2>3
<1>3. FRACT_MAX * (millis + more) + fract' = shown + K
  <2>1. CASE fract + FRACT_INC >= FRACT_MAX
    <3>1. more = MILLIS_INC + 1 /\ fract' = fract + FRACT_INC - FRACT_MAX
      BY <1>1, <2>1
    <3>. QED BY <1>t, <3>1
  <2>2. CASE ~(fract + FRACT_INC >= FRACT_MAX)
    <3>1. more = MILLIS_INC /\ fract' = fract + FRACT_INC
      BY <1>1, <2>2
    <3>. QED BY <1>t, <3>1
  <2>. QED BY <2>1, <2>2
<1>4. K \in Int /\ shown \in Int
  BY <1>t
<1>5. shown % Wrap = (K * overflows) % Wrap
  BY DEF MillisInv, MillisExact
<1>6. (FRACT_MAX * millis' + fract') % Wrap = (shown + K) % Wrap
  <2>. HIDE DEF more, K, shown
  <2>1. (FRACT_MAX * ((millis + more) % Wrap) + fract') % Wrap = (FRACT_MAX * (millis + more) + fract') % Wrap
    <3>. DEFINE a == millis + more
                b == fract'
    <3>1. a \in Int /\ b \in Int /\ FRACT_MAX \in Int
      BY <1>t, <1>2
    <3>2. (FRACT_MAX * (a % Wrap) + b) % Wrap = (FRACT_MAX * a + b) % Wrap
      <4>. HIDE DEF a, b
      <4>. QED BY <1>t, <3>1, RemainderTimes
    <3>. QED BY <3>2
  <2>. QED BY <1>1, <1>3, <2>1
<1>7. (shown + K) % Wrap = (K * overflows + K) % Wrap
  <2>. HIDE DEF K, shown
  <2>1. K * overflows \in Int
    BY <1>4, <1>t
  <2>2. ((shown % Wrap) + K) % Wrap = (shown + K) % Wrap
    BY <1>t, <1>4, RemainderPlus
  <2>3. (((K * overflows) % Wrap) + K) % Wrap = (K * overflows + K) % Wrap
    BY <1>t, <1>4, <2>1, RemainderPlus
  <2>. QED BY <1>5, <2>2, <2>3
<1>8. (K * overflows') % Wrap = (K * overflows + K) % Wrap
  <2>. HIDE DEF K
  <2>1. overflows + 1 \in Int /\ 0 \in Int
    BY <1>t
  <2>2. (K * ((overflows + 1) % Wrap) + 0) % Wrap = (K * (overflows + 1) + 0) % Wrap
    BY ZenonT(40), <1>t, <1>4, <2>1, RemainderTimes
  <2>3. K * (overflows + 1) + 0 = K * overflows + K
    BY <1>4, <1>t
  <2>4. K * ((overflows + 1) % Wrap) + 0 = K * ((overflows + 1) % Wrap)
    <3>1. (overflows + 1) % Wrap \in Int
      BY <1>t
    <3>. QED BY <1>4, <3>1
  <2>. QED BY <1>1, <2>2, <2>3, <2>4
<1>9. (FRACT_MAX * millis' + fract') % Wrap = (K * overflows') % Wrap
  BY <1>6, <1>7, <1>8
<1>. QED BY <1>2, <1>9 DEF MillisInv, MillisExact

LEMMA RestKeepsMillis == ASSUME MillisInv, UNCHANGED << overflows, millis, fract >> PROVE MillisInv'
BY DEF MillisInv, MillisExact

LEMMA ClockStep == ASSUME ClockInv, [ClockNext]_clockVars PROVE ClockInv'
<1>. USE DEF ClockInv
<1>1. CASE TimerTick
  <2>1. UNCHANGED << overflows, millis, fract >>
    BY <1>1 DEF TimerTick, timer0
  <2>. QED BY <1>1, <2>1, TickKeepsTime, TickKeepsMicros, RestKeepsMillis
<1>2. CASE Overflow
  BY <1>2, OverflowIsCounted, OverflowKeepsMillis
<1>3. ASSUME NEW on \in BOOLEAN, Interrupts(on) PROVE ClockInv'
  <2>1. UNCHANGED << overflows, millis, fract >>
    BY <1>3 DEF Interrupts, timer0
  <2>. QED BY <1>3, <2>1, InterruptsKeepTime, RestKeepsMillis
<1>4. CASE Micros
  <2>1. UNCHANGED << overflows, millis, fract >>
    BY <1>4 DEF Micros, ReadCount, ReadTimer, ReadFlag, timer0
  <2>. QED BY <1>4, <2>1, ReadsKeepTime, RestKeepsMillis
<1>5. CASE Resume \/ (\E n \in Delays : Delay(n)) \/ DelayCounts \/ DelayReturns \/ UNCHANGED clockVars
  <2>1. UNCHANGED << overflows, millis, fract >>
    BY <1>5 DEF Resume, Delay, DelayCounts, DelayReturns, clockVars, timer0
  <2>. QED BY <1>5, <2>1, RestKeepsTime, RestKeepsMillis
<1>. QED BY <1>1, <1>2, <1>3, <1>4, <1>5 DEF ClockNext

LEMMA FitsWord == \A x \in Nat : x <= 65535 => Uint(x) = x
BY DEF Uint

LEMMA LoopsAreShort == LoopsAreBounded
<1>. SUFFICES ASSUME NEW us \in 0 .. LongestLoop PROVE LoopIsBounded(us)
  BY DEF LoopsAreBounded
<1>u. us \in Nat /\ us <= 10922
  <2>1. LongestLoop = 10922
    BY DEF LongestLoop
  <2>2. us \in Nat /\ us <= LongestLoop
    BY <2>1, us \in 0 .. LongestLoop
  <2>. QED BY <2>1, <2>2
<1>1. us * 24 - 4 * Turns(24, us) \in 0 .. 28
  <2>1. Turns(24, us) = IF us = 0 THEN 0 ELSE Uint(Uint(us * 6) - 5)
    BY DEF Turns
  <2>2. CASE us = 0
    BY <1>u, <2>1, <2>2
  <2>3. CASE ~(us = 0)
    <3>1. us * 6 \in Nat /\ us * 6 <= 65535 /\ us * 6 - 5 \in Nat /\ us * 6 - 5 <= 65535
      BY <1>u, <2>3
    <3>2. Turns(24, us) = us * 6 - 5
      BY <2>1, <2>3, <3>1, FitsWord
    <3>. QED BY <1>u, <2>3, <3>2
  <2>. QED BY <2>2, <2>3
<1>2. us * 20 - 4 * Turns(20, us) \in 0 .. 28
  <2>1. Turns(20, us) = IF us <= 1 THEN 0 ELSE Uint(Uint(us * 5) - 7)
    BY DEF Turns
  <2>2. CASE us <= 1
    BY <1>u, <2>1, <2>2
  <2>3. CASE ~(us <= 1)
    <3>1. us * 5 \in Nat /\ us * 5 <= 65535 /\ us * 5 - 7 \in Nat /\ us * 5 - 7 <= 65535
      BY <1>u, <2>3
    <3>2. Turns(20, us) = us * 5 - 7
      BY <2>1, <2>3, <3>1, FitsWord
    <3>. QED BY <1>u, <2>3, <3>2
  <2>. QED BY <2>2, <2>3
<1>3. us * 16 - 4 * Turns(16, us) \in 0 .. 28
  <2>1. Turns(16, us) = IF us <= 1 THEN 0 ELSE Uint(Uint(us * 4) - 5)
    BY DEF Turns
  <2>2. CASE us <= 1
    BY <1>u, <2>1, <2>2
  <2>3. CASE ~(us <= 1)
    <3>1. us * 4 \in Nat /\ us * 4 <= 65535 /\ us * 4 - 5 \in Nat /\ us * 4 - 5 <= 65535
      BY <1>u, <2>3
    <3>2. Turns(16, us) = us * 4 - 5
      BY <2>1, <2>3, <3>1, FitsWord
    <3>. QED BY <1>u, <2>3, <3>2
  <2>. QED BY <2>2, <2>3
<1>4. us * 12 - 4 * Turns(12, us) \in 0 .. 28
  <2>1. Turns(12, us) = IF us <= 1 THEN 0 ELSE Uint(Uint(us * 3) - 5)
    BY DEF Turns
  <2>2. CASE us <= 1
    BY <1>u, <2>1, <2>2
  <2>3. CASE ~(us <= 1)
    <3>1. us * 3 \in Nat /\ us * 3 <= 65535 /\ us * 3 - 5 \in Nat /\ us * 3 - 5 <= 65535
      BY <1>u, <2>3
    <3>2. Turns(12, us) = us * 3 - 5
      BY <2>1, <2>3, <3>1, FitsWord
    <3>. QED BY <1>u, <2>3, <3>2
  <2>. QED BY <2>2, <2>3
<1>5. us * 8 - 4 * Turns(8, us) \in 0 .. 28
  <2>1. Turns(8, us) = IF us <= 2 THEN 0 ELSE Uint(Uint(us * 2) - 4)
    BY DEF Turns
  <2>2. CASE us <= 2
    BY <1>u, <2>1, <2>2
  <2>3. CASE ~(us <= 2)
    <3>1. us * 2 \in Nat /\ us * 2 <= 65535 /\ us * 2 - 4 \in Nat /\ us * 2 - 4 <= 65535
      BY <1>u, <2>3
    <3>2. Turns(8, us) = us * 2 - 4
      BY <2>1, <2>3, <3>1, FitsWord
    <3>. QED BY <1>u, <2>3, <3>2
  <2>. QED BY <2>2, <2>3
<1>6. us * 1 - 4 * Turns(1, us) \in 0 .. 28
  <2>1. Turns(1, us) = IF us <= 25 THEN 0 ELSE Uint(us - 22) \div 4
    BY DEF Turns
  <2>2. CASE us <= 25
    BY <1>u, <2>1, <2>2
  <2>3. CASE ~(us <= 25)
    <3>1. us - 22 \in Nat /\ us - 22 <= 65535
      BY <1>u, <2>3
    <3>2. Turns(1, us) = (us - 22) \div 4
      BY <2>1, <2>3, <3>1, FitsWord
    <3>. QED BY <1>u, <2>3, <3>2
  <2>. QED BY <2>2, <2>3
<1>7. ASSUME us > 0
      PROVE  /\ us * 20 - 4 * TurnsMighty(20, us) \in 0 .. 28
             /\ us * 16 - 4 * TurnsMighty(16, us) \in 0 .. 28
             /\ us * 8 - 4 * TurnsMighty(8, us) \in 0 .. 28
  <2>1. /\ TurnsMighty(20, us) = IF Uint(us - 1) = 0 THEN 0 ELSE Uint(Uint(Uint(us - 1) * 5) - 2)
        /\ TurnsMighty(16, us) = IF Uint(us - 1) = 0 THEN 0 ELSE Uint(Uint(Uint(us - 1) * 4) - 2)
        /\ TurnsMighty(8, us) = IF Uint(us - 1) \in { 0, 1 } THEN 0
                                ELSE Uint(Uint((Uint(us - 1) - 1) * 2) - 1)
    BY DEF TurnsMighty
  <2>2. PICK n \in Nat : n <= 10921 /\ us = n + 1 /\ Uint(us - 1) = n
    BY <1>u, <1>7, FitsWord
  <2>3. CASE n = 0
    BY <2>1, <2>2, <2>3
  <2>4. CASE n # 0
    <3>1. n * 5 \in Nat /\ n * 5 <= 65535 /\ n * 5 - 2 \in Nat /\ n * 5 - 2 <= 65535 /\ n * 4 \in Nat /\ n * 4 <= 65535 /\ n * 4 - 2 \in Nat /\ n * 4 - 2 <= 65535
      BY <2>2, <2>4
    <3>2. Uint(Uint(n * 5) - 2) = n * 5 - 2 /\ Uint(Uint(n * 4) - 2) = n * 4 - 2
      BY <3>1, FitsWord
    <3>3. TurnsMighty(20, us) = n * 5 - 2 /\ TurnsMighty(16, us) = n * 4 - 2
      BY <2>1, <2>2, <2>4, <3>2
    <3>4. us * 20 - 4 * TurnsMighty(20, us) \in 0 .. 28 /\ us * 16 - 4 * TurnsMighty(16, us) \in 0 .. 28
      BY <2>2, <2>4, <3>3
    <3>5. CASE n = 1
      BY <2>1, <2>2, <3>4, <3>5
    <3>6. CASE n # 1
      <4>1. (n - 1) * 2 \in Nat /\ (n - 1) * 2 <= 65535 /\ (n - 1) * 2 - 1 \in Nat /\ (n - 1) * 2 - 1 <= 65535
        BY <2>2, <2>4, <3>6
      <4>2. Uint(Uint((n - 1) * 2) - 1) = (n - 1) * 2 - 1
        BY <4>1, FitsWord
      <4>3. TurnsMighty(8, us) = (n - 1) * 2 - 1
        BY <2>1, <2>2, <2>4, <3>6, <4>2
      <4>. QED BY <2>2, <2>4, <3>4, <3>6, <4>3
    <3>. QED BY <3>5, <3>6
  <2>. QED BY <2>3, <2>4
<1>8. \A mhz \in { 24, 20, 16, 12, 8, 1 } : us * mhz - 4 * Turns(mhz, us) \in 0 .. 28
  BY <1>1, <1>2, <1>3, <1>4, <1>5, <1>6
<1>9. us > 0 => \A mhz \in { 20, 16, 8 } : us * mhz - 4 * TurnsMighty(mhz, us) \in 0 .. 28
  BY <1>7
<1>. QED BY <1>8, <1>9 DEF LoopIsBounded

(* Time is kept, for every size of the timer and of the counters, every    *)
(* clock speed and however long interrupts may stay off within a turn of   *)
(* the timer: micros() answers with the moment of its call across an       *)
(* overflow and across the wrap of the counter, millis() does not drift,   *)
(* and no loop of delayMicroseconds() turns longer than it was asked to    *)
(* (wiring.c:45-103, :127-230).                                            *)
THEOREM TimeKeeps == ClockSpec => []TimeIsKept
<1>1. ClockInv => TimeIsKept
  BY LoopsAreShort DEF ClockInv, MicrosInv, MillisInv, TimeIsKept
<1>. QED BY <1>1, ClockStart, ClockStep, PTL DEF ClockSpec

\* delay(): while something is owed, what has passed of it is the time since
\* `start`, give or take turns of the clock, and no less than nothing was
\* passed when micros() looked.
Lasted == left * Milli - owed

DelayInv ==
  /\ left \in Int /\ left >= -1 /\ owed \in Nat /\ start \in 0 .. Ticks - 1
  /\ clockPc # "run" =>
       /\ left # 0 /\ sampled \in 0 .. Ticks - 1
       /\ instant \in { sampled, (sampled + 1) % Ticks }
  /\ left >= 0 /\ owed > 0 =>
       /\ \E turns \in Int : Lasted = instant - start + Ticks * turns
       /\ Lasted >= IF clockPc = "run" \/ instant = sampled THEN 0 ELSE 1

LEMMA TicksArePositive ==
  /\ Ticks \in Nat /\ Ticks > Milli + YieldMax /\ Ticks > 3
  /\ Milli \in Nat /\ Milli > 0 /\ YieldMax \in Nat /\ OffMax \in Nat
<1>1. /\ Top \in Nat /\ Top > 3 /\ Wrap \in Nat /\ Wrap > 0 /\ Milli \in Nat /\ Milli > 0
      /\ YieldMax \in Nat /\ OffMax \in Nat /\ Wrap * Top > Milli + YieldMax + OffMax
  BY ClockAssumption
<1>2. Wrap * Top \in Nat /\ Wrap * Top >= Top
  BY <1>1
<1>3. Ticks = Wrap * Top
  BY DEF Ticks
<1>. QED
  <2>. HIDE DEF Ticks
  <2>. QED BY <1>1, <1>2, <1>3

\* The clock is in its range.
LEMMA TrueIsTick == TimerInv => instant \in 0 .. Ticks - 1
BY CountedInRange, MomentIsTick DEF TimerInv

\* A remainder that is not less than nothing is not more than the whole.
LEMMA AtLeastTheRest ==
  ASSUME NEW N \in Nat, N > 0, NEW r \in 0 .. N - 1, NEW k \in Int, r + N * k >= 0
  PROVE  r + N * k >= r
<1>1. k >= 0
  <2>. SUFFICES ASSUME k <= -1 PROVE FALSE
    OBVIOUS
  <2>1. N * k <= -N
    OBVIOUS
  <2>. DEFINE p == N * k
  <2>2. p \in Int
    OBVIOUS
  <2>. HIDE DEF p
  <2>. QED BY <2>1, <2>2 DEF p
<1>2. N * k >= 0
  BY <1>1
<1>. DEFINE p == N * k
<1>3. p \in Int /\ p >= 0
  BY <1>2
<1>. HIDE DEF p
<1>. QED BY <1>3 DEF p

LEMMA DelayStart == ClockInit => DelayInv
BY TicksArePositive DEF ClockInit, DelayInv

LEMMA TickKeepsDelay == ASSUME TimerInv, DelayInv, TimerTick PROVE DelayInv'
<1>1. /\ UNCHANGED << left, start, clockPc, sampled >>
      /\ instant' = (instant + 1) % Ticks
      /\ owed' = IF owed > 0 THEN owed - 1 ELSE 0
      /\ clockPc = "run" \/ instant = sampled
  BY DEF TimerTick, microsVars
<1>t. left \in Int /\ left >= -1 /\ owed \in Nat /\ start \in 0 .. Ticks - 1
  BY DEF DelayInv
<1>o. owed' = (IF owed > 0 THEN owed - 1 ELSE 0) /\ left' = left
  BY DEF TimerTick
<1>n. owed' \in Nat
  BY <1>o, <1>t
<1>2. left \in Int /\ start \in 0 .. Ticks - 1 /\ instant \in 0 .. Ticks - 1
  BY <1>t, TrueIsTick
<1>p. left * Milli \in Int
  BY <1>t, TicksArePositive
<1>3. ASSUME clockPc' # "run"
      PROVE  left' # 0 /\ sampled' \in 0 .. Ticks - 1 /\ instant' \in { sampled', (sampled' + 1) % Ticks }
  BY <1>1, <1>3 DEF DelayInv
<1>4. ASSUME left' >= 0, owed' > 0
      PROVE  /\ \E turns \in Int : Lasted' = instant' - start' + Ticks * turns
             /\ Lasted' >= IF clockPc' = "run" \/ instant' = sampled' THEN 0 ELSE 1
  <2>1. left >= 0 /\ owed > 0 /\ owed' = owed - 1
    BY <1>o, <1>t, <1>4
  <2>2. PICK turns \in Int : Lasted = instant - start + Ticks * turns
    BY <2>1 DEF DelayInv
  <2>3. Lasted >= 0
    <3>1. Lasted >= IF clockPc = "run" \/ instant = sampled THEN 0 ELSE 1
      BY <2>1 DEF DelayInv
    <3>2. Lasted \in Int
      BY <1>t, <1>p DEF Lasted
    <3>. QED BY <3>1, <3>2
  <2>4. Lasted' = Lasted + 1 /\ Lasted \in Int
    <3>. DEFINE p == left * Milli
    <3>1. p \in Int /\ p' = p
      BY <1>1, <1>p
    <3>2. p' - owed' = (p - owed) + 1 /\ p - owed \in Int
      <4>. HIDE DEF p
      <4>. QED BY <1>t, <2>1, <3>1
    <3>. QED BY <3>2 DEF p, Lasted
  <2>5. instant' = instant + 1 \/ instant' = (instant + 1) - Ticks
    BY <1>1, <1>2, TicksArePositive
  <2>. DEFINE round == IF instant' = instant + 1 THEN turns ELSE turns + 1
  <2>6. Ticks * (turns + 1) = Ticks * turns + Ticks /\ Ticks * turns \in Int
    BY TicksArePositive
  <2>7. Lasted' = instant' - start' + Ticks * round
    <3>. DEFINE p == Ticks * turns
    <3>1. CASE instant' = instant + 1
      BY <1>1, <1>2, <2>2, <2>4, <2>6, <3>1
    <3>2. CASE instant' # instant + 1
      <4>a. round = turns + 1
        BY <3>2
      <4>b. instant' = (instant + 1) - Ticks
        <5>. HIDE DEF round
        <5>. QED BY <2>5, <3>2
      <4>1. Ticks * round = p + Ticks /\ instant' = (instant + 1) - Ticks /\ p \in Int
        <5>. HIDE DEF round
        <5>. QED BY <2>6, <4>a, <4>b
      <4>2. Lasted' = instant - start + p + 1
        BY <2>2, <2>4
      <4>. HIDE DEF p, round
      <4>. QED BY <1>1, <1>2, <4>1, <4>2, TicksArePositive
    <3>. QED BY <3>1, <3>2
  <2>8. round \in Int
    OBVIOUS
  <2>. QED
    <3>. HIDE DEF round
    <3>. QED BY <2>3, <2>4, <2>7, <2>8
<1>. QED BY <1>1, <1>t, <1>n, <1>3, <1>4 DEF DelayInv

\* The steps that change nothing of it.
LEMMA RestKeepsDelay ==
  ASSUME DelayInv, UNCHANGED << left, owed, start, instant >>,
         clockPc' = "run" \/ UNCHANGED << clockPc, sampled >>
  PROVE  DelayInv'
<1>1. Lasted' = Lasted
  BY DEF Lasted
<1>2. Lasted >= 1 => Lasted >= 0
  <2>1. left \in Int /\ owed \in Nat /\ Milli \in Nat
    BY TicksArePositive DEF DelayInv
  <2>2. left * Milli \in Int
    BY <2>1, TicksArePositive
  <2>3. Lasted \in Int
    <3>. DEFINE p == left * Milli
    <3>1. p \in Int /\ Lasted = p - owed
      BY <2>2 DEF Lasted
    <3>. HIDE DEF p
    <3>. QED BY <2>1, <3>1
  <2>. QED BY <2>3
<1>3. /\ left' \in Int /\ left' >= -1 /\ owed' \in Nat /\ start' \in 0 .. Ticks - 1
  BY DEF DelayInv
<1>4. clockPc' # "run" =>
        left' # 0 /\ sampled' \in 0 .. Ticks - 1 /\ instant' \in { sampled', (sampled' + 1) % Ticks }
  BY DEF DelayInv
<1>5. ASSUME left' >= 0, owed' > 0
      PROVE  /\ \E turns \in Int : Lasted' = instant' - start' + Ticks * turns
             /\ Lasted' >= IF clockPc' = "run" \/ instant' = sampled' THEN 0 ELSE 1
  <2>1. /\ \E turns \in Int : Lasted = instant - start + Ticks * turns
        /\ Lasted >= IF clockPc = "run" \/ instant = sampled THEN 0 ELSE 1
    BY <1>5 DEF DelayInv
  <2>. QED BY <1>1, <1>2, <2>1
<1>. QED BY <1>3, <1>4, <1>5 DEF DelayInv

LEMMA ReadsKeepDelay == ASSUME TimerInv, DelayInv, Micros PROVE DelayInv'
<1>1. /\ UNCHANGED << left, owed, start, instant >>
      /\ clockPc' # "run"
      /\ left # 0
  BY DEF Micros, ReadCount, ReadTimer, ReadFlag, DelayInv, delayVars
<1>2. sampled' = instant \/ (sampled' = sampled /\ clockPc # "run")
  BY DEF Micros, ReadCount, ReadTimer, ReadFlag
<1>3. /\ left' \in Int /\ left' >= -1 /\ owed' \in Nat /\ start' \in 0 .. Ticks - 1
  BY <1>1 DEF DelayInv
<1>4. left' # 0 /\ sampled' \in 0 .. Ticks - 1 /\ instant' \in { sampled', (sampled' + 1) % Ticks }
  BY <1>1, <1>2, TrueIsTick DEF DelayInv
<1>5. ASSUME left >= 0, owed > 0
      PROVE  /\ \E turns \in Int : Lasted = instant - start + Ticks * turns
             /\ Lasted >= IF instant' = sampled' THEN 0 ELSE 1
  <2>1. /\ \E turns \in Int : Lasted = instant - start + Ticks * turns
        /\ Lasted >= IF clockPc = "run" \/ instant = sampled THEN 0 ELSE 1
    BY <1>5 DEF DelayInv
  <2>2. Lasted >= 1 => Lasted >= 0
    <3>1. left \in Int /\ owed \in Nat /\ Milli \in Nat
      BY TicksArePositive DEF DelayInv
    <3>2. Lasted \in Int
      BY <3>1 DEF Lasted
    <3>. QED BY <3>2
  <2>. QED BY <1>1, <1>2, <2>1, <2>2
<1>6. Lasted' = Lasted
  BY <1>1 DEF Lasted
<1>7. ASSUME left' >= 0, owed' > 0
      PROVE  /\ \E turns \in Int : Lasted' = instant' - start' + Ticks * turns
             /\ Lasted' >= IF clockPc' = "run" \/ instant' = sampled' THEN 0 ELSE 1
  BY <1>1, <1>5, <1>6, <1>7
<1>. QED BY <1>3, <1>4, <1>7 DEF DelayInv

LEMMA DelayBegins ==
  ASSUME TimerInv, MicrosInv, DelayInv, NEW n \in Delays, Delay(n) PROVE DelayInv'
<1>1. /\ clockPc = "answer" /\ clockPc' = "run" /\ left' = n /\ start' = answer
      /\ instant' = instant /\ answer = sampled
  BY DEF Delay, Called, MicrosInv, MicrosExact
<1>o. owed' = IF n * Milli > (instant - sampled) % Ticks THEN n * Milli - ((instant - sampled) % Ticks) ELSE 0
  BY DEF Delay
<1>t. sampled \in 0 .. Ticks - 1 /\ instant \in 0 .. Ticks - 1 /\ n \in Nat
  BY <1>1, TrueIsTick, ClockAssumption DEF DelayInv
<1>. DEFINE passed == (instant - sampled) % Ticks
            asked == n * Milli
<1>2. asked \in Nat
  BY <1>t, TicksArePositive
<1>3. passed \in 0 .. Ticks - 1 /\ (passed = instant - sampled \/ passed = (instant - sampled) + Ticks)
  BY <1>t, TicksArePositive
<1>p. passed \in Nat
  BY <1>3, TicksArePositive
<1>4. owed' \in Nat /\ (owed' > 0 => owed' = asked - passed)
  <2>1. owed' = IF asked > passed THEN asked - passed ELSE 0
    BY <1>o
  <2>. HIDE DEF asked, passed
  <2>. QED BY <1>2, <1>p, <2>1
<1>5. ASSUME owed' > 0
      PROVE  /\ \E turns \in Int : Lasted' = instant' - start' + Ticks * turns
             /\ Lasted' >= 0
  <2>1. Lasted' = asked - owed'
    BY <1>1, TicksArePositive DEF Lasted
  <2>2. Lasted' = passed
    <3>. HIDE DEF asked, passed
    <3>. QED BY <1>2, <1>p, <1>4, <1>5, <2>1
  <2>3. instant' - start' = instant - sampled
    BY <1>1
  <2>4. \E turns \in Int : passed = (instant - sampled) + Ticks * turns
    <3>. HIDE DEF passed
    <3>1. CASE passed = instant - sampled
      <4>1. passed = (instant - sampled) + Ticks * 0
        BY <3>1, <1>t, TicksArePositive
      <4>. QED BY <4>1
    <3>2. CASE passed = (instant - sampled) + Ticks
      <4>1. passed = (instant - sampled) + Ticks * 1
        BY <3>2, <1>t, TicksArePositive
      <4>. QED BY <4>1
    <3>. QED BY <1>3, <3>1, <3>2
  <2>5. passed >= 0
    BY <1>3
  <2>. QED
    <3>. HIDE DEF passed
    <3>. QED BY <2>2, <2>3, <2>4, <2>5
<1>. QED
  <2>. HIDE DEF passed, asked
  <2>1. left' \in Int /\ left' >= -1 /\ start' \in 0 .. Ticks - 1
    BY <1>1, <1>t
  <2>. QED BY <1>1, <1>4, <1>5, <2>1 DEF DelayInv

\* The step at which delay() looks at the clock.
LEMMA CountKeepsDelay ==
  ASSUME TimerInv, MicrosInv, DelayInv, DelayCounts PROVE DelayInv'
<1>1. /\ clockPc = "answer" /\ clockPc' = "run" /\ left # -1 /\ answer = sampled
      /\ UNCHANGED << instant, owed >>
  BY DEF DelayCounts, InDelay, Called, MicrosInv, MicrosExact
<1>m. instant \in { sampled, (sampled + 1) % Ticks }
  BY <1>1 DEF DelayInv
<1>t. /\ left \in Int /\ left >= 1 /\ owed \in Nat /\ start \in 0 .. Ticks - 1
      /\ sampled \in 0 .. Ticks - 1 /\ instant \in 0 .. Ticks - 1
  <2>1. /\ left \in Int /\ left >= -1 /\ left # 0 /\ owed \in Nat /\ start \in 0 .. Ticks - 1
        /\ sampled \in 0 .. Ticks - 1
    BY <1>1 DEF DelayInv
  <2>. QED BY <1>1, <2>1, TrueIsTick
<1>i. left \in Int /\ owed \in Int /\ start \in Int /\ sampled \in Int /\ instant \in Int
  BY <1>t, TicksArePositive
<1>2. CASE ~Due
  <2>1. UNCHANGED << left, start, owed, instant >>
    BY <1>1, <1>2 DEF DelayCounts
  <2>. QED BY <1>1, <2>1, RestKeepsDelay
<1>3. CASE Due
  <2>1. left' = left - 1 /\ start' = (start + Milli) % Ticks
    BY <1>3 DEF DelayCounts
  <2>2. (sampled - start) % Ticks >= Milli
    BY <1>1, <1>3 DEF Due
  <2>3. ASSUME owed > 0
        PROVE  /\ \E turns \in Int : Lasted' = instant' - start' + Ticks * turns
               /\ Lasted' >= 0
    <3>1. PICK turns \in Int : Lasted = instant - start + Ticks * turns
      BY <1>t, <2>3 DEF DelayInv
    <3>2. Lasted >= IF instant = sampled THEN 0 ELSE 1
      BY <1>1, <1>t, <2>3 DEF DelayInv
    <3>3. Lasted' = Lasted - Milli /\ Lasted \in Int
      <4>. DEFINE p == left * Milli
      <4>1. p \in Int /\ (left - 1) * Milli = p - Milli
        BY <1>t, TicksArePositive
      <4>2. Lasted' = (left - 1) * Milli - owed
        BY <1>1, <2>1, TicksArePositive DEF Lasted
      <4>3. Lasted = p - owed
        BY DEF Lasted
      <4>. HIDE DEF p
      <4>. QED BY <1>t, <4>1, <4>2, <4>3, TicksArePositive
    <3>. DEFINE over == (sampled - start) % Ticks
    <3>4. over \in 0 .. Ticks - 1 /\ over >= Milli /\ \E q \in Int : sampled - start = Ticks * q + over
      <4>1. sampled - start \in Int
        BY <1>i
      <4>. DEFINE gap == sampled - start
      <4>2. gap % Ticks \in 0 .. Ticks - 1 /\ \E q \in Int : gap = Ticks * q + (gap % Ticks)
        <5>. HIDE DEF gap
        <5>1. Ticks \in Nat /\ Ticks > 0
          BY TicksArePositive
        <5>. QED BY <4>1, <5>1, RemainderOf DEF gap
      <4>. QED BY <2>2, <4>2
    <3>5. PICK q \in Int : sampled - start = Ticks * q + over
      BY <3>4
    \* What had passed when the clock was read.
    <3>. DEFINE isEarly == IF instant = sampled THEN 0 ELSE 1
    <3>6. \E k \in Int : Lasted - isEarly = (sampled - start) + Ticks * k
      <4>. HIDE DEF over
      <4>1. CASE instant = sampled
        <5>1. Lasted - 0 = (sampled - start) + Ticks * turns
          <6>. DEFINE p == Ticks * turns
          <6>1. p \in Int
            BY TicksArePositive
          <6>2. Lasted = (sampled - start) + p
            BY <3>1, <4>1
          <6>. HIDE DEF p
          <6>3. Lasted - 0 = (sampled - start) + p
            BY <1>i, <3>3, <6>1, <6>2
          <6>. QED BY <6>3 DEF p
        <5>. QED BY <4>1, <5>1
      <4>2. CASE instant # sampled /\ instant = sampled + 1
        <5>1. Lasted - 1 = (sampled - start) + Ticks * turns
          <6>. DEFINE p == Ticks * turns
          <6>1. p \in Int
            BY TicksArePositive
          <6>2. Lasted = ((sampled + 1) - start) + p
            BY <3>1, <4>2
          <6>. HIDE DEF p
          <6>3. Lasted - 1 = (sampled - start) + p
            BY <1>i, <3>3, <6>1, <6>2
          <6>. QED BY <6>3 DEF p
        <5>. QED BY <4>2, <5>1
      <4>3. CASE instant # sampled /\ instant = (sampled + 1) - Ticks
        <5>1. Lasted - 1 = (sampled - start) + Ticks * (turns - 1)
          <6>. DEFINE p == Ticks * turns
          <6>1. p \in Int /\ Ticks * (turns - 1) = p - Ticks
            BY TicksArePositive
          <6>2. Lasted = (((sampled + 1) - Ticks) - start) + p
            BY <3>1, <4>3
          <6>. HIDE DEF p
          <6>3. Lasted - 1 = (sampled - start) + (p - Ticks)
            BY <1>i, <3>3, <6>1, <6>2, TicksArePositive
          <6>. QED BY <6>1, <6>3
        <5>2. turns - 1 \in Int
          OBVIOUS
        <5>. QED BY <4>3, <5>1, <5>2
      <4>4. instant # sampled => instant = sampled + 1 \/ instant = (sampled + 1) - Ticks
        <5>1. (sampled + 1) % Ticks = sampled + 1 \/ (sampled + 1) % Ticks = (sampled + 1) - Ticks
          BY <1>t, TicksArePositive
        <5>. QED BY <1>m, <5>1
      <4>. QED BY <4>1, <4>2, <4>3, <4>4
    <3>7. PICK k \in Int : Lasted - isEarly = (sampled - start) + Ticks * k
      BY <3>6
    <3>8. Lasted - isEarly = over + Ticks * (q + k)
      <4>. DEFINE a == Ticks * q
                  b == Ticks * k
      <4>1. a \in Int /\ b \in Int /\ Ticks * (q + k) = a + b
        BY TicksArePositive
      <4>2. sampled - start = a + over /\ Lasted - isEarly = (sampled - start) + b
        <5>. HIDE DEF over, isEarly
        <5>. QED BY <3>5, <3>7
      <4>. HIDE DEF a, b, over, isEarly
      <4>. QED BY <3>4, <4>1, <4>2
    <3>9. Lasted - isEarly >= 0
      BY <3>2, <3>3
    <3>10. Lasted - isEarly >= over
      <4>. HIDE DEF over, isEarly
      <4>1. q + k \in Int /\ over + Ticks * (q + k) >= 0
        BY <3>8, <3>9
      <4>2. over + Ticks * (q + k) >= over
        BY <3>4, <4>1, TicksArePositive, AtLeastTheRest
      <4>. QED BY <3>8, <4>2
    <3>11. Lasted' >= 0
      <4>1. isEarly \in { 0, 1 }
        OBVIOUS
      <4>. HIDE DEF over, isEarly
      <4>. QED BY <3>3, <3>4, <3>10, <4>1, TicksArePositive
    <3>12. \E back \in Int : Lasted' = instant' - start' + Ticks * back
      <4>. HIDE DEF over, isEarly
      <4>. DEFINE p == Ticks * turns
      <4>1. p \in Int /\ Ticks * (turns + 1) = p + Ticks /\ Lasted = (instant - start) + p
        BY <3>1, TicksArePositive
      <4>2. instant' = instant
        BY <1>1
      <4>3. start' = start + Milli \/ start' = (start + Milli) - Ticks
        BY <1>t, <2>1, TicksArePositive
      <4>4. CASE start' = start + Milli
        <5>1. Lasted' = (instant' - start') + p
          <6>. HIDE DEF p
          <6>. QED BY <1>i, <3>3, <4>1, <4>2, <4>4, TicksArePositive
        <5>. QED BY <5>1
      <4>5. CASE start' = (start + Milli) - Ticks
        <5>1. Lasted' = (instant' - start') + (p - Ticks)
          <6>. HIDE DEF p
          <6>. QED BY <1>i, <3>3, <4>1, <4>2, <4>5, TicksArePositive
        <5>2. Ticks * (turns - 1) = p - Ticks /\ turns - 1 \in Int
          BY TicksArePositive
        <5>. QED
          <6>. HIDE DEF p
          <6>. QED BY <5>1, <5>2
      <4>. QED BY <4>3, <4>4, <4>5
    <3>. QED BY <3>11, <3>12
  <2>4. start' \in 0 .. Ticks - 1
    BY <1>t, <2>1, TicksArePositive
  <2>5. left' \in Int /\ left' >= -1
    BY <1>t, <2>1
  <2>. QED BY <1>1, <1>t, <2>3, <2>4, <2>5 DEF DelayInv
<1>. QED BY <1>2, <1>3

LEMMA DelayStep == ASSUME ClockInv, DelayInv, [ClockNext]_clockVars PROVE DelayInv'
<1>. USE DEF ClockInv
<1>1. CASE TimerTick
  BY <1>1, TickKeepsDelay
<1>2. CASE Overflow \/ (\E on \in BOOLEAN : Interrupts(on)) \/ Resume \/ UNCHANGED clockVars
  <2>1. UNCHANGED << left, owed, start, instant >>
    BY <1>2 DEF Overflow, Interrupts, Resume, clockVars, delayVars
  <2>2. clockPc' = "run" \/ UNCHANGED << clockPc, sampled >>
    BY <1>2 DEF Overflow, Interrupts, Resume, Called, clockVars, microsVars
  <2>. QED BY <2>1, <2>2, RestKeepsDelay
<1>3. CASE Micros
  BY <1>3, ReadsKeepDelay
<1>4. CASE \E n \in Delays : Delay(n)
  BY <1>4, DelayBegins
<1>5. CASE DelayCounts
  BY <1>5, CountKeepsDelay
<1>6. CASE DelayReturns
  <2>1. UNCHANGED << owed, start, instant >> \/ start' = 0
    BY <1>6 DEF DelayReturns
  <2>2. left' = -1 /\ start' = 0 /\ owed' = owed /\ clockPc' = "run"
    BY <1>6 DEF DelayReturns, Called
  <2>. QED BY <2>2, TicksArePositive DEF DelayInv
<1>. QED BY <1>1, <1>2, <1>3, <1>4, <1>5, <1>6 DEF ClockNext

LEMMA NothingOwed ==
  ASSUME DelayInv, [ClockNext]_clockVars, InDelay, ~InDelay' PROVE owed = 0
<1>1. left \in Int /\ left >= 0 /\ left' = -1 /\ owed \in Nat
  BY DEF InDelay, DelayInv
<1>2. left = 0
  <2>1. left' = left \/ (left' \in Delays /\ left = -1) \/ (left' = left - 1 /\ clockPc # "run") \/ left = 0
    <3>1. CASE DelayCounts
      BY <3>1 DEF DelayCounts
    <3>2. CASE DelayReturns
      BY <3>2 DEF DelayReturns
    <3>3. CASE \E n \in Delays : Delay(n)
      BY <3>3 DEF Delay, InDelay
    <3>4. CASE TimerTick \/ Overflow \/ (\E on \in BOOLEAN : Interrupts(on)) \/ Micros \/ Resume \/ UNCHANGED clockVars
      BY <3>4 DEF TimerTick, Overflow, Interrupts, Micros, ReadCount, ReadTimer, ReadFlag, Resume,
                  clockVars, delayVars
    <3>. QED BY <3>1, <3>2, <3>3, <3>4 DEF ClockNext
  <2>2. clockPc # "run" => left # 0
    BY DEF DelayInv
  <2>. QED BY <1>1, <2>1, <2>2
<1>3. ASSUME owed > 0 PROVE FALSE
  <2>1. Lasted >= IF clockPc = "run" \/ instant = sampled THEN 0 ELSE 1
    BY <1>1, <1>3 DEF DelayInv
  <2>2. Lasted = -owed
    <3>1. left * Milli = 0
      BY <1>2, TicksArePositive
    <3>. QED BY <1>1, <3>1 DEF Lasted
  <2>. QED BY <1>1, <1>3, <2>1, <2>2
<1>. QED BY <1>1, <1>3

(* delay() does not return before its milliseconds are over, whatever the  *)
(* length of a millisecond in ticks and for however long it did not look,  *)
(* across the wrap of micros() as well (wiring.c:106-117).                 *)
THEOREM DelayIsKept == ClockSpec => DelayLasts
<1>1. ClockInit => ClockInv /\ DelayInv
  BY ClockStart, DelayStart
<1>2. ClockInv /\ DelayInv /\ [ClockNext]_clockVars => ClockInv' /\ DelayInv'
  BY ClockStep, DelayStep
<1>3. ClockInv /\ DelayInv /\ [ClockNext]_clockVars => [InDelay /\ ~InDelay' => owed = 0]_clockVars
  BY NothingOwed
<1>. QED BY <1>1, <1>2, <1>3, PTL DEF ClockSpec, DelayLasts

-----------------------------------------------------------------------------
(* Pins.                                                                   *)

(* Three of the numbers of analog inputs have no timer in the table while  *)
(* their pin has one: a digitalWrite() by such a number does not end an    *)
(* analogWrite() by the other (pins_arduino.h:313-349).                    *)
OwnNumbers == { 25, 27, 28 } \cap (SketchPins \cup HandlerPins) = {}

\* The tables of the board and what the chip has at each place agree.
LEMMA TimersOfPins ==
  \A p \in 0 .. 30 : p \notin { 25, 27, 28 } => digital_pin_to_timer(p) = TimerAt(Place(p))
BY DEF digital_pin_to_timer, TimerAt, Place, digital_pin_to_port, digital_pin_to_bit

LEMMA Channels == \A i \in 0 .. 11 : analog_pin_to_channel(i) = ChannelAt(Place(i + 18))
BY DEF analog_pin_to_channel, ChannelAt, Place, digital_pin_to_port, digital_pin_to_bit

LEMMA ChangeBits ==
  \A p \in 8 .. 11 \cup 14 .. 17 \cup 26 .. 28 : digitalPinToPCMSKbit(p) = digital_pin_to_bit(p)
BY DEF digitalPinToPCMSKbit, digital_pin_to_bit

\* An output of a timer is at one place.
LEMMA OnePlaceEach ==
  ASSUME NEW p1, NEW p2, TimerAt(p1) # "none", TimerAt(p1) = TimerAt(p2) PROVE p1 = p2
BY DEF TimerAt

LEMMA OwnRegister == \A timer : timer \in Register(timer)
BY DEF Register

LEMMA RegistersAreNamed == \A timer : timer # "none" => "none" \notin Register(timer)
BY DEF Register

\* The pin of the call under way, and where in it turning its timer on or off is.
WriteInv ==
  /\ pinsPc \in { "idle", "turnOff", "turnedOff", "level", "connect", "connected", "convert", "result" }
  /\ wanted \in [Places -> { "none", "low", "high", "pwm" }] /\ "none" \notin com
  /\ pinsPc \in { "turnOff", "turnedOff", "connect", "connected", "level" } => pin \in SketchPins
  /\ pinsPc \in { "turnOff", "turnedOff", "connect", "connected" } => digital_pin_to_timer(pin) # "none"
  /\ pinsPc \in { "turnOff", "turnedOff", "level" } => val \in { "none", "low", "high" }
  /\ pinsPc \in { "turnedOff", "connected" } => read \subseteq Register(digital_pin_to_timer(pin))

\* What a place has, and what the end of a digitalWrite() is about to change.
HasLevel(place) ==
  wanted[place] \in { "low", "high" } =>
    (place \in port <=> wanted[place] = "high") /\ (place \in undone \/ TimerAt(place) \notin com)

PlacesInv ==
  \A place \in Places :
    /\ HasLevel(place)
    /\ wanted[place] = "pwm" =>
         place \in undone \/ TimerAt(place) \in com \/ (pinsPc = "level" /\ place = Place(pin))
    /\ pinsPc = "level" /\ val # "none" /\ place = Place(pin) => place \in undone \/ TimerAt(place) \notin com

\* The channel of a conversion that is under way.
AnalogInv ==
  /\ ~wrong
  /\ pinsPc \in { "convert", "result" } => pin \in AnalogPins
  /\ pinsPc = "convert" => admux = Channel(pin)
  /\ pinsPc = "result" => converting = Channel(pin)

PinsInv == WriteInv /\ PlacesInv /\ AnalogInv

LEMMA PinsStart == PinsInit => PinsInv
BY DEF PinsInit, PinsInv, WriteInv, PlacesInv, HasLevel, AnalogInv

LEMMA PlacesOfPins ==
  ASSUME OwnNumbers
  PROVE  \A p \in SketchPins \cup HandlerPins :
           Place(p) \in Places /\ digital_pin_to_timer(p) = TimerAt(Place(p))
<1>1. \A p \in SketchPins \cup HandlerPins : p \in 0 .. 30 /\ p \notin { 25, 27, 28 }
  BY PinsAssumption DEF OwnNumbers
<1>. QED BY <1>1, TimersOfPins DEF Places

LEMMA ChannelOfPin == \A p \in AnalogPins : Channel(p) = ChannelAt(Place(IF p >= 18 THEN p ELSE p + 18))
<1>. SUFFICES ASSUME NEW p \in AnalogPins
              PROVE  Channel(p) = ChannelAt(Place(IF p >= 18 THEN p ELSE p + 18))
  OBVIOUS
<1>1. p \in 0 .. 11 \cup 18 .. 29
  BY PinsAssumption
<1>2. CASE p \in 0 .. 11
  BY <1>2, Channels DEF Channel
<1>3. CASE p \in 18 .. 29
  <2>1. p - 18 \in 0 .. 11 /\ (p - 18) + 18 = p /\ p >= 18
    BY <1>3
  <2>2. analog_pin_to_channel(p - 18) = ChannelAt(Place(p))
    BY <2>1, Channels
  <2>. QED BY <2>1, <2>2 DEF Channel
<1>. QED BY <1>1, <1>2, <1>3

LEMMA ModeKeeps ==
  ASSUME PinsInv, OwnNumbers, NEW p \in SketchPins, NEW mode \in { "INPUT", "INPUT_PULLUP", "OUTPUT" },
         pinMode(p, mode)
  PROVE  PinsInv'
<1>1. Place(p) \in Places
  BY PlacesOfPins
<1>2. /\ pinsPc = "idle" /\ pinsPc' = "idle"
      /\ port' = IF mode = "OUTPUT" THEN port ELSE Set(port, Place(p), mode = "INPUT_PULLUP")
      /\ wanted' = [wanted EXCEPT ![Place(p)] = IF mode = "OUTPUT" THEN @ ELSE "none"]
      /\ UNCHANGED << com, pin, val, read, admux, converting, undone, wrong >>
  BY DEF pinMode, PinsStep
<1>3. wanted \in [Places -> { "none", "low", "high", "pwm" }]
  BY DEF PinsInv, WriteInv
<1>4. WriteInv' /\ AnalogInv'
  BY <1>1, <1>2, <1>3 DEF PinsInv, WriteInv, AnalogInv
<1>5. ASSUME NEW place \in Places
      PROVE  /\ HasLevel(place)'
             /\ wanted'[place] = "pwm" => place \in undone' \/ TimerAt(place) \in com'
  <2>1. CASE place = Place(p) /\ mode # "OUTPUT"
    BY <1>1, <1>2, <1>3, <2>1 DEF HasLevel
  <2>2. CASE ~(place = Place(p) /\ mode # "OUTPUT")
    <3>1. wanted'[place] = wanted[place]
      BY <1>1, <1>2, <1>3, <2>2
    <3>2. place \in port' <=> place \in port
      BY <1>2, <2>2 DEF Set
    <3>. QED BY <1>2, <3>1, <3>2 DEF PinsInv, PlacesInv, HasLevel
  <2>. QED BY <2>1, <2>2
<1>6. PlacesInv'
  BY <1>2, <1>5 DEF PlacesInv
<1>. QED BY <1>4, <1>6 DEF PinsInv

\* The beginning of a call changes nothing that is held.
LEMMA CallStarts ==
  ASSUME PinsInv, OwnNumbers, NEW p \in SketchPins, pinsPc = "idle", pin' = p,
         UNCHANGED << port, com, read, admux, converting, wanted, undone, wrong >>,
         \/ pinsPc' \in { "turnOff", "connect" } /\ digital_pin_to_timer(p) # "none"
         \/ pinsPc' = "level" /\ digital_pin_to_timer(p) = "none",
         pinsPc' # "connect" => val' \in { "none", "low", "high" }
  PROVE  PinsInv'
<1>1. WriteInv' /\ AnalogInv'
  BY DEF PinsInv, WriteInv, AnalogInv
<1>2. pinsPc' = "level" => TimerAt(Place(p)) \notin com
  BY PlacesOfPins DEF PinsInv, WriteInv
<1>3. PlacesInv'
  BY <1>2 DEF PinsInv, PlacesInv, HasLevel
<1>. QED BY <1>1, <1>3 DEF PinsInv

LEMMA CallsKeep ==
  ASSUME PinsInv, OwnNumbers, NEW p \in SketchPins,
         \/ \E v \in { "low", "high" } : digitalWrite(p, v)
         \/ digitalRead(p)
         \/ \E v \in { "low", "high", "pwm" } : analogWrite(p, v)
  PROVE  PinsInv'
<1>1. ASSUME NEW v \in { "none", "low", "high" }, Digital(p, v) PROVE PinsInv'
  BY <1>1, CallStarts DEF Digital, PinsStep
<1>2. ASSUME NEW v \in { "low", "high", "pwm" }, analogWrite(p, v) PROVE PinsInv'
  <2>1. /\ pinsPc = "idle" /\ pin' = p
        /\ UNCHANGED << port, com, read, admux, converting, wanted, undone, wrong >>
    BY <1>2 DEF analogWrite, PinsStep
  <2>2. /\ \/ pinsPc' \in { "turnOff", "connect" } /\ digital_pin_to_timer(p) # "none"
           \/ pinsPc' = "level" /\ digital_pin_to_timer(p) = "none"
        /\ pinsPc' # "connect" => val' \in { "none", "low", "high" }
    BY <1>2 DEF analogWrite, PinsStep
  <2>. QED BY <2>1, <2>2, CallStarts
<1>. QED BY <1>1, <1>2 DEF digitalWrite, digitalRead

LEMMA InputKeeps == ASSUME PinsInv, OwnNumbers, ReadRegister PROVE PinsInv'
<1>1. /\ \/ pinsPc = "turnOff" /\ pinsPc' = "turnedOff"
         \/ pinsPc = "connect" /\ pinsPc' = "connected"
      /\ read' = com \cap Register(digital_pin_to_timer(pin))
      /\ UNCHANGED << ddr, port, com, pin, val, admux, converting, wanted, undone, wrong >>
  BY DEF ReadRegister, PinsStep
<1>2. WriteInv'
  BY <1>1 DEF PinsInv, WriteInv
<1>3. PlacesInv'
  BY <1>1 DEF PinsInv, PlacesInv, HasLevel
<1>4. AnalogInv'
  BY <1>1 DEF PinsInv, AnalogInv
<1>. QED BY <1>2, <1>3, <1>4 DEF PinsInv

\* Writing back the register changes the one output, and those that are undone.
LEMMA WriteKeeps == ASSUME PinsInv, OwnNumbers, WriteRegister PROVE PinsInv'
<1>. DEFINE tm == digital_pin_to_timer(pin)
<1>1. pinsPc \in { "turnedOff", "connected" }
  BY DEF WriteRegister, PinsStep
<1>2. /\ pin \in SketchPins /\ tm # "none" /\ tm \in Register(tm)
      /\ Place(pin) \in Places /\ tm = TimerAt(Place(pin)) /\ read \subseteq Register(tm)
      /\ wanted \in [Places -> { "none", "low", "high", "pwm" }] /\ "none" \notin com
  BY <1>1, PlacesOfPins, OwnRegister DEF PinsInv, WriteInv
<1>3. UNCHANGED << port, pin, admux, converting, wrong >>
  BY DEF WriteRegister
<1>4. "none" \notin read
  <2>1. "none" \notin Register(tm)
    BY <1>2, TimersOfPins, RegistersAreNamed
  <2>. QED BY <1>2, <2>1
<1>5. /\ com' \in { (com \ Register(tm)) \cup (read \ { tm }), (com \ Register(tm)) \cup read \cup { tm } }
      /\ TurnedBack(tm) \subseteq undone'
      /\ \A place \in Places : place # Place(pin) /\ place \in undone => place \in undone'
  BY DEF WriteRegister
<1>6. ASSUME NEW place \in Places, place # Place(pin), place \notin undone'
      PROVE  TimerAt(place) \in com' <=> TimerAt(place) \in com
  <2>1. TimerAt(place) # tm
    BY <1>2, <1>6, OnePlaceEach
  <2>2. CASE TimerAt(place) \notin Register(tm)
    BY <1>2, <1>5, <2>1, <2>2
  <2>3. CASE TimerAt(place) \in Register(tm)
    <3>1. TimerAt(place) \in com <=> TimerAt(place) \in read
      BY <1>5, <1>6, <2>1, <2>3 DEF TurnedBack
    <3>. QED BY <1>5, <2>1, <2>3, <3>1
  <2>. QED BY <2>2, <2>3
<1>7. AnalogInv'
  BY <1>1, <1>3 DEF WriteRegister, PinsStep, PinsInv, AnalogInv
<1>8. CASE pinsPc = "turnedOff"
  <2>1. /\ pinsPc' = "level" /\ com' = (com \ Register(tm)) \cup (read \ { tm }) /\ UNCHANGED wanted
        /\ val' = val
    BY <1>8 DEF WriteRegister, PinsStep
  <2>2. WriteInv'
    BY <1>2, <1>3, <1>4, <1>8, <2>1 DEF PinsInv, WriteInv
  <2>3. ASSUME NEW place \in Places
        PROVE  /\ HasLevel(place)'
               /\ wanted'[place] = "pwm" =>
                    place \in undone' \/ TimerAt(place) \in com' \/ place = Place(pin')
               /\ place = Place(pin') => TimerAt(place) \notin com'
    <3>1. CASE place = Place(pin)
      <4>1. TimerAt(place) \notin com'
        BY <1>2, <2>1, <3>1
      <4>. QED BY <1>3, <2>1, <3>1, <4>1 DEF PinsInv, PlacesInv, HasLevel
    <3>2. CASE place # Place(pin)
      BY <1>3, <1>5, <1>6, <1>8, <2>1, <3>2 DEF PinsInv, PlacesInv, HasLevel
    <3>. QED BY <3>1, <3>2
  <2>4. PlacesInv'
    BY <2>1, <2>3 DEF PlacesInv
  <2>. QED BY <1>7, <2>2, <2>4 DEF PinsInv
<1>9. CASE pinsPc = "connected"
  <2>1. /\ pinsPc' = "idle" /\ com' = (com \ Register(tm)) \cup read \cup { tm }
        /\ wanted' = [wanted EXCEPT ![Place(pin)] = "pwm"]
    BY <1>9 DEF WriteRegister, PinsStep
  <2>2. WriteInv'
    BY <1>2, <1>3, <1>4, <2>1 DEF PinsInv, WriteInv
  <2>3. ASSUME NEW place \in Places
        PROVE  /\ HasLevel(place)'
               /\ wanted'[place] = "pwm" => place \in undone' \/ TimerAt(place) \in com'
    <3>1. CASE place = Place(pin)
      BY <1>2, <2>1, <3>1 DEF HasLevel
    <3>2. CASE place # Place(pin)
      <4>1. wanted'[place] = wanted[place]
        BY <1>2, <2>1, <3>2
      <4>. QED BY <1>3, <1>5, <1>6, <1>9, <3>2, <4>1 DEF PinsInv, PlacesInv, HasLevel
    <3>. QED BY <3>1, <3>2
  <2>4. PlacesInv'
    BY <2>1, <2>3 DEF PlacesInv
  <2>. QED BY <1>7, <2>2, <2>4 DEF PinsInv
<1>. QED BY <1>1, <1>8, <1>9

LEMMA LevelKeeps == ASSUME PinsInv, OwnNumbers, WriteLevel PROVE PinsInv'
<1>1. /\ pinsPc = "level" /\ pinsPc' = "idle"
      /\ port' = IF val = "none" THEN port ELSE Set(port, Place(pin), val = "high")
      /\ wanted' = [wanted EXCEPT ![Place(pin)] =
                      IF val # "none" THEN val
                      ELSE IF @ = "pwm" /\ TimerAt(Place(pin)) \notin com THEN "none" ELSE @]
      /\ UNCHANGED << com, pin, read, admux, converting, undone, wrong >>
  BY DEF WriteLevel, PinsStep
<1>2. /\ pin \in SketchPins /\ Place(pin) \in Places /\ val \in { "none", "low", "high" }
      /\ wanted \in [Places -> { "none", "low", "high", "pwm" }]
  BY <1>1, PlacesOfPins DEF PinsInv, WriteInv
<1>3. WriteInv' /\ AnalogInv'
  BY <1>1, <1>2 DEF PinsInv, WriteInv, AnalogInv
<1>4. ASSUME NEW place \in Places
      PROVE  /\ HasLevel(place)'
             /\ wanted'[place] = "pwm" => place \in undone' \/ TimerAt(place) \in com'
  <2>1. CASE place = Place(pin) /\ val = "none"
    <3>1. wanted'[place] = IF wanted[place] = "pwm" /\ TimerAt(place) \notin com THEN "none"
                           ELSE wanted[place]
      BY <1>1, <1>2, <2>1
    <3>. QED BY <1>1, <2>1, <3>1 DEF PinsInv, PlacesInv, HasLevel
  <2>2. CASE place = Place(pin) /\ val # "none"
    <3>1. wanted'[place] = val
      BY <1>1, <1>2, <2>2
    <3>2. place \in port' <=> val = "high"
      BY <1>1, <2>2 DEF Set
    <3>3. place \in undone' \/ TimerAt(place) \notin com'
      BY <1>1, <2>2 DEF PinsInv, PlacesInv
    <3>. QED BY <1>1, <1>2, <2>2, <3>1, <3>2, <3>3 DEF HasLevel
  <2>3. CASE place # Place(pin)
    <3>1. wanted'[place] = wanted[place]
      BY <1>1, <1>2, <2>3
    <3>2. (place \in port' <=> place \in port) /\ (place \in undone' <=> place \in undone)
      BY <1>1, <2>3 DEF Set
    <3>. QED BY <1>1, <2>3, <3>1, <3>2 DEF PinsInv, PlacesInv, HasLevel
  <2>. QED BY <2>1, <2>2, <2>3
<1>5. PlacesInv'
  BY <1>1, <1>4 DEF PlacesInv
<1>. QED BY <1>3, <1>5 DEF PinsInv

LEMMA AnalogKeeps ==
  ASSUME PinsInv, (\E p \in AnalogPins : Select(p)) \/ Convert \/ Result PROVE PinsInv'
<1>1. UNCHANGED << port, com, read, val, wanted, undone >>
  BY DEF Select, Convert, Result
<1>2. /\ pinsPc \in { "idle", "convert", "result" } /\ pinsPc' \in { "idle", "convert", "result" }
  BY DEF Select, Convert, Result, PinsStep
<1>3. WriteInv'
  BY <1>1, <1>2 DEF PinsInv, WriteInv
<1>4. PlacesInv'
  BY <1>1, <1>2 DEF Select, Convert, Result, PinsStep, PinsInv, PlacesInv, HasLevel
<1>5. AnalogInv'
  <2>1. CASE \E p \in AnalogPins : Select(p)
    BY <2>1 DEF Select, PinsStep, PinsInv, AnalogInv
  <2>2. CASE Convert
    BY <2>2 DEF Convert, PinsStep, PinsInv, AnalogInv
  <2>3. CASE Result
    BY <2>3, ChannelOfPin DEF Result, PinsStep, PinsInv, AnalogInv
  <2>. QED BY <2>1, <2>2, <2>3
<1>. QED BY <1>3, <1>4, <1>5 DEF PinsInv

LEMMA HandlerKeeps ==
  ASSUME PinsInv, OwnNumbers, NEW p \in HandlerPins, NEW v \in { "low", "high", "pwm" }, HandlerWrites(p, v)
  PROVE  PinsInv'
<1>. DEFINE tm == digital_pin_to_timer(p)
<1>1. /\ v = "pwm" => tm # "none"
      /\ com' = Set(com, tm, v = "pwm")
      /\ port' = IF v = "pwm" THEN port ELSE Set(port, Place(p), v = "high")
      /\ wanted' = [wanted EXCEPT ![Place(p)] = v]
      /\ undone' = Set(undone, Place(p), Reconnects(p, v))
      /\ UNCHANGED << pinsPc, pin, val, read, admux, converting, wrong >>
  BY DEF HandlerWrites
<1>2. /\ Place(p) \in Places /\ tm = TimerAt(Place(p))
      /\ wanted \in [Places -> { "none", "low", "high", "pwm" }] /\ "none" \notin com
  BY PlacesOfPins DEF PinsInv, WriteInv
<1>3. WriteInv'
  <2>1. wanted' \in [Places -> { "none", "low", "high", "pwm" }] /\ "none" \notin com'
    BY <1>1, <1>2 DEF Set
  <2>. QED BY <1>1, <2>1 DEF PinsInv, WriteInv
<1>4. AnalogInv'
  BY <1>1 DEF PinsInv, AnalogInv
<1>5. ASSUME NEW place \in Places
      PROVE  /\ HasLevel(place)'
             /\ wanted'[place] = "pwm" =>
                  place \in undone' \/ TimerAt(place) \in com' \/ (pinsPc' = "level" /\ place = Place(pin'))
             /\ pinsPc' = "level" /\ val' # "none" /\ place = Place(pin') =>
                  place \in undone' \/ TimerAt(place) \notin com'
  <2>1. CASE place = Place(p)
    <3>1. wanted'[place] = v
      BY <1>1, <1>2, <2>1
    <3>2. v # "pwm" => (place \in port' <=> v = "high") /\ TimerAt(place) \notin com'
      BY <1>1, <1>2, <2>1 DEF Set
    <3>3. v = "pwm" => TimerAt(place) \in com'
      BY <1>1, <1>2, <2>1 DEF Set
    <3>4. v = "pwm" /\ pinsPc = "level" /\ val # "none" /\ place = Place(pin) => place \in undone'
      BY <1>1, <2>1 DEF Set, Reconnects
    <3>. QED BY <1>1, <3>1, <3>2, <3>3, <3>4 DEF HasLevel
  <2>2. CASE place # Place(p)
    <3>1. wanted'[place] = wanted[place]
      BY <1>1, <1>2, <2>2
    <3>2. (place \in port' <=> place \in port) /\ (place \in undone' <=> place \in undone)
      BY <1>1, <2>2 DEF Set
    <3>3. TimerAt(place) # tm \/ TimerAt(place) = "none"
      BY <1>2, <2>2, OnePlaceEach
    <3>4. "none" \notin com'
      BY <1>1, <1>2 DEF Set
    <3>5. TimerAt(place) \in com' <=> TimerAt(place) \in com
      BY <1>1, <1>2, <3>3, <3>4 DEF Set
    <3>. QED BY <1>1, <3>1, <3>2, <3>5 DEF PinsInv, PlacesInv, HasLevel
  <2>. QED BY <2>1, <2>2
<1>6. PlacesInv'
  BY <1>5 DEF PlacesInv
<1>. QED BY <1>3, <1>4, <1>6 DEF PinsInv

LEMMA PinsKept ==
  ASSUME PinsInv, OwnNumbers, ~HandlerReads, [PinsNext]_pinsVars PROVE PinsInv'
<1>1. ASSUME NEW p \in AnalogPins, HandlerReadsAnalog(p) PROVE PinsInv'
  <2>1. /\ pinsPc \notin { "convert", "result" }
        /\ UNCHANGED << port, com, pinsPc, pin, val, read, wanted, undone, wrong >>
    BY <1>1 DEF HandlerReadsAnalog
  <2>. QED BY <2>1 DEF PinsInv, WriteInv, PlacesInv, HasLevel, AnalogInv
<1>2. CASE UNCHANGED pinsVars
  BY <1>2 DEF pinsVars, PinsInv, WriteInv, PlacesInv, HasLevel, AnalogInv
<1>. QED BY <1>1, <1>2, ModeKeeps, CallsKeep, InputKeeps, WriteKeeps, LevelKeeps, AnalogKeeps, HandlerKeeps
  DEF PinsNext

(* What the calls ask of a pin is what it has, for every choice of pins    *)
(* that the sketch and a handler use, the same ones or neighbours in a     *)
(* register included: the level that was asked last always, the output of  *)
(* the timer but for the races that LevelIsHeld names, and the channel of  *)
(* its own (wiring_digital.c:29-179, wiring_analog.c:38-292).              *)
THEOREM PinsAreKept ==
  ASSUME OwnNumbers, ~HandlerReads
  PROVE  PinsSpec => []PinsAreSound
<1>1. PinsInv => PinsAreSound
  BY ChangeBits DEF PinsInv, PlacesInv, HasLevel, AnalogInv, PinsAreSound, LevelIsHeld, PinsAreOwn
<1>. QED BY <1>1, PinsStart, PinsKept, PTL DEF PinsSpec

-----------------------------------------------------------------------------
(* Events of a Timer.                                                      *)

\* Time on a clock that wraps.
Since(at, last) == (at - last) % Epoch
Remaining(event, at) ==
  IF event.period > Since(at, event.last) THEN event.period - Since(at, event.last) ELSE 0

EventRecord ==
  [type : { "NONE", "EVERY", "OSCILLATE" }, period : Nat, repeat : Int, last : 0 .. Epoch - 1,
   count : Nat, state : { 0, 1 }]

LEMMA SinceIs ==
  ASSUME NEW at \in 0 .. Epoch - 1, NEW last \in 0 .. Epoch - 1
  PROVE  /\ Since(at, last) = IF at >= last THEN at - last ELSE (at - last) + Epoch
         /\ Since(at, last) \in 0 .. Epoch - 1
BY EventTimerAssumption DEF Since

LEMMA ClockAdvances ==
  ASSUME NEW at \in 0 .. Epoch - 1
  PROVE  /\ (at + 1) % Epoch \in 0 .. Epoch - 1
         /\ (at + 1) % Epoch = IF at + 1 = Epoch THEN 0 ELSE at + 1
BY EventTimerAssumption

LEMMA SinceAdvances ==
  ASSUME NEW at \in 0 .. Epoch - 1, NEW last \in 0 .. Epoch - 1
  PROVE  /\ Since(at, last) \in Nat /\ Since((at + 1) % Epoch, last) \in Nat
         /\ \/ Since((at + 1) % Epoch, last) = Since(at, last) + 1
            \/ Since((at + 1) % Epoch, last) = 0
<1>. DEFINE next == (at + 1) % Epoch
<1>1. next \in 0 .. Epoch - 1 /\ next = IF at + 1 = Epoch THEN 0 ELSE at + 1
  BY ClockAdvances
<1>. HIDE DEF next
<1>2. /\ Since(at, last) = IF at >= last THEN at - last ELSE (at - last) + Epoch
      /\ Since(at, last) \in 0 .. Epoch - 1
  BY SinceIs
<1>3. /\ Since(next, last) = IF next >= last THEN next - last ELSE (next - last) + Epoch
      /\ Since(next, last) \in 0 .. Epoch - 1
  BY <1>1, SinceIs
<1>4. Since(at, last) \in Nat /\ Since(next, last) \in Nat
      /\ (Since(next, last) = Since(at, last) + 1 \/ Since(next, last) = 0)
  BY <1>1, <1>2, <1>3, EventTimerAssumption
<1>. QED BY <1>4 DEF next

LEMMA RemainingIs ==
  ASSUME NEW event \in EventRecord, NEW at \in 0 .. Epoch - 1
  PROVE  /\ Remaining(event, at) \in Nat
         /\ Remaining(event, (at + 1) % Epoch) \in Nat
         /\ Remaining(event, at) <= Remaining(event, (at + 1) % Epoch) + 1
<1>1. event.period \in Nat /\ event.last \in 0 .. Epoch - 1
  BY DEF EventRecord
<1>. DEFINE p == event.period
            s == Since(at, event.last)
            u == Since((at + 1) % Epoch, event.last)
<1>2. s \in Nat /\ u \in Nat /\ (u = s + 1 \/ u = 0)
  BY <1>1, SinceAdvances
<1>3. Remaining(event, at) = (IF p > s THEN p - s ELSE 0)
      /\ Remaining(event, (at + 1) % Epoch) = (IF p > u THEN p - u ELSE 0)
  BY DEF Remaining
<1>. HIDE DEF p, s, u
<1>4. p \in Nat
  BY <1>1 DEF p
<1>. QED BY <1>2, <1>3, <1>4

\* An event that is due has nothing left to wait for.
LEMMA DueIsOver ==
  ASSUME NEW event \in EventRecord, now \in 0 .. Epoch - 1, IsDue(event)
  PROVE  Remaining(event, now) = 0
<1>1. event.period \in Nat /\ event.last \in 0 .. Epoch - 1
  BY DEF EventRecord
<1>2. Since(now, event.last) \in 0 .. Epoch - 1
  BY <1>1, SinceIs
<1>3. Since(now, event.last) >= event.period
  BY DEF IsDue, Elapsed, Since
<1>. HIDE DEF Since
<1>4. ~(event.period > Since(now, event.last))
  BY <1>1, <1>2, <1>3, EventTimerAssumption
<1>. QED BY <1>4 DEF Remaining

\* An event in the table may still happen, as often as its count says, and not
\* before what was asked for is over.
Running(i) == calling /\ slot = i
EventInv(i) ==
  events[i].type # "NONE" =>
    /\ timeLeft[i] <= Remaining(events[i], clock)
    /\ \/ events[i].repeat = -1 /\ timesLeft[i] = -1
       \/ /\ events[i].repeat > 0 /\ events[i].count < events[i].repeat
          /\ timesLeft[i] = (events[i].repeat - events[i].count) - (IF Running(i) THEN 1 ELSE 0)

EventsType ==
  /\ events \in [Slots -> EventRecord]
  /\ timeLeft \in [Slots -> Nat] /\ timesLeft \in [Slots -> Int]
  /\ now \in 0 .. Epoch - 1 /\ clock \in 0 .. Epoch - 1
  /\ slot \in Slots \cup { -1 } /\ calling \in BOOLEAN /\ early = FALSE

\* The event that update() looks at is not due before its time by the clock
\* that it read.
LookInv ==
  /\ calling => slot \in Slots /\ events[slot].type # "NONE"
  /\ slot \in Slots /\ ~calling /\ events[slot].type # "NONE" =>
       timeLeft[slot] <= Remaining(events[slot], now)

EventsInv == EventsType /\ (\A i \in Slots : EventInv(i)) /\ LookInv

LEMMA SlotsAre == Slots \subseteq Nat /\ 0 \in Slots /\ -1 \notin Slots
BY EventTimerAssumption DEF Slots

LEMMA FreeIsFree == ASSUME FreeSlots # {} PROVE FreeSlot \in Slots /\ events[FreeSlot].type = "NONE"
<1>. DEFINE R == OpToRel(<, Nat)
<1>1. R = { ss \in Nat \X Nat : ss[1] < ss[2] }
  BY DEF OpToRel
<1>2. IsWellFoundedOn(R, Nat)
  BY NatLessThanWellFounded
<1>3. FreeSlots \subseteq Nat
  BY SlotsAre DEF FreeSlots
<1>. HIDE DEF R
<1>4. PICK x \in FreeSlots : \A y \in FreeSlots : ~(<< y, x >> \in R)
  BY <1>2, <1>3, WFMin
<1>5. \A y \in FreeSlots : y \in Nat /\ x \in Nat /\ ~(y < x)
  BY <1>1, <1>3, <1>4
<1>6. \A y \in FreeSlots : x <= y
  BY <1>5
<1>7. FreeSlot \in FreeSlots
  BY <1>6 DEF FreeSlot
<1>. QED BY <1>7 DEF FreeSlots

LEMMA UnusedIs == Unused \in EventRecord /\ Unused.type = "NONE"
BY EventTimerAssumption DEF Unused, EventRecord

LEMMA EventsStart == TimerInit => EventsInv
<1>. SUFFICES ASSUME TimerInit PROVE EventsInv
  OBVIOUS
<1>1. EventsType
  <2>1. /\ events = [i \in Slots |-> Unused] /\ timeLeft = [i \in Slots |-> 0]
        /\ timesLeft = [i \in Slots |-> -1]
    BY DEF TimerInit
  <2>2. slot = -1 /\ calling = FALSE /\ now = 0 /\ clock = 0 /\ early = FALSE
    BY DEF TimerInit
  <2>3. 0 \in 0 .. Epoch - 1
    BY EventTimerAssumption
  <2>4. /\ events \in [Slots -> EventRecord] /\ timeLeft \in [Slots -> Nat]
        /\ timesLeft \in [Slots -> Int]
    BY <2>1, UnusedIs
  <2>. QED BY <2>2, <2>3, <2>4 DEF EventsType
<1>2. \A i \in Slots : events[i].type = "NONE"
  BY UnusedIs DEF TimerInit
<1>. QED BY <1>1, <1>2, SlotsAre DEF TimerInit, EventsInv, EventInv, LookInv

LEMMA CreateKeeps ==
  ASSUME EventsInv, NEW sort \in { "EVERY", "OSCILLATE" }, NEW period \in Nat, NEW repeat \in Int,
         repeat = -1 \/ repeat > 0, NEW state \in { 0, 1 }, Create(sort, period, repeat, state)
  PROVE  EventsInv'
<1>. DEFINE i == FreeSlot
            new == [type |-> sort, period |-> period, repeat |-> repeat, last |-> clock, count |-> 0,
                    state |-> state]
<1>1. /\ i \in Slots /\ events[i].type = "NONE"
      /\ slot = -1 \/ calling
      /\ events' = [events EXCEPT ![i] = new]
      /\ timeLeft' = [timeLeft EXCEPT ![i] = period] /\ timesLeft' = [timesLeft EXCEPT ![i] = repeat]
      /\ UNCHANGED << slot, calling, now, clock, early >>
  BY FreeIsFree DEF Create, Sketch
<1>2. EventsType
  BY DEF EventsInv
<1>3. new \in EventRecord /\ new.period = period /\ new.last = clock /\ new.type # "NONE"
      /\ new.repeat = repeat /\ new.count = 0
  BY <1>2 DEF EventRecord, EventsType
<1>4. Remaining(new, clock) = period
  <2>1. Since(clock, clock) = 0
    BY <1>2, SinceIs DEF EventsType
  <2>. QED BY <1>3, <2>1 DEF Remaining
<1>. HIDE DEF i, new
<1>5. EventsType'
  BY <1>1, <1>2, <1>3 DEF EventsType
<1>6. calling => slot # i
  BY <1>1 DEF EventsInv, LookInv
<1>7. ASSUME NEW j \in Slots PROVE EventInv(j)'
  <2>1. CASE j = i
    <3>1. events'[j] = new /\ timeLeft'[j] = period /\ timesLeft'[j] = repeat /\ ~Running(j)'
      BY <1>1, <1>2, <1>6, <2>1 DEF EventsType, Running
    <3>2. timeLeft'[j] <= Remaining(events'[j], clock')
      BY <1>1, <1>4, <3>1
    <3>3. \/ repeat = -1 /\ timesLeft'[j] = -1
          \/ repeat > 0 /\ 0 < repeat /\ timesLeft'[j] = (repeat - 0) - 0
      BY <3>1
    <3>. QED BY <1>3, <3>1, <3>2, <3>3 DEF EventInv
  <2>2. CASE j # i
    <3>1. events'[j] = events[j] /\ timeLeft'[j] = timeLeft[j] /\ timesLeft'[j] = timesLeft[j]
          /\ (Running(j)' <=> Running(j))
      BY <1>1, <1>2, <2>2 DEF EventsType, Running
    <3>. QED BY <1>1, <3>1 DEF EventsInv, EventInv, Remaining
  <2>. QED BY <2>1, <2>2
<1>8. LookInv'
  <2>1. calling' => slot' \in Slots /\ events'[slot'] = events[slot]
    BY <1>1, <1>2, <1>6 DEF EventsInv, EventsType, LookInv
  <2>2. slot' \notin Slots \/ calling'
    BY <1>1, SlotsAre
  <2>. QED BY <1>1, <2>1, <2>2 DEF EventsInv, LookInv
<1>. QED BY <1>5, <1>7, <1>8 DEF EventsInv

LEMMA StopKeeps == ASSUME EventsInv, NEW id \in EventIds, Stop(id) PROVE EventsInv'
<1>1. /\ id \in Slots /\ ~(calling /\ id = slot) /\ (slot = -1 \/ calling)
      /\ events' = [events EXCEPT ![id] = Unused]
      /\ UNCHANGED << slot, calling, now, clock, timeLeft, timesLeft, early >>
  BY DEF Stop, Sketch
<1>2. EventsType
  BY DEF EventsInv
<1>3. EventsType'
  BY <1>1, <1>2, UnusedIs DEF EventsType
<1>4. ASSUME NEW j \in Slots PROVE EventInv(j)'
  <2>1. CASE j = id
    <3>1. events'[j] = Unused
      BY <1>1, <1>2, <2>1 DEF EventsType
    <3>. QED BY <3>1, UnusedIs DEF EventInv
  <2>2. CASE j # id
    <3>1. events'[j] = events[j]
      BY <1>1, <1>2, <2>2 DEF EventsType
    <3>. QED BY <1>1, <3>1 DEF EventsInv, EventInv, Remaining, Running
  <2>. QED BY <2>1, <2>2
<1>5. LookInv'
  <2>1. calling' => slot' \in Slots /\ events'[slot'] = events[slot]
    BY <1>1, <1>2 DEF EventsInv, EventsType, LookInv
  <2>2. slot' \notin Slots \/ calling'
    BY <1>1, SlotsAre
  <2>. QED BY <1>1, <2>1, <2>2 DEF EventsInv, LookInv
<1>. QED BY <1>3, <1>4, <1>5 DEF EventsInv

\* update() goes to a slot and reads the clock.
LEMMA LookStarts ==
  ASSUME EventsType', \A i \in Slots : EventInv(i)', ~calling', slot' \in Slots => now' = clock'
  PROVE  EventsInv'
BY DEF EventsInv, LookInv, EventInv

LEMMA OnwardIs ==
  ASSUME Onward, EventsType
  PROVE  slot' \in Slots \cup { -1 } /\ now' \in 0 .. Epoch - 1 /\ (slot' \in Slots => now' = clock)
<1>1. slot' \in Slots \cup { -1 }
  BY DEF Onward
<1>2. now' \in 0 .. Epoch - 1
  BY EventTimerAssumption DEF Onward, EventsType
<1>. QED BY <1>1, <1>2, SlotsAre DEF Onward

LEMMA UpdateKeeps == ASSUME EventsInv, Update \/ Skip PROVE EventsInv'
<1>1. /\ slot' \in Slots \cup { -1 } /\ now' \in 0 .. Epoch - 1 /\ (slot' \in Slots => now' = clock)
      /\ UNCHANGED << events, calling, clock, timeLeft, timesLeft, early >>
      /\ ~calling
  BY OnwardIs, SlotsAre DEF Update, Skip, EventsInv, EventsType, LookInv
<1>2. EventsType'
  BY <1>1 DEF EventsInv, EventsType
<1>3. \A i \in Slots : EventInv(i)'
  BY <1>1 DEF EventsInv, EventInv, Remaining, Running
<1>. QED BY <1>1, <1>2, <1>3, LookStarts

\* The event that update() looks at, which changes or leaves the table.
LEMMA ReviewKeeps ==
  ASSUME EventsInv, slot \in Slots, ~calling', Onward, UNCHANGED clock, early' = FALSE,
         NEW event \in EventRecord, events' = [events EXCEPT ![slot] = event],
         timeLeft' \in [Slots -> Nat], timesLeft' \in [Slots -> Int],
         \A i \in Slots : i # slot => timeLeft'[i] = timeLeft[i] /\ timesLeft'[i] = timesLeft[i],
         event.type # "NONE" =>
           /\ timeLeft'[slot] <= Remaining(event, clock)
           /\ \/ event.repeat = -1 /\ timesLeft'[slot] = -1
              \/ event.repeat > 0 /\ event.count < event.repeat
                 /\ timesLeft'[slot] = event.repeat - event.count,
         calling' = FALSE
  PROVE  EventsInv'
<1>1. EventsType
  BY DEF EventsInv
<1>2. EventsType'
  BY <1>1, OnwardIs DEF EventsType
<1>3. ASSUME NEW i \in Slots PROVE EventInv(i)'
  <2>1. ~Running(i)'
    BY DEF Running
  <2>2. CASE i = slot
    <3>1. events'[i] = event
      BY <1>1, <2>2 DEF EventsType
    <3>2. event.repeat \in Int /\ event.count \in Nat
      BY DEF EventRecord
    <3>3. Remaining(events'[i], clock') = Remaining(event, clock)
      BY <3>1
    <3>4. event.type # "NONE" =>
            \/ event.repeat = -1 /\ timesLeft'[i] = -1
            \/ event.repeat > 0 /\ event.count < event.repeat
               /\ timesLeft'[i] = (event.repeat - event.count) - 0
      BY <2>2, <3>2
    <3>. QED BY <2>1, <2>2, <3>1, <3>3, <3>4 DEF EventInv
  <2>3. CASE i # slot
    <3>1. events'[i] = events[i] /\ ~Running(i)
      BY <1>1, <2>3 DEF EventsType, Running
    <3>2. Remaining(events'[i], clock') = Remaining(events[i], clock)
      BY <3>1
    <3>. QED BY <2>1, <2>3, <3>1, <3>2 DEF EventsInv, EventInv
  <2>. QED BY <2>2, <2>3
<1>4. slot' \in Slots => now' = clock'
  BY <1>1, OnwardIs
<1>. QED BY <1>2, <1>3, <1>4, LookStarts

LEMMA NotDueKeeps == ASSUME EventsInv, NotDue PROVE EventsInv'
<1>1. /\ slot \in Slots /\ ~calling /\ events[slot].type # "NONE"
      /\ events' = [events EXCEPT ![slot] = Reviewed(events[slot])]
      /\ Onward /\ UNCHANGED << calling, clock, timeLeft, timesLeft, early >>
  BY DEF NotDue, EventsInv, EventsType
<1>2. EventsType /\ EventInv(slot) /\ events[slot] \in EventRecord
  BY <1>1 DEF EventsInv, EventsType
<1>3. Reviewed(events[slot]) = events[slot]
  <2>1. events[slot].repeat = -1 \/ events[slot].count < events[slot].repeat
    BY <1>1, <1>2 DEF EventInv
  <2>2. events[slot].repeat \in Int /\ events[slot].count \in Nat
    BY <1>2 DEF EventRecord
  <2>3. ~Expired(events[slot])
    BY <2>1, <2>2 DEF Expired
  <2>. QED BY <2>3 DEF Reviewed
<1>4. \/ timesLeft[slot] = -1 /\ events[slot].repeat = -1
      \/ /\ events[slot].repeat > 0 /\ events[slot].count < events[slot].repeat
         /\ timesLeft[slot] = events[slot].repeat - events[slot].count
  <2>1. ~Running(slot)
    BY <1>1 DEF Running
  <2>2. events[slot].repeat \in Int /\ events[slot].count \in Nat
    BY <1>2 DEF EventRecord
  <2>. QED BY <1>1, <1>2, <2>1, <2>2 DEF EventInv
<1>5. timeLeft[slot] <= Remaining(events[slot], clock)
  BY <1>1, <1>2 DEF EventInv
<1>6. timeLeft' \in [Slots -> Nat] /\ timesLeft' \in [Slots -> Int] /\ ~calling' /\ early' = FALSE
      /\ calling' = FALSE
  BY <1>1, <1>2 DEF EventsType
<1>. QED BY <1>1, <1>2, <1>3, <1>4, <1>5, <1>6, ReviewKeeps

\* An event in the table that may happen again: what it says, while it does
\* not run.
LEMMA EventIs ==
  ASSUME EventsInv, NEW i \in Slots, events[i].type # "NONE"
  PROVE  /\ events[i] \in EventRecord /\ timeLeft[i] \in Nat /\ timesLeft[i] \in Int
         /\ \/ events[i].repeat = -1 /\ timesLeft[i] = -1
            \/ /\ events[i].repeat > 0 /\ events[i].count < events[i].repeat
               /\ timesLeft[i] + (IF Running(i) THEN 1 ELSE 0) = events[i].repeat - events[i].count
         /\ events[i].repeat \in Int /\ events[i].count \in Nat
<1>1. events[i] \in EventRecord /\ timeLeft[i] \in Nat /\ timesLeft[i] \in Int
  BY DEF EventsInv, EventsType
<1>2. events[i].repeat \in Int /\ events[i].count \in Nat
  BY <1>1 DEF EventRecord
<1>3. EventInv(i)
  BY DEF EventsInv
<1>. QED BY <1>1, <1>2, <1>3 DEF EventInv

\* An event that has happened: its period starts when update() read the clock,
\* and it leaves the table if that was the last time.
LEMMA HappenedIs ==
  ASSUME NEW event \in EventRecord, now \in 0 .. Epoch - 1, clock \in 0 .. Epoch - 1,
         NEW remain \in Int,
         \/ event.repeat = -1 /\ remain = -1
         \/ event.repeat > 0 /\ event.count < event.repeat /\ remain + 1 = event.repeat - event.count
  PROVE  /\ Happened(event) \in EventRecord
         /\ TimeRemaining(event.period) \in Nat
         /\ Happened(event).type # "NONE" =>
              /\ TimeRemaining(event.period) <= Remaining(Happened(event), clock)
              /\ \/ Happened(event).repeat = -1 /\ remain = -1
                 \/ /\ Happened(event).repeat > 0
                    /\ Happened(event).count < Happened(event).repeat
                    /\ remain = Happened(event).repeat - Happened(event).count
<1>. DEFINE new == [event EXCEPT !.last = now,
                                 !.count = IF event.repeat = -1 THEN 0 ELSE @ + 1]
<1>1. /\ event.period \in Nat /\ event.repeat \in Int /\ event.count \in Nat
  BY DEF EventRecord
<1>2. /\ new.period = event.period /\ new.repeat = event.repeat /\ new.last = now
      /\ new.count = IF event.repeat = -1 THEN 0 ELSE event.count + 1
      /\ new \in EventRecord
  <2>. DEFINE count == IF event.repeat = -1 THEN 0 ELSE event.count + 1
  <2>1. new = [event EXCEPT !.last = now, !.count = count]
    OBVIOUS
  <2>2. count \in Nat
    BY <1>1
  <2>. HIDE DEF count, new
  <2>3. /\ new.period = event.period /\ new.repeat = event.repeat /\ new.last = now
        /\ new.count = count
    BY <2>1 DEF EventRecord
  <2>4. new \in EventRecord
    BY <2>1, <2>2 DEF EventRecord
  <2>. QED BY <2>3, <2>4 DEF count
<1>3. Happened(event) = IF Expired(new) THEN Unused ELSE new
  BY DEF Happened, Reviewed
<1>. HIDE DEF new
<1>4. Remaining(new, clock) = TimeRemaining(event.period)
  BY <1>2 DEF Remaining, TimeRemaining, Since
<1>5. Remaining(new, clock) \in Nat
  BY <1>2, RemainingIs
<1>6. CASE Expired(new)
  BY <1>3, <1>4, <1>5, <1>6, UnusedIs
<1>7. CASE ~Expired(new)
  <2>1. ~(event.repeat > -1 /\ new.count >= event.repeat)
    BY <1>2, <1>7 DEF Expired
  <2>2. \/ event.repeat = -1 /\ remain = -1
        \/ event.repeat > 0 /\ new.count < event.repeat /\ remain = event.repeat - new.count
    BY <1>1, <1>2, <2>1
  <2>. QED BY <1>2, <1>3, <1>4, <1>5, <1>7, <2>2
<1>. QED BY <1>6, <1>7

\* What update() finds due is over, and was asked for once more.
LEMMA DueIsInTime ==
  ASSUME EventsInv, slot \in Slots, ~calling, events[slot].type # "NONE", IsDue(events[slot]), Happens
  PROVE  /\ early' = FALSE /\ timesLeft' \in [Slots -> Int]
         /\ \A i \in Slots : i # slot => timesLeft'[i] = timesLeft[i]
         /\ \/ events[slot].repeat = -1 /\ timesLeft'[slot] = -1
            \/ /\ events[slot].repeat > 0 /\ events[slot].count < events[slot].repeat
               /\ timesLeft'[slot] + 1 = events[slot].repeat - events[slot].count
<1>1. EventsType /\ LookInv
  BY DEF EventsInv
<1>2. events[slot] \in EventRecord /\ timeLeft[slot] \in Nat /\ timesLeft[slot] \in Int
      /\ events[slot].repeat \in Int /\ events[slot].count \in Nat
  BY EventIs
<1>3. ~Running(slot)
  BY DEF Running
<1>4. \/ events[slot].repeat = -1 /\ timesLeft[slot] = -1
      \/ /\ events[slot].repeat > 0 /\ events[slot].count < events[slot].repeat
         /\ timesLeft[slot] = events[slot].repeat - events[slot].count
  BY <1>2, <1>3, EventIs
<1>5. Remaining(events[slot], now) = 0
  BY <1>1, <1>2, DueIsOver DEF EventsType
<1>6. timeLeft[slot] = 0
  <2>1. timeLeft[slot] <= Remaining(events[slot], now)
    BY <1>1 DEF LookInv
  <2>. QED BY <1>2, <1>5, <2>1
<1>7. timesLeft' = [timesLeft EXCEPT ![slot] = IF @ > 0 THEN @ - 1 ELSE @]
      /\ early' = (early \/ timeLeft[slot] > 0 \/ timesLeft[slot] = 0)
  BY DEF Happens
<1>8. timesLeft[slot] # 0
  BY <1>2, <1>4
<1>9. early' = FALSE
  BY <1>1, <1>6, <1>7, <1>8 DEF EventsType
<1>10. timesLeft \in [Slots -> Int]
  BY <1>1 DEF EventsType
<1>11. /\ timesLeft' \in [Slots -> Int]
       /\ timesLeft'[slot] = IF timesLeft[slot] > 0 THEN timesLeft[slot] - 1 ELSE timesLeft[slot]
       /\ \A i \in Slots : i # slot => timesLeft'[i] = timesLeft[i]
  BY <1>2, <1>7, <1>10
<1>12. \/ events[slot].repeat = -1 /\ timesLeft'[slot] = -1
       \/ /\ events[slot].repeat > 0 /\ events[slot].count < events[slot].repeat
          /\ timesLeft'[slot] + 1 = events[slot].repeat - events[slot].count
  BY <1>2, <1>4, <1>11
<1>. QED BY <1>9, <1>11, <1>12

LEMMA ChangeKeeps == ASSUME EventsInv, Change PROVE EventsInv'
<1>. DEFINE event == [events[slot] EXCEPT !.state = 1 - events[slot].state]
            remain == timesLeft'[slot]
<1>1. /\ slot \in Slots /\ ~calling /\ events[slot].type # "NONE" /\ IsDue(events[slot]) /\ Happens
      /\ events' = [events EXCEPT ![slot] = Happened(event)]
      /\ timeLeft' = [timeLeft EXCEPT ![slot] = TimeRemaining(events[slot].period)]
      /\ Onward /\ UNCHANGED << calling, clock >>
  BY DEF Change, EventsInv, EventsType
<1>2. EventsType /\ events[slot] \in EventRecord
  BY <1>1 DEF EventsInv, EventsType
<1>3. event \in EventRecord /\ event.period = events[slot].period /\ event.repeat = events[slot].repeat
      /\ event.count = events[slot].count
  BY <1>2 DEF EventRecord
<1>4. /\ early' = FALSE /\ timesLeft' \in [Slots -> Int] /\ remain \in Int
      /\ \A i \in Slots : i # slot => timesLeft'[i] = timesLeft[i]
      /\ \/ event.repeat = -1 /\ remain = -1
         \/ event.repeat > 0 /\ event.count < event.repeat /\ remain + 1 = event.repeat - event.count
  BY <1>1, <1>3, DueIsInTime
<1>. HIDE DEF event, remain
<1>5. now \in 0 .. Epoch - 1 /\ clock \in 0 .. Epoch - 1
  BY <1>2 DEF EventsType
<1>6. /\ Happened(event) \in EventRecord
      /\ TimeRemaining(event.period) \in Nat
      /\ Happened(event).type # "NONE" =>
           /\ TimeRemaining(event.period) <= Remaining(Happened(event), clock)
           /\ \/ Happened(event).repeat = -1 /\ remain = -1
              \/ /\ Happened(event).repeat > 0
                 /\ Happened(event).count < Happened(event).repeat
                 /\ remain = Happened(event).repeat - Happened(event).count
  BY <1>3, <1>4, <1>5, HappenedIs
<1>7. /\ timeLeft' \in [Slots -> Nat] /\ timeLeft'[slot] = TimeRemaining(event.period)
      /\ \A i \in Slots : i # slot => timeLeft'[i] = timeLeft[i]
      /\ calling' = FALSE
  BY <1>1, <1>2, <1>3, <1>6 DEF EventsType
<1>8. Happened(event).type # "NONE" =>
        /\ timeLeft'[slot] <= Remaining(Happened(event), clock)
        /\ \/ Happened(event).repeat = -1 /\ timesLeft'[slot] = -1
           \/ Happened(event).repeat > 0 /\ Happened(event).count < Happened(event).repeat
              /\ timesLeft'[slot] = Happened(event).repeat - Happened(event).count
  BY <1>6, <1>7 DEF remain
<1>. QED BY <1>1, <1>4, <1>6, <1>7, <1>8, ReviewKeeps

LEMMA CallKeeps == ASSUME EventsInv, Call PROVE EventsInv'
<1>1. /\ slot \in Slots /\ ~calling /\ events[slot].type # "NONE" /\ IsDue(events[slot]) /\ Happens
      /\ calling' = TRUE /\ UNCHANGED << events, slot, now, clock, timeLeft >>
  BY DEF Call, EventsInv, EventsType
<1>2. EventsType
  BY DEF EventsInv
<1>3. /\ early' = FALSE /\ timesLeft' \in [Slots -> Int]
      /\ \A i \in Slots : i # slot => timesLeft'[i] = timesLeft[i]
      /\ \/ events[slot].repeat = -1 /\ timesLeft'[slot] = -1
         \/ /\ events[slot].repeat > 0 /\ events[slot].count < events[slot].repeat
            /\ timesLeft'[slot] + 1 = events[slot].repeat - events[slot].count
  BY <1>1, DueIsInTime
<1>4. EventsType'
  BY <1>1, <1>2, <1>3 DEF EventsType
<1>5. ASSUME NEW i \in Slots PROVE EventInv(i)'
  <2>1. EventInv(i) /\ events'[i] = events[i] /\ timeLeft'[i] = timeLeft[i]
        /\ Remaining(events'[i], clock') = Remaining(events[i], clock)
    BY <1>1 DEF EventsInv
  <2>2. CASE i # slot
    <3>1. timesLeft'[i] = timesLeft[i] /\ ~Running(i) /\ ~Running(i)'
      BY <1>1, <1>3, <2>2 DEF Running
    <3>. QED BY <2>1, <3>1 DEF EventInv
  <2>3. CASE i = slot
    <3>1. Running(i)'
      BY <1>1, <2>3 DEF Running
    <3>2. events[i].repeat \in Int /\ events[i].count \in Nat /\ timesLeft'[i] \in Int
      BY <1>1, <1>3, <2>3, EventIs
    <3>3. \/ events[i].repeat = -1 /\ timesLeft'[i] = -1
          \/ /\ events[i].repeat > 0 /\ events[i].count < events[i].repeat
             /\ timesLeft'[i] = (events[i].repeat - events[i].count) - 1
      BY <1>3, <2>3, <3>2
    <3>. QED BY <2>1, <3>1, <3>3 DEF EventInv
  <2>. QED BY <2>2, <2>3
<1>. QED BY <1>1, <1>4, <1>5 DEF EventsInv, LookInv

LEMMA CallReturnsKeeps == ASSUME EventsInv, CallReturns PROVE EventsInv'
<1>. DEFINE event == events[slot]
            remain == timesLeft[slot]
<1>1. /\ slot \in Slots /\ calling /\ event.type # "NONE"
      /\ events' = [events EXCEPT ![slot] = Happened(event)]
      /\ timeLeft' = [timeLeft EXCEPT ![slot] = TimeRemaining(event.period)]
      /\ Onward /\ calling' = FALSE /\ UNCHANGED << clock, timesLeft, early >>
  BY DEF CallReturns, EventsInv, LookInv
<1>2. EventsType
  BY DEF EventsInv
<1>3. Running(slot)
  BY <1>1 DEF Running
<1>4. /\ event \in EventRecord /\ remain \in Int
      /\ \/ event.repeat = -1 /\ remain = -1
         \/ event.repeat > 0 /\ event.count < event.repeat /\ remain + 1 = event.repeat - event.count
  BY <1>1, <1>3, EventIs
<1>. HIDE DEF event, remain
<1>5. now \in 0 .. Epoch - 1 /\ clock \in 0 .. Epoch - 1
  BY <1>2 DEF EventsType
<1>6. /\ Happened(event) \in EventRecord
      /\ TimeRemaining(event.period) \in Nat
      /\ Happened(event).type # "NONE" =>
           /\ TimeRemaining(event.period) <= Remaining(Happened(event), clock)
           /\ \/ Happened(event).repeat = -1 /\ remain = -1
              \/ /\ Happened(event).repeat > 0
                 /\ Happened(event).count < Happened(event).repeat
                 /\ remain = Happened(event).repeat - Happened(event).count
  BY <1>4, <1>5, HappenedIs
<1>7. /\ timeLeft' \in [Slots -> Nat] /\ timeLeft'[slot] = TimeRemaining(event.period)
      /\ \A i \in Slots : i # slot => timeLeft'[i] = timeLeft[i] /\ timesLeft'[i] = timesLeft[i]
      /\ timesLeft' \in [Slots -> Int] /\ early' = FALSE
  BY <1>1, <1>2, <1>6 DEF EventsType
<1>8. Happened(event).type # "NONE" =>
        /\ timeLeft'[slot] <= Remaining(Happened(event), clock)
        /\ \/ Happened(event).repeat = -1 /\ timesLeft'[slot] = -1
           \/ Happened(event).repeat > 0 /\ Happened(event).count < Happened(event).repeat
              /\ timesLeft'[slot] = Happened(event).repeat - Happened(event).count
  BY <1>1, <1>6, <1>7 DEF remain
<1>. QED BY <1>1, <1>6, <1>7, <1>8, ReviewKeeps

LEMMA MillisecondKeeps == ASSUME EventsInv, Millisecond PROVE EventsInv'
<1>1. /\ clock' = (clock + 1) % Epoch
      /\ timeLeft' = [i \in Slots |-> IF timeLeft[i] > 0 THEN timeLeft[i] - 1 ELSE 0]
      /\ UNCHANGED << events, slot, calling, now, timesLeft, early >>
  BY DEF Millisecond
<1>2. EventsType
  BY DEF EventsInv
<1>3. clock' \in 0 .. Epoch - 1
  BY <1>1, <1>2, ClockAdvances DEF EventsType
<1>4. /\ timeLeft' \in [Slots -> Nat]
      /\ \A i \in Slots : /\ timeLeft[i] \in Nat /\ timeLeft'[i] \in Nat
                          /\ timeLeft'[i] = IF timeLeft[i] > 0 THEN timeLeft[i] - 1 ELSE 0
  BY <1>1, <1>2 DEF EventsType
<1>5. EventsType'
  BY <1>1, <1>2, <1>3, <1>4 DEF EventsType
<1>6. ASSUME NEW i \in Slots PROVE EventInv(i)'
  <2>1. EventInv(i) /\ events'[i] = events[i] /\ timesLeft'[i] = timesLeft[i]
        /\ (Running(i)' <=> Running(i))
    BY <1>1 DEF EventsInv, Running
  <2>2. SUFFICES ASSUME events[i].type # "NONE" PROVE EventInv(i)'
    BY <2>1 DEF EventInv
  <2>3. events[i] \in EventRecord /\ clock \in 0 .. Epoch - 1
    BY <1>2 DEF EventsType
  <2>4. /\ Remaining(events[i], clock) \in Nat /\ Remaining(events[i], clock') \in Nat
        /\ Remaining(events[i], clock) <= Remaining(events[i], clock') + 1
    BY <1>1, <2>3, RemainingIs
  <2>5. timeLeft[i] <= Remaining(events[i], clock)
    BY <2>1, <2>2 DEF EventInv
  <2>6. timeLeft'[i] <= Remaining(events[i], clock')
    BY <1>4, <2>4, <2>5
  <2>7. Remaining(events'[i], clock') = Remaining(events[i], clock')
    BY <2>1
  <2>. QED BY <2>1, <2>6, <2>7 DEF EventInv
<1>7. LookInv'
  <2>1. SUFFICES ASSUME slot \in Slots, ~calling, events[slot].type # "NONE"
                 PROVE  timeLeft'[slot] <= Remaining(events[slot], now)
    BY <1>1 DEF EventsInv, LookInv
  <2>2. timeLeft[slot] <= Remaining(events[slot], now)
    BY <2>1 DEF EventsInv, LookInv
  <2>3. Remaining(events[slot], now) \in Nat
    BY <1>2, <2>1, RemainingIs DEF EventsType
  <2>. QED BY <1>4, <2>1, <2>2, <2>3
<1>. QED BY <1>5, <1>6, <1>7 DEF EventsInv

LEMMA EventsStep == ASSUME EventsInv, [TimerNext]_timerVars PROVE EventsInv'
<1>. USE DEF TimerNext
<1>1. ASSUME NEW p \in Periods, NEW r \in Repeats, Every(p, r) PROVE EventsInv'
  <2>1. p \in Nat /\ r \in Int /\ (r = -1 \/ r > 0)
    BY EventTimerAssumption
  <2>2. Create("EVERY", p, r, 0)
    BY <1>1 DEF Every
  <2>. QED BY <2>1, <2>2, CreateKeeps
<1>2. ASSUME NEW p \in Periods, NEW r \in Repeats, NEW v \in { 0, 1 }, r > 0, Oscillate(p, r, v)
      PROVE EventsInv'
  <2>1. p \in Nat /\ r \in Int /\ r > 0
    BY <1>2, EventTimerAssumption
  <2>2. PICK changes \in { r * 2, 1 } : Create("OSCILLATE", p, changes, v)
    BY <1>2 DEF Oscillate
  <2>3. changes \in Int /\ changes > 0
    BY <2>1, <2>2
  <2>. QED BY <2>1, <2>2, <2>3, CreateKeeps
<1>3. ASSUME NEW id \in EventIds, Stop(id) PROVE EventsInv'
  BY <1>3, StopKeeps
<1>4. CASE Update
  BY <1>4, UpdateKeeps
<1>5. CASE Skip
  BY <1>5, UpdateKeeps
<1>6. CASE NotDue
  BY <1>6, NotDueKeeps
<1>7. CASE Change
  BY <1>7, ChangeKeeps
<1>8. CASE Call
  BY <1>8, CallKeeps
<1>9. CASE CallReturns
  BY <1>9, CallReturnsKeeps
<1>10. CASE Millisecond
  BY <1>10, MillisecondKeeps
<1>11. CASE UNCHANGED timerVars
  BY <1>11 DEF timerVars, EventsInv, EventsType, EventInv, LookInv, Running, Remaining
<1>. QED BY <1>1, <1>2, <1>3, <1>4, <1>5, <1>6, <1>7, <1>8, <1>9, <1>10, <1>11

\* Between two updates no event of the table has happened as often as it may.
LEMMA EventsKept == EventsInv => OnTime /\ SlotsReturn
<1>. SUFFICES ASSUME EventsInv PROVE OnTime /\ SlotsReturn
  OBVIOUS
<1>1. OnTime
  BY DEF EventsInv, EventsType, OnTime
<1>2. ASSUME slot = -1, NEW i \in Slots, events[i].type # "NONE" PROVE timesLeft[i] # 0
  <2>1. ~Running(i)
    BY <1>2, SlotsAre DEF Running
  <2>. QED BY <1>2, <2>1, EventIs
<1>. QED BY <1>1, <1>2 DEF SlotsReturn

\* No event happens before its period is over or more often than it was asked
\* to, and its slot is free once it has happened that often, for every number of
\* slots, every length of the clock and all periods and repetitions
\* (Timer.cpp:120-131, Event.cpp:37-60).
THEOREM EventsAreOnTime == TimerSpec => [](OnTime /\ SlotsReturn)
BY EventsStart, EventsStep, EventsKept, PTL DEF TimerSpec

-----------------------------------------------------------------------------
(* The servos.                                                             *)

(* The match is ahead of the timer: at most a pulse for each servo of the  *)
(* round so far, and in the pause no sooner than the refresh interval.     *)
MatchAhead ==
  /\ tcnt1 <= ocr1a
  /\ channel = 0 \/ channel < ServoCount
  /\ running => ServoCount > 0
  /\ channel >= 0 => \E w \in Widths : ocr1a <= (channel + 1) * w
  /\ channel = -1 => ocr1a >= RefreshInterval

(* What is left of a pulse that nothing disturbed is what is left to the   *)
(* match, and its servo is active.                                         *)
PulseRuns ==
  /\ goal < TimerTop /\ lasted <= goal
  /\ whole => channel \in Servos /\ isActive[channel] /\ tcnt1 + goal = ocr1a + lasted

(* The round is as old as the timer says, or older than it matters. *)
RoundAges == rest = RefreshInterval \/ tcnt1 <= rest

ServoInv == ServoTypeOK /\ MatchAhead /\ PulseRuns /\ RoundAges

LEMMA ServoFacts ==
  /\ ServoCount \in Nat /\ ServoCount <= SERVOS_PER_TIMER /\ SERVOS_PER_TIMER \in Nat
  /\ RefreshInterval \in Nat /\ RefreshInterval > 0 /\ Margin \in Nat
  /\ TimerTop \in Nat /\ RefreshInterval < TimerTop
  /\ \A w \in Widths : w \in Nat /\ w > 0 /\ ServoCount * w + Margin < TimerTop
  /\ DefaultWidth \in Widths
BY ServoAssumption

LEMMA NoWrap == ASSUME NEW N \in Nat, NEW x \in 0 .. N - 1 PROVE x % N = x
OBVIOUS

(* A round's matches stay below the top: k servos with pulses of at most w, *)
(* and one more.                                                           *)
LEMMA RoundsFit ==
  ASSUME NEW k \in Nat, NEW v \in Widths, NEW w \in Widths, NEW x \in Nat,
         x <= k * v, k + 1 <= ServoCount
  PROVE  /\ \E u \in Widths : x + w <= (k + 1) * u
         /\ x + w + Margin < TimerTop
<1>1. v \in Nat /\ w \in Nat /\ ServoCount \in Nat
  BY ServoFacts
<1>2. PICK u \in Widths : v <= u /\ w <= u
  <2>1. CASE v <= w
    BY <1>1, <2>1
  <2>2. CASE ~(v <= w)
    BY <1>1, <2>2
  <2>. QED BY <2>1, <2>2
<1>3. u \in Nat /\ ServoCount * u + Margin < TimerTop /\ Margin \in Nat /\ TimerTop \in Nat
  BY ServoFacts
<1>4. k * v <= k * u /\ k * v \in Nat /\ k * u \in Nat
  BY <1>1, <1>2, <1>3
<1>5. (k + 1) * u = k * u + u
  BY <1>3
<1>6. (k + 1) * u <= ServoCount * u /\ ServoCount * u \in Nat
  BY <1>1, <1>3
<1>7. x + w <= (k + 1) * u
  BY <1>1, <1>2, <1>3, <1>4, <1>5
<1>. QED BY <1>1, <1>3, <1>4, <1>5, <1>6, <1>7

LEMMA ServoStart == ServoInit => ServoInv
<1>. SUFFICES ASSUME ServoInit PROVE ServoInv
  OBVIOUS
<1>1. 0 <= (0 + 1) * DefaultWidth
  BY ServoFacts
<1>2. MatchAhead
  BY <1>1, ServoFacts DEF ServoInit, MatchAhead
<1>3. ServoTypeOK
  <2>1. 0 \in -1 .. SERVOS_PER_TIMER /\ 0 \in 0 .. TimerTop - 1 /\ 0 \in 0 .. TimerTop
        /\ RefreshInterval \in 0 .. RefreshInterval
    BY ServoFacts
  <2>. QED BY <2>1, ServoFacts DEF ServoInit, ServoTypeOK
<1>4. PulseRuns /\ RoundAges
  BY ServoFacts DEF ServoInit, PulseRuns, RoundAges
<1>. QED BY <1>2, <1>3, <1>4 DEF ServoInv

LEMMA ServoTypes ==
  ASSUME ServoInv
  PROVE  /\ channel \in -1 .. SERVOS_PER_TIMER /\ channel \in Int
         /\ tcnt1 \in Nat /\ ocr1a \in Nat /\ ocr1a < TimerTop /\ tcnt1 < TimerTop
         /\ lasted \in Nat /\ goal \in Nat /\ rest \in Nat /\ rest <= RefreshInterval
         /\ isActive \in [Servos -> BOOLEAN] /\ ticks \in [Servos -> Widths]
         /\ high \subseteq Servos /\ attaching \in Servos \cup { None }
         /\ running \in BOOLEAN /\ whole \in BOOLEAN
BY ServoFacts DEF ServoInv, ServoTypeOK

(* The next pulse begins. *)
LEMMA PulseBegins == ASSUME ServoInv, NextChannel PROVE ServoInv'
<1>t. /\ channel \in -1 .. SERVOS_PER_TIMER /\ channel \in Int
      /\ tcnt1 \in Nat /\ ocr1a \in Nat /\ rest \in Nat /\ rest <= RefreshInterval
      /\ isActive \in [Servos -> BOOLEAN] /\ ticks \in [Servos -> Widths] /\ high \subseteq Servos
  BY ServoTypes
<1>1. /\ tcnt1 = ocr1a /\ channel' = channel + 1 /\ channel' \in Servos
      /\ tcnt1' = TimeNow /\ ocr1a' = (TimeNow + ticks[channel']) % TimerTop
      /\ lasted' = 0 /\ rest' = IF channel' = 0 THEN 0 ELSE rest
      /\ UNCHANGED << running, isActive, ticks, attaching >>
      /\ \/ isActive[channel'] /\ goal' = ticks[channel'] /\ whole' = TRUE /\ high' = Ended \cup { channel' }
         \/ goal' = 0 /\ whole' = FALSE /\ high' = Ended
  BY DEF NextChannel, Match
<1>2. /\ channel + 1 \in Nat /\ (channel + 1) + 1 <= ServoCount /\ ServoCount \in Nat
      /\ channel' \in Nat /\ channel' < ServoCount
  BY <1>t, <1>1, ServoFacts DEF Servos
<1>3. ticks[channel'] \in Widths /\ ticks[channel'] \in Nat
  BY <1>t, <1>1, ServoFacts
<1>4. PICK v \in Widths : TimeNow \in Nat /\ TimeNow <= (channel + 1) * v
  <2>1. CASE channel < 0
    <3>1. (channel + 1) * DefaultWidth = 0
      BY <1>t, <2>1, ServoFacts
    <3>. QED BY <2>1, <3>1, ServoFacts DEF TimeNow
  <2>2. CASE ~(channel < 0)
    BY <1>t, <1>1, <2>2 DEF TimeNow, ServoInv, MatchAhead
  <2>. QED BY <2>1, <2>2
<1>5. /\ \E u \in Widths : TimeNow + ticks[channel'] <= (channel' + 1) * u
      /\ TimeNow + ticks[channel'] + Margin < TimerTop
  BY <1>1, <1>2, <1>3, <1>4, RoundsFit
<1>. DEFINE moment == TimeNow
            width == ticks[channel']
<1>6. ocr1a' = moment + width /\ ocr1a' \in 0 .. TimerTop - 1 /\ moment \in 0 .. TimerTop - 1
      /\ tcnt1' <= ocr1a' /\ width < TimerTop
  <2>1. moment \in Nat /\ width \in Nat /\ moment + width + Margin < TimerTop /\ Margin \in Nat /\ TimerTop \in Nat
        /\ ocr1a' = (moment + width) % TimerTop /\ tcnt1' = moment
    BY <1>1, <1>3, <1>4, <1>5, ServoFacts
  <2>. HIDE DEF moment, width
  <2>2. moment + width \in 0 .. TimerTop - 1
    BY <2>1
  <2>3. (moment + width) % TimerTop = moment + width
    BY <2>1, <2>2
  <2>. QED BY <2>1, <2>2, <2>3
<1>7. MatchAhead'
  BY <1>1, <1>2, <1>5, <1>6, ServoFacts DEF MatchAhead
<1>8. PulseRuns'
  <2>1. (whole => channel \in Servos /\ isActive[channel] /\ tcnt1 + goal = ocr1a + lasted)'
    BY <1>1, <1>3, <1>4, <1>6
  <2>2. goal' < TimerTop /\ lasted' <= goal'
    BY <1>1, <1>3, <1>6, ServoFacts
  <2>. QED BY <2>1, <2>2 DEF PulseRuns
<1>9. RoundAges'
  <2>1. CASE channel' = 0
    <3>1. tcnt1' = 0 /\ rest' = 0
      BY <1>t, <1>1, <2>1 DEF TimeNow
    <3>. QED BY <3>1 DEF RoundAges
  <2>2. CASE channel' # 0
    <3>1. tcnt1' = tcnt1 /\ rest' = rest
      BY <1>t, <1>1, <1>2, <2>2 DEF TimeNow
    <3>. QED BY <3>1 DEF RoundAges, ServoInv
  <2>. QED BY <2>1, <2>2
<1>10. ServoTypeOK'
  <2>1. channel' \in -1 .. SERVOS_PER_TIMER /\ rest' \in 0 .. RefreshInterval
    BY <1>t, <1>1, <1>2, ServoFacts
  <2>2. tcnt1' \in 0 .. TimerTop - 1 /\ ocr1a' \in 0 .. TimerTop - 1
    BY <1>1, <1>6
  <2>3. goal' \in 0 .. TimerTop /\ lasted' \in 0 .. TimerTop
    BY <1>1, <1>3, <1>6, ServoFacts
  <2>4. high' \subseteq Servos
    BY <1>t, <1>1 DEF Ended
  <2>. QED BY <1>1, <2>1, <2>2, <2>3, <2>4 DEF ServoTypeOK, ServoInv
<1>. QED BY <1>7, <1>8, <1>9, <1>10 DEF ServoInv

(* The round is over, and the pause begins. *)
LEMMA PauseBegins == ASSUME ServoInv, Refresh PROVE ServoInv'
<1>t. /\ channel \in -1 .. SERVOS_PER_TIMER /\ channel \in Int
      /\ tcnt1 \in Nat /\ ocr1a \in Nat /\ rest \in Nat /\ rest <= RefreshInterval
      /\ tcnt1 < TimerTop /\ high \subseteq Servos
  BY ServoTypes
<1>1. /\ running /\ tcnt1 = ocr1a /\ channel + 1 \notin Servos /\ channel' = -1 /\ tcnt1' = TimeNow
      /\ ocr1a' = IF TimeNow + Margin < RefreshInterval THEN RefreshInterval
                  ELSE (TimeNow + Margin) % TimerTop
      /\ high' = Ended /\ whole' = FALSE /\ goal' = 0 /\ lasted' = 0
      /\ UNCHANGED << running, isActive, ticks, attaching, rest >>
  BY DEF Refresh, Match
<1>2. ServoCount > 0 /\ (channel = 0 \/ channel < ServoCount) /\ ServoCount \in Nat
  BY <1>1, ServoFacts DEF ServoInv, MatchAhead
<1>3. channel >= 0
  BY <1>t, <1>1, <1>2 DEF Servos
<1>4. PICK v \in Widths : tcnt1 <= (channel + 1) * v
  BY <1>1, <1>3 DEF ServoInv, MatchAhead
<1>5. tcnt1 + Margin < TimerTop /\ TimeNow = tcnt1
  <2>1. (channel + 1) * v <= ServoCount * v /\ ServoCount * v + Margin < TimerTop /\ v \in Nat
    BY <1>t, <1>2, <1>3, ServoFacts
  <2>2. (channel + 1) * v \in Int /\ ServoCount * v \in Int
    BY <1>t, <1>2, <2>1
  <2>. QED BY <1>t, <1>3, <1>4, <2>1, <2>2, ServoFacts DEF TimeNow
<1>6. /\ ocr1a' \in 0 .. TimerTop - 1 /\ ocr1a' >= RefreshInterval /\ tcnt1' <= ocr1a' /\ tcnt1' = tcnt1
  <2>. tcnt1 + Margin \in 0 .. TimerTop - 1
    BY <1>t, <1>5, ServoFacts
  <2>1. (tcnt1 + Margin) % TimerTop = tcnt1 + Margin
    BY NoWrap, ServoFacts
  <2>. QED BY <1>t, <1>1, <1>5, <2>1, ServoFacts
<1>7. MatchAhead'
  BY <1>1, <1>2, <1>6 DEF MatchAhead
<1>8. PulseRuns' /\ RoundAges'
  BY <1>1, <1>6, ServoFacts DEF PulseRuns, RoundAges, ServoInv
<1>9. ServoTypeOK'
  <2>1. -1 \in -1 .. SERVOS_PER_TIMER /\ 0 \in 0 .. TimerTop /\ tcnt1' \in 0 .. TimerTop - 1
    BY <1>t, <1>6, ServoFacts
  <2>2. high' \subseteq Servos
    BY <1>t, <1>1 DEF Ended
  <2>. QED BY <1>1, <1>6, <2>1, <2>2 DEF ServoTypeOK, ServoInv
<1>. QED BY <1>7, <1>8, <1>9 DEF ServoInv

LEMMA ServoTicks == ASSUME ServoInv, Tick PROVE ServoInv'
<1>t. /\ channel \in Int /\ tcnt1 \in Nat /\ ocr1a \in Nat /\ rest \in Nat /\ rest <= RefreshInterval
      /\ lasted \in Nat /\ goal \in Nat /\ ocr1a < TimerTop
  BY ServoTypes
<1>1. /\ running /\ tcnt1 # ocr1a /\ tcnt1' = (tcnt1 + 1) % TimerTop
      /\ lasted' = IF whole THEN lasted + 1 ELSE 0
      /\ rest' = IF rest < RefreshInterval THEN rest + 1 ELSE rest
      /\ UNCHANGED << channel, ocr1a, running, isActive, ticks, high, attaching, goal, whole >>
  BY DEF Tick, Match
<1>2. tcnt1 < ocr1a /\ tcnt1' = tcnt1 + 1
  <2>1. tcnt1 < ocr1a
    BY <1>t, <1>1 DEF ServoInv, MatchAhead
  <2>2. tcnt1 + 1 \in 0 .. TimerTop - 1
    BY <1>t, <2>1, ServoFacts
  <2>3. (tcnt1 + 1) % TimerTop = tcnt1 + 1
    BY <2>2, NoWrap, ServoFacts
  <2>. QED BY <1>1, <2>1, <2>3
<1>3. MatchAhead'
  BY <1>t, <1>1, <1>2 DEF ServoInv, MatchAhead
<1>4. PulseRuns'
  <2>1. CASE whole
    <3>1. channel \in Servos /\ isActive[channel] /\ tcnt1 + goal = ocr1a + lasted /\ goal < TimerTop
      BY <2>1 DEF ServoInv, PulseRuns
    <3>2. lasted' = lasted + 1 /\ lasted' <= goal /\ tcnt1' + goal = ocr1a + lasted'
      BY <1>t, <1>1, <1>2, <2>1, <3>1
    <3>. QED BY <1>1, <3>1, <3>2 DEF PulseRuns
  <2>2. CASE ~whole
    BY <1>t, <1>1, <2>2 DEF ServoInv, PulseRuns
  <2>. QED BY <2>1, <2>2
<1>5. RoundAges' /\ rest' \in 0 .. RefreshInterval
  BY <1>t, <1>1, <1>2, ServoFacts DEF ServoInv, RoundAges
<1>6. ServoTypeOK'
  <2>1. tcnt1' \in 0 .. TimerTop - 1 /\ lasted' \in 0 .. TimerTop
    <3>1. lasted' \in Nat /\ lasted' <= goal /\ goal < TimerTop
      BY <1>t, <1>1, <1>4 DEF PulseRuns
    <3>. QED BY <1>t, <1>2, <3>1, ServoFacts
  <2>. QED BY <1>1, <1>5, <2>1 DEF ServoTypeOK, ServoInv
<1>. QED BY <1>3, <1>4, <1>5, <1>6 DEF ServoInv

(* What the sketch does. *)
LEMMA SketchServes ==
  ASSUME ServoInv,
         MarkActive \/ \E s \in Servos : Attach(s) \/ Detach(s) \/ \E w \in Widths : writeMicroseconds(s, w)
  PROVE  ServoInv'
<1>t. /\ channel \in Int /\ tcnt1 \in Nat /\ ocr1a \in Nat /\ rest \in Nat
      /\ isActive \in [Servos -> BOOLEAN] /\ ticks \in [Servos -> Widths] /\ attaching \in Servos \cup { None }
  BY ServoTypes
<1>1. ASSUME NEW s \in Servos, Attach(s) PROVE ServoInv'
  <2>1. /\ tcnt1' \in { tcnt1, 0 } /\ running' \in { running, TRUE } /\ attaching' = s
        /\ whole' = (whole /\ tcnt1' = tcnt1)
        /\ UNCHANGED << channel, ocr1a, isActive, ticks, high, goal, lasted, rest >>
    BY <1>1 DEF Attach
  <2>2. ServoCount > 0 /\ 0 \in 0 .. TimerTop - 1
    BY ServoFacts DEF Servos
  <2>3. MatchAhead' /\ RoundAges'
    BY <1>t, <2>1, <2>2 DEF ServoInv, MatchAhead, RoundAges
  <2>4. PulseRuns'
    BY <2>1 DEF ServoInv, PulseRuns
  <2>5. ServoTypeOK'
    BY <2>1, <2>2 DEF ServoInv, ServoTypeOK
  <2>. QED BY <2>3, <2>4, <2>5 DEF ServoInv
<1>2. CASE MarkActive
  <2>1. /\ attaching \in Servos /\ isActive' = [isActive EXCEPT ![attaching] = TRUE]
        /\ whole' = (whole /\ channel # attaching) /\ attaching' = None
        /\ UNCHANGED << channel, tcnt1, ocr1a, running, ticks, high, goal, lasted, rest >>
    BY <1>2, <1>t DEF MarkActive
  <2>2. MatchAhead' /\ RoundAges'
    BY <2>1 DEF ServoInv, MatchAhead, RoundAges
  <2>3. PulseRuns'
    BY <1>t, <2>1 DEF ServoInv, PulseRuns
  <2>4. ServoTypeOK'
    BY <1>t, <2>1 DEF ServoInv, ServoTypeOK
  <2>. QED BY <2>2, <2>3, <2>4 DEF ServoInv
<1>3. ASSUME NEW s \in Servos, Detach(s) PROVE ServoInv'
  <2>1. /\ isActive' = [isActive EXCEPT ![s] = FALSE] /\ whole' = (whole /\ channel # s)
        /\ UNCHANGED << channel, tcnt1, ocr1a, running, ticks, high, attaching, goal, lasted, rest >>
    BY <1>3 DEF Detach
  <2>2. MatchAhead' /\ RoundAges'
    BY <2>1 DEF ServoInv, MatchAhead, RoundAges
  <2>3. PulseRuns'
    BY <1>t, <2>1 DEF ServoInv, PulseRuns
  <2>4. ServoTypeOK'
    BY <1>t, <2>1 DEF ServoInv, ServoTypeOK
  <2>. QED BY <2>2, <2>3, <2>4 DEF ServoInv
<1>4. ASSUME NEW s \in Servos, NEW w \in Widths, writeMicroseconds(s, w) PROVE ServoInv'
  BY <1>t, <1>4 DEF writeMicroseconds, ServoInv, ServoTypeOK, MatchAhead, PulseRuns, RoundAges
<1>. QED BY <1>1, <1>2, <1>3, <1>4

LEMMA ServoStep == ASSUME ServoInv, [ServoNext]_servoVars PROVE ServoInv'
<1>1. CASE UNCHANGED servoVars
  BY <1>1 DEF servoVars, ServoInv, ServoTypeOK, MatchAhead, PulseRuns, RoundAges
<1>. QED BY <1>1, PulseBegins, PauseBegins, ServoTicks, SketchServes DEF ServoNext

(* A pulse that was not disturbed has lasted as long as it should when its *)
(* channel is left, and a round begins a refresh interval after the last.  *)
LEMMA PulseEnds ==
  ASSUME ServoInv, [ServoNext]_servoVars
  PROVE  [/\ whole /\ channel' # channel => lasted = goal /\ channel \notin high'
          /\ rest' = 0 /\ rest # 0 => rest = RefreshInterval]_servoVars
<1>t. /\ channel \in Int /\ tcnt1 \in Nat /\ ocr1a \in Nat /\ rest \in Nat /\ rest <= RefreshInterval
      /\ lasted \in Nat /\ goal \in Nat
  BY ServoTypes
<1>1. CASE NextChannel \/ Refresh
  <2>1. tcnt1 = ocr1a
    BY <1>1 DEF NextChannel, Refresh, Match
  <2>2. whole => lasted = goal /\ channel \notin Ended
    BY <1>t, <2>1 DEF ServoInv, PulseRuns, Ended
  <2>3. high' \subseteq Ended \cup { channel + 1 }
    BY <1>1 DEF NextChannel, Refresh
  <2>4. whole => lasted = goal /\ channel \notin high'
    BY <1>t, <2>2, <2>3
  <2>5. rest' = 0 /\ rest # 0 => rest = RefreshInterval
    <3>1. rest' = 0 /\ rest # 0 => channel = -1
      BY <1>1, <1>t DEF NextChannel, Refresh
    <3>2. channel = -1 => ocr1a >= RefreshInterval
      BY DEF ServoInv, MatchAhead
    <3>3. rest = RefreshInterval \/ tcnt1 <= rest
      BY DEF ServoInv, RoundAges
    <3>. QED BY <1>t, <2>1, <3>1, <3>2, <3>3, ServoFacts
  <2>. QED BY <2>4, <2>5
<1>2. CASE Tick
  BY <1>t, <1>2 DEF Tick
<1>3. CASE MarkActive \/ \E s \in Servos : Attach(s) \/ Detach(s) \/ \E w \in Widths : writeMicroseconds(s, w)
  BY <1>3 DEF MarkActive, Attach, Detach, writeMicroseconds
<1>4. CASE UNCHANGED servoVars
  BY <1>4
<1>. QED BY <1>1, <1>2, <1>3, <1>4 DEF ServoNext

(* A pulse that neither detach() nor attach() disturbs is as long as the   *)
(* width written when it began, to the tick, and leaves its pin low; and   *)
(* rounds begin a refresh interval apart at least (Servo.cpp:52-75): for   *)
(* any number of servos, all widths whose sum the timer can count, and any *)
(* interval.                                                               *)
THEOREM PulsesStayExact == ServoSpec => PulsesAreExact
<1>1. ServoInv /\ [ServoNext]_servoVars =>
        [/\ whole /\ channel' # channel => lasted = goal /\ channel \notin high'
         /\ rest' = 0 /\ rest # 0 => rest = RefreshInterval]_servoVars
  BY PulseEnds
<1>. QED BY <1>1, ServoStart, ServoStep, PTL DEF ServoSpec, PulsesAreExact

=============================================================================
