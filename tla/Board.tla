-------------------------------- MODULE Board --------------------------------
(***************************************************************************)
(* The drivers of the core and of the libraries that share no state with   *)
(* each other: the clock, the events, the servos, the tone, the timers of  *)
(* the chip as all of these see them, the software port, the external      *)
(* interrupts, the pins and their tables, the heap, the SD card, its       *)
(* directories and the names in them, the strings of the sketch and the    *)
(* text that it reads and prints.                                          *)
(*                                                                         *)
(* Because they share nothing, a behaviour of the board is an interleaving *)
(* of behaviours of the drivers, and what each promises is a property of   *)
(* its own steps: a behaviour here is that of the driver named by `focus`, *)
(* the other ones standing at their initial state.  The modules declare    *)
(* their own variables; this one adds the choice.                          *)
(***************************************************************************)
EXTENDS Clock, EventTimer, Servo, Tone, Timers, SoftwareSerial, WInterrupts, Pins, PinTables, Malloc,
        Sd2Card, SdTree, SdNames, WString, Streams, TextOut

VARIABLE focus

timeVars  == << clockVars, timerVars, servoVars, toneVars, timersVars >>
pinVars   == << softVars, extVars, pinsVars, mapVars >>
dataVars  == << vars, cardVars, sdVars, nameVars >>
textVars  == << stringVars, streamVars, printVars >>
boardVars == << focus, timeVars, pinVars, dataVars, textVars >>

Drivers == { "clock", "timer", "servo", "tone", "timers", "soft", "ext", "pins", "tables", "heap",
             "card", "tree", "names", "string", "stream", "print" }

\* What a driver starts with is chosen where it is looked at.
BoardInit ==
  /\ focus \in Drivers
  /\ ClockInit /\ TimerInit /\ ServoInit /\ ToneInit /\ TimersInit
  /\ SoftInit /\ ExtInit /\ PinsInit /\ MapInit
  /\ Init /\ CardInit /\ SdInit /\ NameInit
  /\ StringInit /\ StreamInit /\ PrintInit
  /\ focus # "card" => kind = CHOOSE k \in Kinds : TRUE
  /\ focus # "tables" => pinMap = "Uno"
  /\ focus # "tone" => soundsOn = 2
  /\ focus # "timers" => timerChip = "ATmega32U4"
  /\ focus # "ext" => intChip = "eight lines"
  /\ focus # "names" => dateTime_ = << >>

TimeStep ==
  /\ \/ focus = "clock" /\ ClockNext /\ UNCHANGED << timerVars, servoVars, toneVars, timersVars >>
     \/ focus = "timer" /\ TimerNext /\ UNCHANGED << clockVars, servoVars, toneVars, timersVars >>
     \/ focus = "servo" /\ ServoNext /\ UNCHANGED << clockVars, timerVars, toneVars, timersVars >>
     \/ focus = "tone" /\ ToneNext /\ UNCHANGED << clockVars, timerVars, servoVars, timersVars >>
     \/ focus = "timers" /\ TimersNext /\ UNCHANGED << clockVars, timerVars, servoVars, toneVars >>
  /\ UNCHANGED << focus, pinVars, dataVars, textVars >>

PinStep ==
  /\ \/ focus = "soft" /\ SoftNext /\ UNCHANGED << extVars, pinsVars, mapVars >>
     \/ focus = "ext" /\ ExtNext /\ UNCHANGED << softVars, pinsVars, mapVars >>
     \/ focus = "pins" /\ PinsNext /\ UNCHANGED << softVars, extVars, mapVars >>
     \/ focus = "tables" /\ MapNext /\ UNCHANGED << softVars, extVars, pinsVars >>
  /\ UNCHANGED << focus, timeVars, dataVars, textVars >>

DataStep ==
  /\ \/ focus = "heap" /\ Next /\ UNCHANGED << cardVars, sdVars, nameVars >>
     \/ focus = "card" /\ CardNext /\ UNCHANGED << vars, sdVars, nameVars >>
     \/ focus = "tree" /\ SdNext /\ UNCHANGED << vars, cardVars, nameVars >>
     \/ focus = "names" /\ NameNext /\ UNCHANGED << vars, cardVars, sdVars >>
  /\ UNCHANGED << focus, timeVars, pinVars, textVars >>

TextStep ==
  /\ \/ focus = "string" /\ StringNext /\ UNCHANGED << streamVars, printVars >>
     \/ focus = "stream" /\ StreamNext /\ UNCHANGED << stringVars, printVars >>
     \/ focus = "print" /\ PrintNext /\ UNCHANGED << stringVars, streamVars >>
  /\ UNCHANGED << focus, timeVars, pinVars, dataVars >>

BoardNext == TimeStep \/ PinStep \/ DataStep \/ TextStep

BoardSpec == BoardInit /\ [][BoardNext]_boardVars

\* The values of every module's variables.
BoardTypeOK ==
  /\ focus = "clock" => ClockTypeOK
  /\ focus = "timer" => TimerTypeOK
  /\ focus = "servo" => ServoTypeOK
  /\ focus = "tone" => ToneTypeOK
  /\ focus = "timers" => TimersTypeOK
  /\ focus = "soft" => SoftTypeOK
  /\ focus = "ext" => ExtTypeOK
  /\ focus = "pins" => PinsTypeOK
  /\ focus = "heap" => TypeOK
  /\ focus = "card" => CardTypeOK
  /\ focus = "tree" => SdTypeOK
  /\ focus = "names" => NameTypeOK
  /\ focus = "tables" => MapTypeOK
  /\ focus = "string" => StringTypeOK
  /\ focus = "stream" => StreamTypeOK
  /\ focus = "print" => PrintTypeOK

(***************************************************************************)
(* Properties.                                                             *)
(***************************************************************************)

\* delay() lasts as long as it is told, a servo's pulse as long as its width
\* and a pulse on a pin as long as it is measured, whatever the interrupts do
\* meanwhile; no event of a Timer happens early or too often, and none stays;
\* no pitch is off; and each timer of the chip counts as the one who uses it set
\* it up (wiring.c:106-117, :241-351, Servo.cpp:52-75, wiring_pulse.S:29-48,
\* Event.cpp:37-60, Timer.cpp:36-124, Tone.cpp:257-325).
DurationsLast ==
  /\ DelayLasts /\ PulsesAreExact
  /\ [](focus = "tables" => PulseIsMeasured)
  /\ [](focus = "timer" => OnTime /\ SlotsReturn)
  /\ [](focus = "tone" => PitchIsClose)
  /\ [](focus = "timers" => TimersAreShared)

\* What is read of the card is the block asked for, the bus is given back with
\* the interrupts as the sketch set them, and a sequence of blocks ends; of the
\* directories, no entry is lost, a directory that was made exists and ls()
\* shows all that is there; and an entry keeps the name and the dates that it
\* was given, whichever way its path was read (Sd2Card.cpp:377-467,
\* SPI.h:181-287, SD.cpp:61-406, SdFile.cpp:203-278, :965-1059).
StorageIsSound ==
  /\ focus = "card" => ReadIsBlock /\ BusIsShared /\ StopEndsSequence
  /\ focus = "tree" => NothingIsLost /\ MkdirMakesDir /\ LsIsComplete
  /\ focus = "names" => NameIsKept /\ ReadersAgree /\ DatesAreMeant
  /\ focus = "tables" => MapIsOwn /\ SpiIsTransparent /\ SpiClockIsFastest /\ TablesAgree

\* What the sketch sees of the card is the tree of module FileTree, and a
\* listing that is told its end has shown every entry that stayed
\* (SD.cpp:120-471, SdFile.cpp:392-468).
TreeIsSound == TreeSpec /\ ListingIsComplete


=============================================================================
