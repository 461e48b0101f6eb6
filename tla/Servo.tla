-------------------------------- MODULE Servo --------------------------------
(***************************************************************************)
(* The Servo library: one 16 bit timer whose compare match interrupt sends *)
(* the pulses of all its servos, one after the other, and then waits until *)
(* the refresh interval is over; attach, detach and writeMicroseconds of   *)
(* the sketch against it.                                                  *)
(*                                                                         *)
(* Each servo has a pin of its own.  The handler runs at the match.        *)
(***************************************************************************)
EXTENDS Integers, FiniteSets

CONSTANTS
  ServoCount,       \* servos created, of SERVOS_PER_TIMER
  SERVOS_PER_TIMER,
  Widths,           \* in ticks, what writeMicroseconds() stores
  DefaultWidth,
  RefreshInterval,  \* usToTicks(REFRESH_INTERVAL)
  Margin,           \* the few ticks so that the next match is not missed
  TimerTop          \* 2^16

ASSUME ServoAssumption ==
  /\ ServoCount \in 0 .. SERVOS_PER_TIMER /\ SERVOS_PER_TIMER \in Nat
  /\ Widths \subseteq Nat \ {0} /\ DefaultWidth \in Widths
  /\ { RefreshInterval, Margin } \subseteq Nat \ {0}
  /\ TimerTop \in Nat /\ RefreshInterval < TimerTop
  /\ \A w \in Widths : ServoCount * w + Margin < TimerTop

Servos == 0 .. ServoCount - 1

VARIABLES
  channel,          \* Channel[timer]
  tcnt1, ocr1a,     \* TCNT1 and OCR1A
  running,          \* the interrupt is enabled: once, for ever
  isActive, ticks,  \* of every servo
  high,             \* the pins that are high
  attaching,        \* the servo that attach() has found the timer idle for
  goal,             \* the width of the pulse under way
  lasted,           \* how long it is, in ticks
  whole,            \* the servo was not detached or attached since it began
  rest              \* ticks since the last round began, at most RefreshInterval

servoVars == << channel, tcnt1, ocr1a, running, isActive, ticks, high, attaching, goal,
                lasted, whole, rest >>

None == -1

(***************************************************************************)
(* handle_interrupts.                                                      *)
(***************************************************************************)
Match == running /\ tcnt1 = ocr1a

\* The refresh interval is over: count from 0.  Else a pulse is, and its pin
\* goes low unless the servo has been detached.
Ended == IF channel \in Servos /\ isActive[channel] THEN high \ { channel } ELSE high
TimeNow == IF channel < 0 THEN 0 ELSE tcnt1

NextChannel ==
  /\ Match /\ channel + 1 \in Servos
  /\ channel' = channel + 1
  /\ tcnt1' = TimeNow
  /\ ocr1a' = (TimeNow + ticks[channel']) % TimerTop
  /\ IF isActive[channel']
     THEN high' = Ended \cup { channel' } /\ goal' = ticks[channel'] /\ whole' = TRUE
     ELSE high' = Ended /\ goal' = 0 /\ whole' = FALSE
  /\ lasted' = 0
  /\ rest' = IF channel' = 0 THEN 0 ELSE rest
  /\ UNCHANGED << running, isActive, ticks, attaching >>

Refresh ==
  /\ Match /\ channel + 1 \notin Servos
  /\ channel' = -1
  /\ tcnt1' = TimeNow
  /\ ocr1a' = IF TimeNow + Margin < RefreshInterval THEN RefreshInterval
              ELSE (TimeNow + Margin) % TimerTop
  /\ high' = Ended /\ whole' = FALSE /\ goal' = 0 /\ lasted' = 0
  /\ UNCHANGED << running, isActive, ticks, attaching, rest >>

(***************************************************************************)
(* The sketch.                                                             *)
(***************************************************************************)
isTimerActive == \E s \in Servos : isActive[s]

\* attach() looks whether the timer is in use, starts it, and activates the
\* servo at last.
Attach(s) ==
  /\ attaching = None /\ attaching' = s
  /\ IF isTimerActive THEN UNCHANGED << tcnt1, running >>
                      ELSE tcnt1' = 0 /\ running' = TRUE
  /\ whole' = (whole /\ tcnt1' = tcnt1)
  /\ UNCHANGED << channel, ocr1a, isActive, ticks, high, goal, lasted, rest >>

MarkActive ==
  /\ attaching # None
  /\ isActive' = [isActive EXCEPT ![attaching] = TRUE]
  /\ whole' = (whole /\ channel # attaching)
  /\ attaching' = None
  /\ UNCHANGED << channel, tcnt1, ocr1a, running, ticks, high, goal, lasted, rest >>

\* The timer goes on: finISR does nothing.
Detach(s) ==
  /\ attaching = None /\ isActive[s]
  /\ isActive' = [isActive EXCEPT ![s] = FALSE]
  /\ whole' = (whole /\ channel # s)
  /\ UNCHANGED << channel, tcnt1, ocr1a, running, ticks, high, attaching, goal, lasted, rest >>

\* Both bytes, interrupts off.
writeMicroseconds(s, w) ==
  /\ attaching = None /\ ticks[s] # w
  /\ ticks' = [ticks EXCEPT ![s] = w]
  /\ UNCHANGED << channel, tcnt1, ocr1a, running, isActive, high, attaching, goal, lasted, whole, rest >>

Tick ==
  /\ running /\ ~Match
  /\ tcnt1' = (tcnt1 + 1) % TimerTop
  /\ lasted' = IF whole THEN lasted + 1 ELSE 0
  /\ rest' = IF rest < RefreshInterval THEN rest + 1 ELSE rest
  /\ UNCHANGED << channel, ocr1a, running, isActive, ticks, high, attaching, goal, whole >>

ServoInit ==
  /\ channel = 0 /\ tcnt1 = 0 /\ ocr1a = 0 /\ running = FALSE
  /\ isActive = [s \in Servos |-> FALSE] /\ ticks = [s \in Servos |-> DefaultWidth]
  /\ high = {} /\ attaching = None
  /\ goal = 0 /\ lasted = 0 /\ whole = FALSE
  /\ rest = RefreshInterval

ServoNext ==
  \/ NextChannel \/ Refresh \/ MarkActive \/ Tick
  \/ \E s \in Servos : Attach(s) \/ Detach(s) \/ \E w \in Widths : writeMicroseconds(s, w)

ServoSpec == ServoInit /\ [][ServoNext]_servoVars

ServoTypeOK ==
  /\ channel \in -1 .. SERVOS_PER_TIMER /\ { tcnt1, ocr1a } \subseteq 0 .. TimerTop - 1
  /\ isActive \in [Servos -> BOOLEAN] /\ ticks \in [Servos -> Widths]
  /\ high \subseteq Servos /\ attaching \in Servos \cup { None }
  /\ { running, whole } \subseteq BOOLEAN /\ { goal, lasted } \subseteq 0 .. TimerTop
  /\ rest \in 0 .. RefreshInterval

(***************************************************************************)
(* Properties.                                                             *)
(***************************************************************************)

\* A pulse that neither detach() nor attach() disturbs is as long as the width
\* that was written when it began, to the tick, and leaves the pin low, whatever is written meanwhile,
\* and rounds of pulses begin a refresh interval apart at least
\* (Servo.cpp:52-75, Servo.h:68).
PulsesAreExact ==
  [][/\ whole /\ channel' # channel => lasted = goal /\ channel \notin high'
     /\ rest' = 0 /\ rest # 0 => rest = RefreshInterval]_servoVars

=============================================================================
