-------------------------------- MODULE Clock --------------------------------
(***************************************************************************)
(* The time base of the core (wiring.c): the overflow handler of timer 0,  *)
(* millis, micros, delay and delayMicroseconds.                            *)
(*                                                                         *)
(* The timer is hardware and counts on whatever the processor does; its    *)
(* overflow sets a flag, and the handler runs when interrupts are on.      *)
(***************************************************************************)
EXTENDS Integers

CONSTANTS
  Top,              \* the timer counts 0 .. Top - 1: 256
  Wrap,             \* 2^32, where the counters wrap
  MILLIS_INC, FRACT_INC, FRACT_MAX,
  Milli,            \* timer ticks in a millisecond, as micros() counts them
  OffMax,           \* bound: ticks a sketch leaves interrupts off
  YieldMax,         \* bound: ticks between two looks of delay() at the clock
  Delays            \* what the sketch passes to delay()

ASSUME ClockAssumption ==
  /\ Top \in Nat /\ Top > 3 /\ Wrap \in Nat \ {0}
  /\ { MILLIS_INC, FRACT_INC, FRACT_MAX } \subseteq Nat /\ FRACT_INC < FRACT_MAX
  /\ OffMax \in 0 .. Top - 3        \* an overflow is served before the next
  /\ YieldMax \in Nat /\ Milli \in Nat \ {0}
  /\ Wrap * Top > Milli + YieldMax + OffMax
  /\ Delays \subseteq Nat

VARIABLES
  tcnt, tov,        \* TCNT0 and the flag TOV0
  overflows,        \* timer0_overflow_count
  millis, fract,    \* timer0_millis, timer0_fract
  sei,              \* interrupts are on
  offFor,           \* ticks since they went off
  clockPc,          \* "run", or the step of micros()
  m, t,             \* the locals of micros()
  restore,          \* its oldSREG
  answer,           \* what micros() returned
  instant,          \* ticks since the start, at the moment and
  sampled,          \*   when TCNT0 was read
  left, start,      \* delay(): ms and start, ms = -1 outside
  since,            \* ticks since delay() looked at the clock
  owed              \* ticks that delay() has still to last

timer0     == << overflows, millis, fract >>
delayVars  == << left, start, since, owed >>
microsVars == << m, t, restore, answer, sampled >>
clockVars  == << tcnt, tov, timer0, sei, offFor, clockPc, microsVars, instant, delayVars >>

Ticks == Wrap * Top
InDelay == left # -1

TimerTick ==
  /\ clockPc = "run" \/ instant = sampled      \* micros() is shorter than a tick
  /\ sei => ~tov                            \* the handler comes first
  /\ ~sei => offFor < OffMax
  /\ InDelay => since < YieldMax
  /\ tcnt' = (tcnt + 1) % Top
  /\ tov' = (tov \/ tcnt' = 0)
  /\ instant' = (instant + 1) % Ticks
  /\ offFor' = IF sei THEN 0 ELSE offFor + 1
  /\ since' = IF InDelay THEN since + 1 ELSE 0
  /\ owed' = IF owed > 0 THEN owed - 1 ELSE 0
  /\ UNCHANGED << timer0, sei, clockPc, microsVars, left, start >>

\* ISR(TIMER0_OVF_vect); the hardware clears the flag.
Overflow ==
  /\ sei /\ tov
  /\ tov' = FALSE
  /\ overflows' = (overflows + 1) % Wrap
  /\ LET f == fract + FRACT_INC IN
       IF f >= FRACT_MAX
       THEN fract' = f - FRACT_MAX /\ millis' = (millis + MILLIS_INC + 1) % Wrap
       ELSE fract' = f /\ millis' = (millis + MILLIS_INC) % Wrap
  /\ UNCHANGED << tcnt, sei, offFor, clockPc, microsVars, instant, delayVars >>

\* Interrupts that are on do not go off with an old overflow unserved.
MayTurnOff == sei /\ tov => tcnt = 0

\* cli and sei by the sketch.
Interrupts(on) ==
  /\ clockPc = "run" /\ ~InDelay /\ sei = ~on /\ MayTurnOff
  /\ sei' = on /\ offFor' = 0
  /\ UNCHANGED << tcnt, tov, timer0, clockPc, microsVars, instant, delayVars >>

\* micros(): cli, the count, the timer, the flag.
ReadCount ==
  /\ clockPc = "run" /\ left # 0 /\ MayTurnOff
  /\ restore' = sei /\ sei' = FALSE
  /\ m' = overflows
  /\ sampled' = instant
  /\ clockPc' = "count"
  /\ offFor' = IF sei THEN 0 ELSE offFor
  /\ UNCHANGED << tcnt, tov, timer0, t, answer, instant, delayVars >>

ReadTimer ==
  /\ clockPc = "count"
  /\ t' = tcnt /\ sampled' = instant
  /\ clockPc' = "timer"
  /\ UNCHANGED << tcnt, tov, timer0, sei, offFor, m, restore, answer, instant, delayVars >>

UnservedAnyCount == tov
Unserved == tov /\ t < Top - 1

ReadFlag ==
  /\ clockPc = "timer"
  /\ answer' = ((IF Unserved THEN m + 1 ELSE m) * Top + t) % Ticks
  /\ sei' = restore
  /\ clockPc' = "answer"
  /\ UNCHANGED << tcnt, tov, timer0, offFor, m, t, restore, sampled, instant, delayVars >>

Micros == ReadCount \/ ReadTimer \/ ReadFlag

\* The caller of micros() goes on: the sketch, or delay().
Called ==
  /\ clockPc' = "run"
  /\ m' = 0 /\ t' = 0 /\ restore' = TRUE /\ answer' = 0 /\ sampled' = 0

Resume ==
  /\ clockPc = "answer" /\ ~InDelay
  /\ Called
  /\ UNCHANGED << tcnt, tov, timer0, sei, offFor, instant, delayVars >>

Delay(n) ==
  /\ clockPc = "answer" /\ ~InDelay /\ sei
  /\ left' = n /\ start' = answer
  /\ since' = (instant - sampled) % Ticks
  /\ owed' = IF n * Milli > since' THEN n * Milli - since' ELSE 0
  /\ Called
  /\ UNCHANGED << tcnt, tov, timer0, sei, offFor, instant >>

DueAbsolute == answer >= (start + Milli) % Ticks
Due == (answer - start) % Ticks >= Milli

DelayCounts ==
  /\ clockPc = "answer" /\ InDelay
  /\ IF Due THEN left' = left - 1 /\ start' = (start + Milli) % Ticks
            ELSE UNCHANGED << left, start >>
  /\ since' = 0 /\ Called
  /\ UNCHANGED << tcnt, tov, timer0, sei, offFor, instant, owed >>

DelayReturns ==
  /\ InDelay /\ left = 0 /\ clockPc = "run"
  /\ left' = -1 /\ since' = 0 /\ start' = 0 /\ Called
  /\ UNCHANGED << tcnt, tov, timer0, sei, offFor, instant, owed >>

(***************************************************************************)
(* delayMicroseconds: how often its loop of four cycles turns, where 0     *)
(* means the instructions before it were enough.  The loop counts a word   *)
(* down before it looks, so that a word of 0 would turn 65536 times.       *)
(***************************************************************************)
Uint(x) == x % 65536
Turns(mhz, us) ==
  CASE mhz = 24 -> IF us = 0 THEN 0 ELSE Uint(Uint(us * 6) - 5)
    [] mhz = 20 -> IF us <= 1 THEN 0 ELSE Uint(Uint(us * 5) - 7)
    [] mhz = 16 -> IF us <= 1 THEN 0 ELSE Uint(Uint(us * 4) - 5)
    [] mhz = 12 -> IF us <= 1 THEN 0 ELSE Uint(Uint(us * 3) - 5)
    [] mhz = 8  -> IF us <= 2 THEN 0 ELSE Uint(Uint(us * 2) - 4)
    [] OTHER    -> IF us <= 25 THEN 0 ELSE Uint(us - 22) \div 4

\* MightyCore counts the call itself first, and has no exit for 0.
TurnsMighty(mhz, us) ==
  LET turns == Uint(us - 1) IN
  CASE mhz = 20 -> IF turns = 0 THEN 0 ELSE Uint(Uint(turns * 5) - 2)
    [] mhz = 16 -> IF turns = 0 THEN 0 ELSE Uint(Uint(turns * 4) - 2)
    [] OTHER    -> IF turns \in { 0, 1 } THEN 0 ELSE Uint(Uint((turns - 1) * 2) - 1)

(***************************************************************************)
(* Specification and properties.                                           *)
(***************************************************************************)
ClockInit ==
  /\ tcnt = 0 /\ tov = FALSE /\ overflows = 0 /\ millis = 0 /\ fract = 0
  /\ sei = TRUE /\ offFor = 0 /\ clockPc = "run"
  /\ m = 0 /\ t = 0 /\ restore = TRUE /\ answer = 0 /\ instant = 0 /\ sampled = 0
  /\ left = -1 /\ start = 0 /\ since = 0 /\ owed = 0

ClockNext ==
  \/ TimerTick \/ Overflow \/ \E on \in BOOLEAN : Interrupts(on)
  \/ Micros \/ Resume \/ (\E n \in Delays : Delay(n)) \/ DelayCounts \/ DelayReturns

ClockSpec == ClockInit /\ [][ClockNext]_clockVars

ClockTypeOK ==
  /\ tcnt \in 0 .. Top - 1 /\ { tov, sei, restore } \subseteq BOOLEAN
  /\ overflows \in 0 .. Wrap - 1 /\ millis \in 0 .. Wrap - 1 /\ fract \in 0 .. FRACT_MAX - 1
  /\ clockPc \in { "run", "count", "timer", "answer" }
  /\ { instant, sampled, answer, start } \subseteq 0 .. Ticks - 1
  /\ m \in 0 .. Wrap - 1 /\ t \in 0 .. Top - 1
  /\ left \in -1 .. 255 /\ offFor \in 0 .. OffMax /\ since \in 0 .. YieldMax

\* micros() returns the time at which it read the timer, whether an overflow
\* comes before, between or after its three reads, with interrupts on or off.
MicrosExact == clockPc = "answer" => answer = sampled

\* The milliseconds do not drift from the overflows they are counted by: the
\* fraction carries what is left over (wiring.c:50-62).
MillisExact ==
  (FRACT_MAX * millis + fract) % Wrap
    = ((FRACT_MAX * MILLIS_INC + FRACT_INC) * overflows) % Wrap

\* delay(ms) takes that long at least, across a wrap of the counter as well.
DelayLasts == [][InDelay /\ ~InDelay' => owed = 0]_clockVars

\* The loop of delayMicroseconds(us) turns, for every us whose product with 6
\* fits its word and any clock speed, as long as it was asked to but for the call
\* itself, up to 28 cycles: "no zero delay bug" (wiring.c:227), except that of
\* delayMicroseconds(0) in MightyCore.
LoopIsBounded(us) ==
  /\ \A mhz \in { 24, 20, 16, 12, 8, 1 } : us * mhz - 4 * Turns(mhz, us) \in 0 .. 28
  /\ us > 0 => \A mhz \in { 20, 16, 8 } : us * mhz - 4 * TurnsMighty(mhz, us) \in 0 .. 28

LongestLoop == 65535 \div 6
LoopsAreBounded == \A us \in 0 .. LongestLoop : LoopIsBounded(us)

\* micros() returns the moment of its call, millis() does not drift, and no
\* busy wait is longer than asked (wiring.c:45-103, :127-230).
TimeIsKept == MicrosExact /\ MillisExact /\ LoopsAreBounded

=============================================================================
