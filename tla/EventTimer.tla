----------------------------- MODULE EventTimer -----------------------------
(***************************************************************************)
(* The Timer library: a table of events (class Event) that Timer::update   *)
(* goes through, with callbacks that may call the timer themselves.        *)
(***************************************************************************)
EXTENDS Integers

CONSTANTS
  MAX_NUMBER_OF_EVENTS,
  Epoch,            \* 2^32, where millis() wraps
  Periods,          \* in milliseconds
  Repeats,          \* repeatCount, -1 for ever
  EventIds          \* what the sketch passes to stop()

ASSUME EventTimerAssumption ==
  /\ MAX_NUMBER_OF_EVENTS \in Nat \ {0} /\ Epoch \in Nat \ {0}
  /\ Periods \subseteq 0 .. Epoch - 1
  /\ Repeats \subseteq { -1 } \cup (Nat \ {0})
  /\ EventIds \subseteq Int

Slots == 0 .. MAX_NUMBER_OF_EVENTS - 1

VARIABLES
  events,           \* _events
  slot,             \* i of update(), or -1 outside
  calling,          \* is the callback of this slot running
  now,              \* the local of Event::update
  clock,            \* millis()
  timeLeft,         \* until the event may happen, as it was asked for
  timesLeft,        \* how often it may still happen, -1 for ever
  early             \* an event happened before its time, or too often

timerVars == << events, slot, calling, now, clock, timeLeft, timesLeft, early >>

\* A slot that is free; creating an event sets all of it.
Unused == [type |-> "NONE", period |-> 0, repeat |-> -1, last |-> 0, count |-> 0, state |-> 0]

\* The sketch runs: outside update(), or in a callback.
Sketch == slot = -1 \/ calling

FreeSlots == { i \in Slots : events[i].type = "NONE" }
FreeSlot == CHOOSE i \in FreeSlots : \A j \in FreeSlots : i <= j

Create(type, period, repeat, state) ==
  /\ Sketch /\ FreeSlots # {}
  /\ events' = [events EXCEPT ![FreeSlot] =
       [type |-> type, period |-> period, repeat |-> repeat, last |-> clock, count |-> 0,
        state |-> state]]
  /\ timeLeft' = [timeLeft EXCEPT ![FreeSlot] = period]
  /\ timesLeft' = [timesLeft EXCEPT ![FreeSlot] = repeat]
  /\ UNCHANGED << slot, calling, now, clock, early >>

\* every, and after with one repetition.
Every(period, repeat) ==
  Create("EVERY", period, repeat, 0)

\* Two changes for a cycle; pulse is one cycle, pulseImmediate one change.
Oscillate(period, repeat, value) ==
  \E changes \in { repeat * 2 } \cup (IF repeat = 1 THEN { 1 } ELSE {}) :
    Create("OSCILLATE", period, changes, value)

\* Frees any slot in range, used or not.  A callback does not stop the event
\* that called it: another event it put there would be lost in CallReturns.
Stop(id) ==
  /\ Sketch /\ id \in Slots /\ ~(calling /\ id = slot)
  /\ events' = [events EXCEPT ![id] = Unused]
  /\ UNCHANGED << slot, calling, now, clock, timeLeft, timesLeft, early >>

(***************************************************************************)
(* Timer::update and Event::update.                                        *)
(***************************************************************************)
Update ==
  /\ slot = -1
  /\ slot' = 0 /\ now' = clock
  /\ UNCHANGED << events, calling, clock, timeLeft, timesLeft, early >>

\* The next slot, whose event reads the clock anew.
Onward ==
  /\ slot' = IF slot + 1 \in Slots THEN slot + 1 ELSE -1
  /\ now' = IF slot' = -1 THEN 0 ELSE clock

Elapsed(event) == (now - event.last) % Epoch
IsDue(event) == Elapsed(event) >= event.period

Skip ==
  /\ slot # -1 /\ ~calling /\ events[slot].type = "NONE"
  /\ Onward
  /\ UNCHANGED << events, calling, clock, timeLeft, timesLeft, early >>

Expired(event) == event.repeat > -1 /\ event.count >= event.repeat
Reviewed(event) == IF Expired(event) THEN Unused ELSE event

NotDue ==
  /\ slot # -1 /\ ~calling /\ events[slot].type # "NONE" /\ ~IsDue(events[slot])
  /\ events' = [events EXCEPT ![slot] = Reviewed(@)]
  /\ Onward
  /\ UNCHANGED << calling, clock, timeLeft, timesLeft, early >>

\* Another period starts when update() looked at the clock.  The count
\* matters only to an event that does not go on for ever.
Happened(event) ==
  Reviewed([event EXCEPT !.last = now, !.count = IF event.repeat = -1 THEN 0 ELSE @ + 1])

TimeRemaining(period) ==
  LET spent == (clock - now) % Epoch IN IF period > spent THEN period - spent ELSE 0

Happens ==
  /\ early' = (early \/ timeLeft[slot] > 0 \/ timesLeft[slot] = 0)
  /\ timesLeft' = [timesLeft EXCEPT ![slot] = IF @ > 0 THEN @ - 1 ELSE @]

Change ==
  /\ slot # -1 /\ ~calling /\ events[slot].type = "OSCILLATE" /\ IsDue(events[slot])
  /\ Happens
  /\ events' = [events EXCEPT ![slot] = Happened([events[slot] EXCEPT !.state = 1 - @])]
  /\ timeLeft' = [timeLeft EXCEPT ![slot] = TimeRemaining(events[slot].period)]
  /\ Onward
  /\ UNCHANGED << calling, clock >>

Call ==
  /\ slot # -1 /\ ~calling /\ events[slot].type = "EVERY" /\ IsDue(events[slot])
  /\ Happens
  /\ calling' = TRUE
  /\ UNCHANGED << events, slot, now, clock, timeLeft >>

CallReturns ==
  /\ calling
  /\ events' = [events EXCEPT ![slot] = Happened(@)]
  /\ timeLeft' = [timeLeft EXCEPT ![slot] = TimeRemaining(events[slot].period)]
  /\ calling' = FALSE
  /\ Onward
  /\ UNCHANGED << clock, timesLeft, early >>

\* A millisecond.  An update takes less than the clock needs to wrap.
Millisecond ==
  /\ slot # -1 => (clock + 1 - now) % Epoch # 0
  /\ clock' = (clock + 1) % Epoch
  /\ timeLeft' = [i \in Slots |-> IF timeLeft[i] > 0 THEN timeLeft[i] - 1 ELSE 0]
  /\ UNCHANGED << events, slot, calling, now, timesLeft, early >>

TimerInit ==
  /\ events = [i \in Slots |-> Unused] /\ slot = -1 /\ calling = FALSE
  /\ now = 0 /\ clock = 0
  /\ timeLeft = [i \in Slots |-> 0] /\ timesLeft = [i \in Slots |-> -1] /\ early = FALSE

TimerNext ==
  \/ \E p \in Periods, r \in Repeats :
       Every(p, r) \/ \E v \in { 0, 1 } : r > 0 /\ Oscillate(p, r, v)
  \/ \E id \in EventIds : Stop(id)
  \/ Update \/ Skip \/ NotDue \/ Change \/ Call \/ CallReturns \/ Millisecond

TimerSpec == TimerInit /\ [][TimerNext]_timerVars

TimerTypeOK ==
  /\ events \in [Slots -> [type : { "NONE", "EVERY", "OSCILLATE" }, period : Periods \cup { 0 },
                           repeat : Repeats \cup { 2 * r : r \in Repeats } \cup { -1, 1 },
                           last : 0 .. Epoch - 1, count : Nat, state : { 0, 1 }]]
  /\ slot \in Slots \cup { -1 } /\ { calling, early } \subseteq BOOLEAN
  /\ { now, clock } \subseteq 0 .. Epoch - 1

(***************************************************************************)
(* Properties.                                                             *)
(***************************************************************************)

\* No event happens before its period is over, counted from its creation or
\* from the last time, nor more often than it was asked to: not when millis()
\* wraps, nor when a callback takes its time, ends other events or puts new
\* ones into their slots (Event.cpp:37-60).
OnTime == ~early

\* An event that has happened as often as it may is out of the table once
\* update() is through, so that its slot can be used again.
SlotsReturn ==
  slot = -1 => \A i \in Slots : events[i].type # "NONE" => timesLeft[i] # 0

=============================================================================
