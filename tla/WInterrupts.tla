----------------------------- MODULE WInterrupts -----------------------------
(***************************************************************************)
(* External interrupts (WInterrupts.c, the same text in both cores) on the *)
(* chips that the boards and their variants name: attachInterrupt and      *)
(* detachInterrupt of the sketch against the handlers.                     *)
(*                                                                         *)
(* intFunc[n] has two bytes, written one after the other; the hardware     *)
(* sets the flag of a line on its event, enabled or not.                   *)
(***************************************************************************)
EXTENDS Integers

CONSTANTS
  IntChips,         \* of "eight lines", "ATmega32U4", "three lines" and "ATmega32"
  Lines,            \* the lines INT0 to INT7 that are looked at
  Functions,        \* what sketches attach
  nothing,
  Modes,            \* the modes they ask for
  Reattach          \* TRUE: the sketch attaches to a number that is attached

LOW     == 0
CHANGE  == 1
FALLING == 2
RISING  == 3
Events == { "low", "falling", "rising" }

ASSUME WInterruptsAssumption ==
  /\ IntChips \subseteq { "eight lines", "ATmega32U4", "three lines", "ATmega32" }
  /\ Lines \subseteq 0 .. 7 /\ nothing \notin Functions
  /\ Modes \subseteq { LOW, CHANGE, FALLING, RISING } /\ Reattach \in BOOLEAN

VARIABLES
  intChip,          \* the chip of the board
  intFunc,          \* the two bytes of each pointer
  sense,            \* the mode of each line: ISCn1 and ISCn0
  eimsk,            \* the lines that are enabled
  flagged,          \* the event of each line that waits for the handler, or "early":
                    \* it came before the line was enabled
  extPc,            \* the step of attachInterrupt or detachInterrupt
  number, userFunc, userMode,   \* their arguments
  attached,         \* what the sketch has asked for, by number: function and mode
  wild              \* a handler called something else, or for another event

extVars == << intChip, intFunc, sense, eimsk, flagged, extPc, number, userFunc, userMode, attached, wild >>

(***************************************************************************)
(* Numbers of interrupts and lines of the chip.                            *)
(***************************************************************************)
EXTERNAL_NUM_INTERRUPTS ==
  CASE intChip = "eight lines" -> 8 [] intChip = "ATmega32U4" -> 5 [] OTHER -> 3

\* The line of an interrupt number in attachInterrupt and detachInterrupt.
LineOf(n) ==
  CASE intChip = "eight lines" -> (IF n <= 1 THEN n + 4 ELSE IF n <= 5 THEN n - 2 ELSE n)
    [] intChip = "ATmega32U4"  -> IF n = 4 THEN 6 ELSE n
    [] OTHER -> n

\* The number in the handler of a line.
NumberOfLine(l) == l
NumberOf(l) ==
  CASE intChip = "eight lines" -> (IF l <= 3 THEN l + 2 ELSE IF l <= 5 THEN l - 4 ELSE l)
    [] intChip = "ATmega32U4"  -> IF l = 6 THEN 4 ELSE l
    [] OTHER -> l

\* The ATmega32 has no ISC20 and no EICRA, and so no case that attaches line 2.
Served(n) == ~(intChip = "ATmega32" /\ n = 2)

Numbers == { n \in 0 .. EXTERNAL_NUM_INTERRUPTS - 1 : LineOf(n) \in Lines }
Pointer(f) == << f, f >>
Unasked == [function |-> nothing, mode |-> LOW]

\* The events that set the flag of a line in a mode.
Raises(m, e) ==
  CASE m = LOW -> e = "low" [] m = CHANGE -> e \in { "falling", "rising" }
    [] m = FALLING -> e = "falling" [] m = RISING -> e = "rising"

(***************************************************************************)
(* The calls of the sketch.                                                *)
(***************************************************************************)
attachInterrupt(n, f, m) ==
  /\ extPc = "idle" /\ (attached[n] # Unasked => Reattach)
  /\ number' = n /\ userFunc' = f /\ userMode' = m /\ extPc' = "low"
  /\ UNCHANGED << intChip, intFunc, sense, eimsk, flagged, attached, wild >>

\* The first byte of the pointer; its second.
WritePointer ==
  /\ \/ extPc = "low" /\ extPc' = "high" /\ intFunc' = [intFunc EXCEPT ![number][1] = userFunc]
     \/ /\ extPc = "high" /\ extPc' = IF userFunc = nothing THEN "idle" ELSE "mode"
        /\ intFunc' = [intFunc EXCEPT ![number][2] = userFunc]
  /\ UNCHANGED << intChip, sense, eimsk, flagged, number, userFunc, userMode, attached, wild >>

\* Then the mode of the line, and then the line is enabled.
WriteMode ==
  /\ extPc = "mode" /\ extPc' = "enable"
  /\ sense' = IF Served(number) THEN [sense EXCEPT ![LineOf(number)] = userMode] ELSE sense
  /\ UNCHANGED << intChip, intFunc, eimsk, flagged, number, userFunc, userMode, attached, wild >>

EnableLine ==
  /\ extPc = "enable" /\ extPc' = "idle"
  /\ eimsk' = IF Served(number) THEN eimsk \cup { LineOf(number) } ELSE eimsk
  /\ attached' = [attached EXCEPT ![number] = [function |-> userFunc, mode |-> userMode]]
  /\ UNCHANGED << intChip, intFunc, sense, flagged, number, userFunc, userMode, wild >>

\* The line is off before the pointer changes; its mode stays, and so does its
\* flag, for the next that attaches to it.
detachInterrupt(n) ==
  /\ extPc = "idle" /\ attached[n] # Unasked
  /\ eimsk' = eimsk \ { LineOf(n) }
  /\ attached' = [attached EXCEPT ![n] = Unasked]
  /\ flagged' = [flagged EXCEPT ![LineOf(n)] = IF @ = "none" THEN @ ELSE "early"]
  /\ number' = n /\ userFunc' = nothing /\ extPc' = "low"
  /\ UNCHANGED << intChip, intFunc, sense, userMode, wild >>

(***************************************************************************)
(* The lines and the handlers.                                             *)
(***************************************************************************)
\* The flag of a line that is not enabled waits for attachInterrupt.
Event(l, e) ==
  /\ flagged[l] = "none" /\ Raises(sense[l], e)
  /\ flagged' = [flagged EXCEPT ![l] = IF l \in eimsk THEN e ELSE "early"]
  /\ UNCHANGED << intChip, intFunc, sense, eimsk, extPc, number, userFunc, userMode, attached, wild >>

\* The handler of a line; what it calls may be the new function already.
Handle(l) ==
  /\ l \in eimsk /\ flagged[l] # "none"
  /\ flagged' = [flagged EXCEPT ![l] = "none"]
  /\ wild' = (wild \/ LET n == NumberOf(l) IN
                        \/ intFunc[n] # Pointer(intFunc[n][1])
                        \/ intFunc[n][1] \notin { attached[n].function } \cup (IF number = n THEN { userFunc } ELSE {})
                        \/ flagged[l] # "early" /\ ~Reattach /\ ~Raises(attached[n].mode, flagged[l]))
  /\ UNCHANGED << intChip, intFunc, sense, eimsk, extPc, number, userFunc, userMode, attached >>

ExtInit ==
  /\ intChip \in IntChips
  /\ intFunc = [n \in 0 .. 7 |-> Pointer(nothing)] /\ sense = [l \in 0 .. 7 |-> LOW]
  /\ eimsk = {} /\ flagged = [l \in 0 .. 7 |-> "none"]
  /\ extPc = "idle" /\ number = 0 /\ userFunc = nothing /\ userMode = LOW
  /\ attached = [n \in 0 .. 7 |-> Unasked] /\ wild = FALSE

ExtNext ==
  \/ \E n \in Numbers : detachInterrupt(n) \/ \E f \in Functions, m \in Modes : attachInterrupt(n, f, m)
  \/ WritePointer \/ WriteMode \/ EnableLine
  \/ \E l \in Lines : Handle(l) \/ \E e \in Events : Event(l, e)

ExtSpec == ExtInit /\ [][ExtNext]_extVars

ExtTypeOK ==
  /\ intFunc \in [0 .. 7 -> (Functions \cup { nothing }) \X (Functions \cup { nothing })]
  /\ eimsk \subseteq Lines /\ flagged \in [0 .. 7 -> Events \cup { "none", "early" }]
  /\ intChip \in IntChips /\ sense \in [0 .. 7 -> Modes \cup { LOW }]
  /\ extPc \in { "idle", "low", "high", "mode", "enable" } /\ number \in 0 .. EXTERNAL_NUM_INTERRUPTS - 1
  /\ userFunc \in Functions \cup { nothing } /\ userMode \in Modes \cup { LOW } /\ wild \in BOOLEAN
  /\ attached \in [0 .. 7 -> [function : Functions \cup { nothing }, mode : Modes \cup { LOW }]]

\* A handler calls the function that the sketch attached to its number, never
\* one that is half written, nor the one of another line, whenever its event
\* comes between the steps of the two calls, and for an event that came after
\* them only one of the mode that was asked for (WInterrupts.c:70-275, :283).
CallsWhatIsAttached == ~wild

\* Between calls, the lines that are enabled are those of the numbers that are
\* attached, on every chip but the ATmega32, which has three numbers and
\* enables two lines (WInterrupts.c:170-181).
LinesAreAttached ==
  extPc = "idle" => eimsk = { LineOf(n) : n \in { k \in Numbers : attached[k] # Unasked /\ Served(k) } }

\* On every chip the handler of a line calls the function of the number that
\* stands for the line in attachInterrupt (WInterrupts.c:106-138, :296-305).
NumbersMeet == \A n \in 0 .. EXTERNAL_NUM_INTERRUPTS - 1 : NumberOf(LineOf(n)) = n

HandlerIsAttached == CallsWhatIsAttached /\ LinesAreAttached /\ NumbersMeet

=============================================================================
