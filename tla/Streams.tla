------------------------------- MODULE Streams -------------------------------
(***************************************************************************)
(* The readers of class Stream (Stream.cpp): they take characters that     *)
(* arrive while they run, until they have what they look for or until      *)
(* nothing came for _timeout.                                              *)
(*                                                                         *)
(* A behaviour is one call.  It takes one character a step; the do ...     *)
(* while of timedRead() and timedPeek() asks at least once, and a          *)
(* character may come between the last time it asks and the look at the    *)
(* clock that makes it give up.                                            *)
(***************************************************************************)
EXTENDS Integers, Sequences, SequencesExt, FiniteSetsExt

CONSTANTS
  Searches,     \* sequences of texts that findMulti() looks for, the first one wins
  SearchTexts,  \* what a search may be given to read
  NumberTexts,  \* what the parsers may be given to read
  Rooms,       \* lengths of buffers
  _timeout,     \* clock ticks without a character
  LongHalf      \* a long is in - LongHalf .. LongHalf - 1

Digits == "0" :> 0 @@ "1" :> 1 @@ "2" :> 2 @@ "9" :> 9
IsDigit(c) == c \in DOMAIN Digits
Blanks == { " ", "\t" }
NO_IGNORE_CHAR == "\\x01"
Unlimited == -1
Running == { "run", "skip", "number" }

VARIABLES
  call,     \* the call: its name and arguments
  phase,    \* "idle", "run", "skip" or "number" within the parsers, "done"
  comes,    \* what has not arrived yet
  pending,  \* arrived and not read
  taken,    \* read by the call
  tried,    \* timedRead() has asked at least once
  waited,   \* clock ticks since it started
  index,    \* of findMulti: how much of each text has been matched
  outcome    \* what the call has found out: which text, which bytes or which number

streamVars == << call, phase, comes, pending, taken, tried, waited, index, outcome >>

Long(n) == ((n + LongHalf) % (2 * LongHalf)) - LongHalf

Finds == { [name |-> "findMulti", targets |-> s] : s \in Searches }
Takes == { [name |-> "readBytes", limit |-> n, terminator |-> t] : n \in Rooms, t \in { "", "b" } }
Parses == { [name |-> "parse", float |-> f, lookahead |-> l, ignore |-> i] :
              f \in BOOLEAN, l \in { "SKIP_ALL", "SKIP_NONE", "SKIP_WHITESPACE" },
              i \in { NO_IGNORE_CHAR, "," } }

NoCall == [name |-> "none"]
NoAnswer == [which |-> -1, bytes |-> << >>, negative |-> FALSE, fraction |-> FALSE, value |-> 0, scale |-> 0]

StreamInit ==
  /\ call = NoCall /\ phase = "idle" /\ outcome = NoAnswer /\ index = << >>
  /\ comes = << >> /\ pending = << >> /\ taken = << >> /\ tried = FALSE /\ waited = 0

\* A zero length target matches before anything is read, and a buffer without
\* room is full.
Begin ==
  /\ phase = "idle"
  /\ \/ call' \in Finds /\ comes' \in SearchTexts
     \/ call' \in Takes /\ comes' \in SearchTexts
     \/ call' \in Parses /\ comes' \in NumberTexts
  /\ LET empty == IF call'.name = "findMulti" THEN { i \in DOMAIN call'.targets : call'.targets[i] = << >> } ELSE {}
     IN /\ outcome' = IF empty = {} THEN NoAnswer ELSE [NoAnswer EXCEPT !.which = Min(empty)]
        /\ phase' = IF empty # {} \/ (call'.name = "readBytes" /\ call'.limit = 0) THEN "done"
                    ELSE IF call'.name = "parse" THEN "skip" ELSE "run"
  /\ index' = IF call'.name = "findMulti" THEN [i \in DOMAIN call'.targets |-> 0] ELSE << >>
  /\ UNCHANGED << pending, taken, tried, waited >>

(***************************************************************************)
(* The clock and the other side.                                           *)
(***************************************************************************)
CharArrives ==
  /\ comes # << >>
  /\ pending' = Append(pending, Head(comes)) /\ comes' = Tail(comes)
  /\ UNCHANGED << call, phase, taken, tried, waited, index, outcome >>

MillisGoOn ==
  /\ phase \in Running /\ waited < _timeout
  /\ waited' = waited + 1
  /\ UNCHANGED << call, phase, comes, pending, taken, tried, index, outcome >>

AskInVain ==
  /\ phase \in Running /\ pending = << >> /\ ~tried
  /\ tried' = TRUE
  /\ UNCHANGED << call, phase, comes, pending, taken, waited, index, outcome >>

TimeIsOut ==
  /\ phase \in Running /\ tried /\ waited = _timeout
  /\ phase' = "done"
  /\ UNCHANGED << call, comes, pending, taken, tried, waited, index, outcome >>

\* The next timedRead() starts.
Took == taken' = Append(taken, Head(pending)) /\ pending' = Tail(pending) /\ tried' = FALSE /\ waited' = 0
Left == UNCHANGED << pending, taken, tried, waited >>

(***************************************************************************)
(* find(), findUntil(): findMulti().                                       *)
(***************************************************************************)

\* How much of text t is matched by k characters of it and then c.
Advance(t, k, c) ==
  LET Shorter == { j \in 0 .. k - 1 : t[j + 1] = c /\ SubSeq(t, 1, j) = SubSeq(t, k - j + 1, k) }
  IN IF t[k + 1] = c THEN k + 1 ELSE IF Shorter = {} THEN 0 ELSE Max(Shorter) + 1

findMulti ==
  /\ phase = "run" /\ call.name = "findMulti" /\ pending # << >>
  /\ LET new  == [i \in DOMAIN index |-> Advance(call.targets[i], index[i], Head(pending))]
         full == { i \in DOMAIN index : new[i] = Len(call.targets[i]) }
     IN /\ index' = new
        /\ outcome' = IF full = {} THEN outcome ELSE [outcome EXCEPT !.which = Min(full)]
        /\ phase' = IF full = {} THEN "run" ELSE "done"
  /\ Took
  /\ UNCHANGED << call, comes >>

(***************************************************************************)
(* readBytes(), readBytesUntil(), readString(), readStringUntil().         *)
(***************************************************************************)
readBytes ==
  /\ phase = "run" /\ call.name = "readBytes" /\ pending # << >>
  /\ LET ends  == Head(pending) = call.terminator
         bytes == IF ends THEN outcome.bytes ELSE Append(outcome.bytes, Head(pending))
     IN /\ outcome' = [outcome EXCEPT !.bytes = bytes]
        /\ phase' = IF ends \/ Len(bytes) = call.limit THEN "done" ELSE "run"
  /\ Took
  /\ UNCHANGED << call, comes, index >>

(***************************************************************************)
(* parseInt(), parseFloat().                                               *)
(***************************************************************************)
StartsNumber(c) == c = "-" \/ IsDigit(c) \/ (call.float /\ c = ".")
Skips(c) == call.lookahead = "SKIP_ALL" \/ (call.lookahead = "SKIP_WHITESPACE" /\ c \in Blanks)

peekNextDigit ==
  /\ phase = "skip" /\ pending # << >> /\ ~StartsNumber(Head(pending))
  /\ IF Skips(Head(pending)) THEN Took /\ UNCHANGED phase ELSE Left /\ phase' = "done"
  /\ UNCHANGED << call, comes, index, outcome >>

InNumber(c) == IsDigit(c) \/ c = call.ignore \/ (call.float /\ c = "." /\ ~outcome.fraction)

\* What a character of the number does to the locals of the parser.
Parsed(c) ==
  CASE c = call.ignore -> outcome
    [] c = "-" -> [outcome EXCEPT !.negative = TRUE]
    [] c = "." -> [outcome EXCEPT !.fraction = TRUE]
    [] IsDigit(c) -> [outcome EXCEPT !.value = Long(@ * 10 + Digits[c]),
                                    !.scale = IF outcome.fraction THEN @ + 1 ELSE @]

parseNumber ==
  /\ pending # << >>
  /\ LET c == Head(pending) IN
     \/ /\ \/ phase = "skip" /\ StartsNumber(c)
           \/ phase = "number" /\ InNumber(c)
        /\ outcome' = Parsed(c) /\ phase' = "number" /\ Took
     \/ /\ phase = "number" /\ ~InNumber(c)
        /\ phase' = "done" /\ Left /\ UNCHANGED outcome
  /\ UNCHANGED << call, comes, index >>

StreamNext ==
  \/ Begin \/ CharArrives \/ MillisGoOn \/ AskInVain \/ TimeIsOut
  \/ findMulti \/ readBytes \/ peekNextDigit \/ parseNumber

StreamTypeOK ==
  /\ call \in { NoCall } \cup Finds \cup Takes \cup Parses
  /\ phase \in { "idle", "run", "skip", "number", "done" }
  /\ waited \in 0 .. _timeout /\ tried \in BOOLEAN
  /\ \A i \in DOMAIN index : index[i] \in 0 .. Len(call.targets[i])
  /\ outcome.value \in - LongHalf .. LongHalf - 1

(***************************************************************************)
(* Properties.                                                             *)
(***************************************************************************)
EndsWith(s, t) == Len(t) <= Len(s) /\ SubSeq(s, Len(s) - Len(t) + 1, Len(s)) = t
OccursIn(t, s) == \E n \in 0 .. Len(s) : EndsWith(SubSeq(s, 1, n), t)

\* A search stops at the first character with which one of the texts has been
\* read, also when it overlaps with beginnings of itself, and tells which one:
\* none has been read before, and none is passed over (Stream.cpp:256-319).
FindIsFirst ==
  call.name = "findMulti" =>
    LET texts == call.targets
        found == { i \in DOMAIN texts : EndsWith(taken, texts[i]) }
    IN /\ outcome.which = (IF found = {} THEN -1 ELSE Min(found))
       /\ taken # << >> => \A t \in Range(texts) : ~OccursIn(t, Front(taken))
       /\ outcome.which # -1 => phase = "done"

\* What is returned is what was read, the terminator excepted, and nothing is
\* read beyond it or beyond the room (Stream.cpp:202-254).
BytesAreTaken ==
  call.name = "readBytes" =>
    /\ \/ taken = outcome.bytes
       \/ taken = Append(outcome.bytes, call.terminator) /\ phase = "done"
    /\ ~OccursIn(<< call.terminator >>, outcome.bytes)
    /\ call.limit # Unlimited => Len(outcome.bytes) <= call.limit

\* The number that a text means: its digits, the sign before them and the
\* digits after the point.
DecimalValue(text) ==
  LET ds == SelectSeq(text, IsDigit) IN FoldLeft(LAMBDA n, d : 10 * n + Digits[d], 0, ds)
FractionDigits(text) ==
  IF "." \in Range(text) THEN Len(SelectSeq(SubSeq(text, SelectInSeq(text, LAMBDA c : c = "."), Len(text)), IsDigit)) ELSE 0

\* The parsers skip what they were told to skip and return the number that
\* follows, up to the first character that cannot be part of it, which is left
\* to be read; SKIP_NONE touches nothing if there is no number (Stream.cpp:56-82,
\* :130-195, Stream.h:45-50).
NumberIsRead ==
  (call.name = "parse" /\ phase = "done") =>
    LET starts == SelectInSeq(taken, StartsNumber)
        text   == IF starts = 0 THEN << >> ELSE SubSeq(taken, starts, Len(taken))
        before == IF starts = 0 THEN taken ELSE SubSeq(taken, 1, starts - 1)
    IN /\ \A c \in Range(before) : Skips(c)
       /\ text # << >> =>
            /\ \A i \in 2 .. Len(text) : IsDigit(text[i]) \/ text[i] \in { call.ignore, "." }
            /\ DecimalValue(text) < LongHalf => outcome.value = DecimalValue(text)
            /\ outcome.negative = (text[1] = "-") /\ outcome.scale = FractionDigits(text)
       /\ (pending # << >> /\ ~tried) =>
            ~(IF text = << >> THEN StartsNumber(Head(pending)) ELSE InNumber(Head(pending)))

=============================================================================
