------------------------------- MODULE MCBoard -------------------------------
(***************************************************************************)
(* The board with small constants.                                         *)
(***************************************************************************)
EXTENDS Board

CONSTANTS la, lb

OnceOrAlways == { -1, 1 }
ToneToggles  == { -1, 0, 2, 3 }
SharedOutputs == { << 1, "A" >>, << 2, "A" >>, << 3, "A" >> }
BitBytes     == { << 0 >>, << 1 >> }
TwoLevels    == { << la >>, << lb >>, << la, la >>, << la, lb >> }
ShortTexts   == { << la >>, << la, lb >>, << lb, Blank >> }
\* No port and no object is distinguished from another.
BoardSymmetry == Permutations(Ports) \cup Permutations(Strings)

\* lb is the capital of la.
Codes    == la :> 2 @@ lb :> 1 @@ Blank :> 3
Capitals == la :> lb

\* Every map but that of the CoreRF, whose rows name two ports.
MapChips ==
  { << "ATmega128", "-" >>, << "ATmega1284P", "-" >>, << "ATmega2560", "-" >>, << "ATmega32U4", "-" >>,
    << "ATmega32U4", "Microduino" >>, << "AT90USB1286", "-" >>, << "ATmega328P", "-" >> }
ThreeBits == { << TRUE, FALSE, TRUE >>, << FALSE, TRUE, TRUE >> }

\* Every line of five reads, and a longer pulse.
SomeLines == [1 .. 5 -> BOOLEAN] \cup { << TRUE, FALSE, TRUE, TRUE, TRUE, TRUE, FALSE >> }

\* Names of up to two and one characters and longer ones, and paths with
\* slashes everywhere.
SomeNames == UNION { [1 .. n -> { "x", "X", ".", "*" }] : n \in 1 .. 5 }
SomePaths == UNION { [1 .. n -> { "x", "/" }] : n \in 1 .. 7 }
SomeInstants ==
  { << 1980, 1, 1, 0, 0, 0 >>, << 2107, 12, 31, 23, 59, 59 >>, << 2016, 2, 29, 12, 30, 31 >> }
SomeNotInstants == { << 1979, 12, 31, 0, 0, 0 >>, << 2016, 13, 1, 0, 0, 0 >> }

\* Texts that begin like themselves, and lines that almost match.
Searched ==
  { << << "a", "a", "b" >> >>, << << "a", "b", "a", "b" >>, << "b", "b" >> >>, << << "a" >>, << >> >> }
SearchLines ==
  { << "a", "a", "a", "b" >>, << "a", "b", "a", "a", "b" >>, << "a", "b", "a", "b" >>, << "a", "b", "b" >>,
    << "b", "a", "a", "b", "a" >> }
NumberLines ==
  { << " ", "-", "1", "2", "x" >>, << "1", ",", "2", ".", "1", "." >>, << "x", ".", "9", "1", "-" >>,
    << "-", "-", "1" >>, << "\t", "1", " ", "2" >> }
SomeRooms == { -1, 0, 2 }

\* The least and the greatest, and doubles on both sides of a carry.
SomeLongs == { -16, -9, 0, 10, 15 }
SomeThousandths == { -1999, -49, -5, 0, 5, 949, 950, 9995, 9999, 30000, 30001 }
AddressTextsUsed ==
  LET groups == { << >>, << 2, 5, 5 >>, << 2, 5, 6 >>, << 1, Letter >> }
      ends   == { << 7 >>, << 7, Point >>, << 3, Point, 7 >>, << 3, Point, 7, Point >> }
  IN { a \o << Point >> \o b \o << Point >> \o c : a \in groups, b \in groups, c \in ends }

PlainReplacements == { << << la >>, << lb, la >> >>, << << la, lb >>, << lb >> >>,
                       << << lb >>, << >> >>, << << Blank >>, << la >> >> }

\* Texts from which a word of two equal characters can be made, and a
\* replacement that lengthens a string in which the text to find straddles its
\* end.
ThreeTexts == { << la >>, << la, lb >>, << lb, Blank >> }
Straddling == { << << la, la >>, << la, la, lb >> >> }

=============================================================================
