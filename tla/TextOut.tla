------------------------------- MODULE TextOut -------------------------------
(***************************************************************************)
(* How class Print makes text of numbers and addresses (Print.cpp), and    *)
(* class IPAddress addresses of text (IPAddress.cpp).                      *)
(*                                                                         *)
(* A behaviour is one call.  print() and println() hand the device one     *)
(* piece of text after the other, and it takes of each what it has room    *)
(* for then; a digit is its value, and other characters are negative.  A   *)
(* double is a number of thousandths, so what is lost by the arithmetic of *)
(* floats is not modelled.                                                 *)
(***************************************************************************)
EXTENDS Integers, Sequences, SequencesExt, FiniteSetsExt

CONSTANTS
  LongBits,   \* width of long
  PrintLongs, PrintUnsigned, Bases,
  Thousandths, PlacesShown,  \* doubles and the digits after the point
  OvfLimit,   \* printFloat() says "ovf" above
  Octets, AddressTexts  \* octets of an address, texts that may be one

Minus  == -1
Point  == -2
Letter == -3
EndOfLine == << -4, -5 >> \* "\r\n"
Ovf    == << -6 >>

LongMod == 2 ^ LongBits
ToUnsigned(n) == n % LongMod

VARIABLES
  job,     \* the call
  unwritten,    \* pieces not written yet
  out,     \* what the device took
  count,   \* what the call returns
  address, \* the IPAddress
  valid    \* what fromString() returned

printVars == << job, unwritten, out, count, address, valid >>

NoJob == [name |-> "none"]
PrintInit ==
  /\ job = NoJob /\ unwritten = << >> /\ out = << >> /\ count = 0
  /\ address = << 0, 0, 0, 0 >> /\ valid = FALSE

(***************************************************************************)
(* The pieces of a text.                                                   *)
(***************************************************************************)
DigitsOf(n, base) ==
  LET digits[m \in Nat] == IF m < base THEN << m >> ELSE Append(digits[m \div base], m % base) IN digits[n]

printNumber(n, base) == << DigitsOf(n, IF base % 256 < 2 THEN 10 ELSE base % 256) >>

printUnsigned(n, base) == IF base = 0 THEN << << n % 256 >> >> ELSE printNumber(n, base)

\* The most negative number is its own negative, and is printed as unsigned.
printLong(n, base) ==
  CASE base = 0 -> << << n % 256 >> >>
    [] base = 10 /\ n < 0 -> << << Minus >> >> \o printNumber(ToUnsigned(- n), 10)
    [] OTHER -> printNumber(ToUnsigned(n), base)

printFloat(x, places) ==
  IF x > 1000 * OvfLimit \/ x < - 1000 * OvfLimit THEN << Ovf >>
  ELSE LET rounded == (IF x < 0 THEN - x ELSE x) + 500 \div 10 ^ places
           Digit(k) == ((rounded * 10 ^ k) \div 1000) % 10
       IN (IF x < 0 THEN << << Minus >> >> ELSE << >>) \o printNumber(rounded \div 1000, 10)
            \o (IF places > 0 THEN << << Point >> >> ELSE << >>) \o [k \in 1 .. places |-> << Digit(k) >>]

printTo(a) ==
  printNumber(a[1], 10) \o << << Point >> >> \o printNumber(a[2], 10) \o << << Point >> >>
    \o printNumber(a[3], 10) \o << << Point >> >> \o printNumber(a[4], 10)

Pieces(j) ==
  CASE j.name = "long" -> printLong(j.n, j.base)
    [] j.name = "unsigned" -> printUnsigned(j.n, j.base)
    [] j.name = "double" -> printFloat(j.n, j.places)
    [] j.name = "address" -> printTo(j.n)

println(j) == IF j.line THEN << EndOfLine >> ELSE << >>

Jobs ==
  [name : { "long" }, n : PrintLongs, base : Bases, line : BOOLEAN]
    \cup [name : { "unsigned" }, n : PrintUnsigned, base : Bases, line : { FALSE }]
    \cup [name : { "double" }, n : Thousandths, places : PlacesShown, line : { FALSE }]
    \cup [name : { "address" }, n : Octets \X Octets \X Octets \X Octets, line : { FALSE }]

PrintCall ==
  /\ job = NoJob
  /\ job' \in Jobs
  /\ unwritten' = Pieces(job') \o println(job')
  /\ UNCHANGED << out, count, address, valid >>

\* write(buffer, size) goes on until the device refuses a byte; print() and
\* println() go on with the next piece all the same.
write ==
  /\ unwritten # << >>
  /\ \E n \in { Len(Head(unwritten)) - 1, Len(Head(unwritten)) } :
       out' = out \o SubSeq(Head(unwritten), 1, n) /\ count' = count + n
  /\ unwritten' = Tail(unwritten)
  /\ UNCHANGED << job, address, valid >>

(***************************************************************************)
(* IPAddress::fromString(): the octets are written while the text is read, *)
(* also if it turns out not to be an address.                              *)
(***************************************************************************)
ReadChar(s, c) ==
  IF s.failed THEN s
  ELSE IF c \in 0 .. 9 THEN [s EXCEPT !.acc = 10 * @ + c, !.failed = 10 * s.acc + c > 255]
  ELSE IF c # Point \/ s.dots = 3 THEN [s EXCEPT !.failed = TRUE]
  ELSE [s EXCEPT !.bytes[s.dots + 1] = s.acc, !.dots = @ + 1, !.acc = 0]

fromString ==
  /\ job = NoJob
  /\ \E text \in AddressTexts :
       LET read == FoldLeft(ReadChar, [failed |-> FALSE, acc |-> 0, dots |-> 0, bytes |-> address], text)
           good == ~read.failed /\ read.dots = 3
       IN /\ job' = [name |-> "fromString", text |-> text]
          /\ address' = IF good THEN [read.bytes EXCEPT ![4] = read.acc] ELSE read.bytes
          /\ valid' = good
  /\ UNCHANGED << unwritten, out, count >>

PrintNext == PrintCall \/ write \/ fromString

PrintTypeOK ==
  /\ job = NoJob \/ job.name = "fromString" \/ job \in Jobs
  /\ \A i \in 1 .. 4 : address[i] \in 0 .. 255
  /\ \A i \in DOMAIN unwritten : Len(unwritten[i]) <= LongBits
  /\ count = Len(out)

(***************************************************************************)
(* Properties.                                                             *)
(***************************************************************************)
WrittenWhole == job # NoJob /\ unwritten = << >> /\ Len(out) = Len(FlattenSeq(Pieces(job) \o println(job)))

ValueIn(digits, base) == FoldLeft(LAMBDA n, d : base * n + d, 0, digits)
\* The digits after the sign and before the end of the line.
Body(text) ==
  LET unsigned == IF text[1] = Minus THEN Tail(text) ELSE text
  IN SelectSeq(unsigned, LAMBDA c : c \in 0 .. 255)

\* The text of a number is the number: its digits in the base that was asked,
\* without zeros before them, and its sign in base ten; in another base the
\* digits of its two's complement (Print.cpp:87-107, :203-221).
NumberIsShown ==
  (job.name \in { "long", "unsigned" } /\ WrittenWhole /\ job.base # 0) =>
    LET base   == IF job.base < 2 THEN 10 ELSE job.base
        digits == Body(out)
        value  == IF out[1] = Minus THEN - ValueIn(digits, base) ELSE ValueIn(digits, base)
    IN /\ value = (IF job.name = "long" /\ job.base = 10 THEN job.n ELSE ToUnsigned(job.n))
       /\ Range(digits) \subseteq 0 .. base - 1 /\ (Len(digits) > 1 => digits[1] # 0)

\* The text of a double is the number with the digits asked for that is next
\* to it, rounded away from zero when two are, carries included
\* (Print.cpp:223-266).
FloatIsRounded ==
  (job.name = "double" /\ WrittenWhole /\ out # Ovf) =>
    LET step  == 1000 \div 10 ^ job.places
        shown == ValueIn(Body(out), 10) * step
        size  == IF job.n < 0 THEN - job.n ELSE job.n
    IN /\ 2 * size - step < 2 * shown /\ 2 * shown <= 2 * size + step
       /\ (out[1] = Minus) = (job.n < 0)

\* A text is an address if and only if it is four groups of digits, empty ones
\* included, with dots between them and none above 255, and then the address
\* is theirs; what printTo() writes is read back (IPAddress.cpp:46-84, :103-113).
Group(text, i) ==
  LET dots  == { k \in DOMAIN text : text[k] = Point }
      Nth(n) == IF n = 0 THEN 0 ELSE CHOOSE k \in dots : Cardinality({ d \in dots : d <= k }) = n
  IN SubSeq(text, Nth(i - 1) + 1, IF i = 4 THEN Len(text) ELSE Nth(i) - 1)
IsAddress(text) ==
  /\ Cardinality({ k \in DOMAIN text : text[k] = Point }) = 3
  /\ \A i \in 1 .. 4 : /\ Range(Group(text, i)) \subseteq 0 .. 9
                       /\ ValueIn(Group(text, i), 10) <= 255
AddressIsRead ==
  /\ job.name = "fromString" =>
       /\ valid = IsAddress(job.text)
       /\ valid => address = [i \in 1 .. 4 |-> ValueIn(Group(job.text, i), 10)]
  /\ (job.name = "address" /\ WrittenWhole) =>
       IsAddress(out) /\ job.n = [i \in 1 .. 4 |-> ValueIn(Group(out, i), 10)]

=============================================================================
