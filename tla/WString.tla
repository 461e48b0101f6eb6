------------------------------ MODULE WString ------------------------------
(***************************************************************************)
(* The String objects of a sketch (WString.cpp): their buffers, which grow *)
(* when there is memory, and the text operations that work in place.       *)
(*                                                                         *)
(* A buffer is the text before its NUL; positions count from 0 as in the   *)
(* code.  memory is how many allocations of a call succeed; for a sum, the *)
(* set of its terms for which one does.                                    *)
(***************************************************************************)
EXTENDS Integers, Sequences, FiniteSets

LOCAL INSTANCE SequencesExt

CONSTANTS
  Strings,          \* the objects of the sketch
  Blank,            \* the character that isspace() knows
  Code,             \* the code of a character
  UpperOf,          \* small letters and their capitals
  Texts,            \* constant strings that the sketch assigns and appends
  Replacements,     \* what it calls replace() with: pairs of texts
  MaxText           \* bound: the sketch lets no text grow longer

ASSUME WStringAssumption ==
  MaxText \in Nat /\ \A text \in Texts : Len(text) <= MaxText

VARIABLES
  string,           \* buffer, capacity and len of every object
  meant             \* the text that it should have

stringVars == << string, meant >>

Invalid == [valid |-> FALSE, text |-> << >>, capacity |-> 0, len |-> 0]
WithText(s, text) == [s EXCEPT !.text = text, !.len = Len(text)]

Fits(s, size) == s.valid /\ s.capacity >= size

reserve(s, size) == IF Fits(s, size) THEN s ELSE [s EXCEPT !.valid = TRUE, !.capacity = size]

copy(s, text, memory) ==
  IF Fits(s, Len(text)) \/ memory > 0 THEN WithText(reserve(s, Len(text)), text) ELSE Invalid

concat(s, text, memory) ==
  LET newlen == s.len + Len(text)
  IN IF text # << >> /\ (Fits(s, newlen) \/ memory > 0)
     THEN [reserve(s, newlen) EXCEPT !.text = @ \o text, !.len = newlen]
     ELSE s

\* operator+, which appends to its left side and makes it invalid if that fails -
\* and a sum: a copy of the first term, to which one after another is added,
\* whether or not it is invalid by then.
plus(a, term, memory) ==
  IF term.valid /\ (term.len = 0 \/ Fits(a, a.len + term.len) \/ memory > 0)
  THEN concat(a, term.text, memory)
  ELSE Invalid

sum(terms, memory) ==
  LET For(k) == Cardinality({ k } \cap memory)
      a[k \in DOMAIN terms] ==
        IF k > 1 THEN plus(a[k - 1], terms[k], For(k))
        ELSE IF terms[1].valid THEN copy(Invalid, terms[1].text, For(1)) ELSE Invalid
  IN a[Len(terms)]

\* A buffer that is large enough is kept, else the other one taken.
move(s, rhs) ==
  IF s.valid /\ rhs.valid /\ s.capacity >= rhs.len THEN WithText(s, rhs.text) ELSE rhs

(***************************************************************************)
(* Searching.  StrStr is the library's strstr: the first place from p on,  *)
(* or -1.                                                                  *)
(***************************************************************************)
Matches(text, from, find) ==
  { p \in from .. Len(text) - Len(find) : SubSeq(text, p + 1, p + Len(find)) = find }
StrStr(text, from, find) ==
  LET places == Matches(text, from, find)
  IN IF places = {} THEN -1 ELSE CHOOSE p \in places : \A q \in places : p <= q

\* Each turn goes on after the place it found; the last one in reach counts.
lastIndexOf(text, find, from) ==
  LET reach == IF from >= Len(text) THEN Len(text) - 1 ELSE from
      search[p \in 0 .. Len(text)] ==
        LET at    == IF p > reach THEN -1 ELSE StrStr(text, p, find)
            after == IF at = -1 THEN -1 ELSE search[at + 1]
        IN IF after # -1 THEN after ELSE IF at <= reach THEN at ELSE -1
  IN IF find = << >> \/ text = << >> \/ Len(find) > Len(text) THEN -1 ELSE search[0]

\* For a character: strchr() and strrchr() from a position inside the text.
indexOfChar(s, ch, from) == IF from >= s.len THEN -1 ELSE StrStr(s.text, from, << ch >>)
lastIndexOfChar(s, ch, from) ==
  LET places == { p \in 0 .. from : s.text[p + 1] = ch }
  IN IF from >= s.len \/ places = {} THEN -1 ELSE CHOOSE p \in places : \A q \in places : q <= p
indexOf(s, t, from) == IF from >= s.len THEN -1 ELSE StrStr(s.text, from, t.text)

(***************************************************************************)
(* Comparing.  StrCmp is the library's strcmp: below, equal or above.      *)
(***************************************************************************)
StrCmp(a, b) ==
  LET At(text, k) == IF k <= Len(text) THEN Code[text[k]] ELSE 0
      differ == { k \in 1 .. Len(a) + Len(b) : At(a, k) # At(b, k) }
      first == CHOOSE k \in differ : \A j \in differ : k <= j
  IN IF differ = {} THEN 0 ELSE IF At(a, first) < At(b, first) THEN -1 ELSE 1

compareTo(s, t) ==
  IF s.valid /\ t.valid THEN StrCmp(s.text, t.text)
  ELSE IF t.valid /\ t.len > 0 THEN -1 ELSE IF s.valid /\ s.len > 0 THEN 1 ELSE 0
equals(s, t) == s.len = t.len /\ compareTo(s, t) = 0

ToLower(ch) == IF \E l \in DOMAIN UpperOf : UpperOf[l] = ch THEN CHOOSE l \in DOMAIN UpperOf : UpperOf[l] = ch ELSE ch
ToUpper(ch) == IF ch \in DOMAIN UpperOf THEN UpperOf[ch] ELSE ch
equalsIgnoreCase(s, t) ==
  s.len = t.len /\ \A k \in 1 .. s.len : ToLower(s.text[k]) = ToLower(t.text[k])

StandsAt(text, p, find) == p + Len(find) <= Len(text) /\ SubSeq(text, p + 1, p + Len(find)) = find
\* The difference of the lengths is unsigned.
startsWith(s, t, offset) ==
  offset <= (s.len - t.len) % 65536 /\ s.valid /\ t.valid /\ StandsAt(s.text, offset, t.text)
endsWith(s, t) == s.len >= t.len /\ s.valid /\ t.valid /\ StandsAt(s.text, s.len - t.len, t.text)

\* The characters that getBytes() puts before the NUL.
getBytes(s, bufsize, index) ==
  LET left == s.len - index
  IN IF index >= s.len THEN << >>
     ELSE SubSeq(s.text, index + 1, index + (IF bufsize - 1 > left THEN left ELSE bufsize - 1))

(***************************************************************************)
(* Changes in place.                                                       *)
(***************************************************************************)
removeChars(s, index, count) ==
  IF index >= s.len THEN s
  ELSE LET n == IF count > s.len - index THEN s.len - index ELSE count
       IN WithText(s, SubSeq(s.text, 1, index) \o SubSeq(s.text, index + n + 1, s.len))

trim(s) ==
  LET solid == { k \in DOMAIN s.text : s.text[k] # Blank }
      begin == CHOOSE k \in solid : \A j \in solid : k <= j
      end   == CHOOSE k \in solid : \A j \in solid : k >= j
  IN WithText(s, IF solid = {} THEN << >> ELSE SubSeq(s.text, begin, end))

setCharAt(s, loc, ch) == IF loc < s.len THEN [s EXCEPT !.text[loc + 1] = ch] ELSE s
replaceChar(s, find, by) == [s EXCEPT !.text = [k \in DOMAIN @ |-> IF @[k] = find THEN by ELSE @[k]]]
toLowerCase(s) == [s EXCEPT !.text = [k \in DOMAIN @ |-> ToLower(@[k])]]
toUpperCase(s) == [s EXCEPT !.text = [k \in DOMAIN @ |-> ToUpper(@[k])]]

substring(s, left, right) ==
  LET l == IF left > right THEN right ELSE left
      r == IF left > right THEN left ELSE right
  IN IF l >= s.len THEN << >> ELSE SubSeq(s.text, l + 1, IF r > s.len THEN s.len ELSE r)

\* replace() from the left, when the text does not grow,
RECURSIVE Forward(_, _, _, _)
Forward(text, readFrom, find, by) ==
  LET foundAt == StrStr(text, readFrom, find)
  IN IF foundAt = -1 THEN SubSeq(text, readFrom + 1, Len(text))
     ELSE SubSeq(text, readFrom + 1, foundAt) \o by \o Forward(text, foundAt + Len(find), find, by)

\* the places it is found at from the left, which the new size counts,
RECURSIVE Count(_, _, _)
Count(text, readFrom, find) ==
  LET foundAt == StrStr(text, readFrom, find)
  IN IF foundAt = -1 THEN 0 ELSE 1 + Count(text, foundAt + Len(find), find)

\* and replace() from the right, when the text grows.
RECURSIVE Backward(_, _, _, _)
Backward(text, from, find, by) ==
  LET index == IF from < 0 THEN -1 ELSE lastIndexOf(text, find, from)
  IN IF index = -1 THEN text
     ELSE Backward(SubSeq(text, 1, index) \o by \o SubSeq(text, index + Len(find) + 1, Len(text)),
                   index - 1, find, by)

replace(s, find, by, memory) ==
  LET size == s.len + Count(s.text, 0, find) * (Len(by) - Len(find))
  IN IF s.len = 0 \/ find = << >> THEN s
     ELSE IF Len(by) <= Len(find) THEN WithText(s, Forward(s.text, 0, find, by))
     ELSE IF size = s.len \/ (size > s.capacity /\ memory = 0) THEN s
     ELSE WithText(IF size > s.capacity THEN [s EXCEPT !.capacity = size] ELSE s,
                  Backward(s.text, s.len - 1, find, by))

(***************************************************************************)
(* What the text should be: the first place counts, then on behind it.     *)
(***************************************************************************)
RECURSIVE Substituted(_, _, _)
Substituted(text, find, by) ==
  IF text = << >> THEN << >>
  ELSE IF Len(find) <= Len(text) /\ SubSeq(text, 1, Len(find)) = find
       THEN by \o Substituted(SubSeq(text, Len(find) + 1, Len(text)), find, by)
       ELSE << Head(text) >> \o Substituted(Tail(text), find, by)

Keep(text, kept) ==
  [n \in 1 .. Cardinality(kept) |->
     text[CHOOSE k \in kept : Cardinality({ j \in kept : j <= k }) = n]]

\* What is left of a sum: the terms after the last one that was invalid or found
\* no memory.
LeftOfSum(terms, memory) ==
  LET failed == { k \in DOMAIN terms : ~terms[k].valid \/ (terms[k].len > 0 /\ k \notin memory) }
  IN FlattenSeq([k \in DOMAIN terms |-> IF \E j \in failed : k <= j THEN << >> ELSE terms[k].text])

Inside(text) ==     \* positions between two that are not blank
  { k \in DOMAIN text : \E i \in 1 .. k, j \in k .. Len(text) : text[i] # Blank /\ text[j] # Blank }

(***************************************************************************)
(* The calls of the sketch.  One that lacks memory may keep the old text,  *)
(* or leave the object invalid; no other may.                              *)
(***************************************************************************)
Becomes(x, r, memory, text) ==
  /\ string' = [string EXCEPT ![x] = r]
  /\ meant' = [meant EXCEPT ![x] = IF memory < 2 /\ r \in { Invalid, string[x] } THEN r.text ELSE text]

Assign(x, text, memory) == Becomes(x, copy(string[x], text, memory), memory, text)

AssignString(x, y, memory) ==
  /\ x # y
  /\ Becomes(x, IF string[y].valid THEN copy(string[x], string[y].text, memory) ELSE Invalid,
             memory, meant[y])

Concat(x, text, memory) ==
  /\ Len(meant[x]) + Len(text) <= MaxText
  /\ Becomes(x, concat(string[x], text, memory), memory, meant[x] \o text)

ConcatString(x, y, memory) ==
  /\ x # y /\ Len(meant[x]) + Len(meant[y]) <= MaxText
  /\ Becomes(x, concat(string[x], string[y].text, memory), memory, meant[x] \o meant[y])

\* x = y + z + "text", and x = y.substring(l, r), by way of a temporary.  A sum
\* that lost a term goes on with the next one.
Add(x, terms, memory) ==
  Becomes(x, move(string[x], sum(terms, memory)), 2, LeftOfSum(terms, memory))

Substring(x, y, l, r, memory) ==
  /\ string[y].valid /\ l <= r
  /\ Becomes(x, move(string[x], copy(Invalid, substring(string[y], l, r), memory)), memory,
             Keep(meant[y], { k \in DOMAIN meant[y] : k > l /\ k <= r }))

RemoveText(x, index, count) ==
  Becomes(x, removeChars(string[x], index, count), 2,
          Keep(meant[x], { k \in DOMAIN meant[x] : k <= index \/ k > index + count }))

Trim(x) == Becomes(x, trim(string[x]), 2, Keep(meant[x], Inside(meant[x])))

Replace(x, find, by, memory) ==
  /\ Len(Substituted(meant[x], find, by)) <= MaxText
  /\ Becomes(x, replace(string[x], find, by, memory), memory, Substituted(meant[x], find, by))

\* A new object is made of a text, or of the digits of a number.
Construct(x, text, memory) == Becomes(x, copy(Invalid, text, memory), memory, text)

SetCharAt(x, loc, ch) ==
  Becomes(x, setCharAt(string[x], loc, ch), 2, [k \in DOMAIN meant[x] |-> IF k = loc + 1 THEN ch ELSE meant[x][k]])

ReplaceChar(x, find, by) ==
  Becomes(x, replaceChar(string[x], find, by), 2,
          [k \in DOMAIN meant[x] |-> IF meant[x][k] = find THEN by ELSE meant[x][k]])

\* All letters small, or all capital.
ChangeCase(x) ==
  \/ Becomes(x, toLowerCase(string[x]), 2, [k \in DOMAIN meant[x] |-> ToLower(meant[x][k])])
  \/ Becomes(x, toUpperCase(string[x]), 2, [k \in DOMAIN meant[x] |-> ToUpper(meant[x][k])])

StringInit ==
  /\ string = [x \in Strings |-> copy(Invalid, << >>, 1)]
  /\ meant = [x \in Strings |-> << >>]

AskForMemory(x, memory) ==
  \/ \E text \in Texts :
       Assign(x, text, memory) \/ Concat(x, text, memory) \/ Construct(x, text, memory)
  \/ \E y \in Strings :
       \/ AssignString(x, y, memory) \/ ConcatString(x, y, memory)
       \/ \E l, r \in 0 .. MaxText : Substring(x, y, l, r, memory)
  \/ \E pair \in Replacements : Replace(x, pair[1], pair[2], memory)

ChangeInPlace(x) ==
  \/ \E index, count \in 0 .. MaxText : RemoveText(x, index, count)
  \/ \E ch \in DOMAIN Code :
       \/ \E loc \in 0 .. MaxText : SetCharAt(x, loc, ch)
       \/ \E by \in DOMAIN Code : ReplaceChar(x, ch, by)
  \/ Trim(x) \/ ChangeCase(x)

AddUp(x) ==
  LET objects == { string[y] : y \in Strings }
      constants == { copy(Invalid, text, 1) : text \in Texts }
  IN \E n \in 2 .. 3 : \E terms \in [1 .. n -> objects \cup constants] :
       /\ terms[1] \in objects
       /\ Len(FlattenSeq([k \in 1 .. n |-> terms[k].text])) <= MaxText
       /\ \E memory \in SUBSET { k \in 1 .. n : k = 1 \/ terms[k].len > 0 } : Add(x, terms, memory)

StringNext ==
  \E x \in Strings :
    \/ ChangeInPlace(x)
    \/ \E memory \in 0 .. 1 : AskForMemory(x, memory)
    \/ AddUp(x)

StringSpec == StringInit /\ [][StringNext]_stringVars

StringTypeOK ==
  \A x \in Strings :
    /\ string[x].valid \in BOOLEAN /\ { string[x].capacity, string[x].len } \subseteq Nat
    /\ Len(meant[x]) <= MaxText

(***************************************************************************)
(* Properties.                                                             *)
(***************************************************************************)

\* Every object holds the text it should: after an allocation that failed the
\* old text or none, never a part of the new one; its buffer is as large as the
\* text that was put into it: "compute size needed for result" (WString.cpp:667).
\* The one call that may leave a part is a sum, and that part is what follows the
\* last term that was invalid or found no memory (WString.cpp:353-428).
TextIsMeant ==
  \A x \in Strings :
    /\ string[x].text = meant[x] /\ string[x].len = Len(meant[x])
    /\ string[x].len <= string[x].capacity

\* a comes before b in the dictionary.
Before(a, b) ==
  \E k \in 1 .. Len(b) :
    /\ k - 1 <= Len(a) /\ SubSeq(a, 1, k - 1) = SubSeq(b, 1, k - 1)
    /\ k > Len(a) \/ Code[a[k]] < Code[b[k]]

\* The questions about strings have the answers of their texts, an object that
\* lost its memory being the empty text: two are equal in one sense or in
\* another, one begins or ends with the other, a text or a character occurs
\* first or last at a place (WString.cpp:432-612).
QueriesAreSound ==
  \A x, y \in Strings :
    LET s == string[x]  t == string[y]  text == meant[x]  other == meant[y]
        Found(p, from, find) ==
          IF p = -1 THEN ~\E q \in from .. Len(text) - 1 : StandsAt(text, q, find)
          ELSE StandsAt(text, p, find) /\ p >= from /\ ~\E q \in from .. p - 1 : StandsAt(text, q, find)
    IN /\ equals(s, t) = (text = other)
       /\ (compareTo(s, t) < 0) = Before(text, other) /\ (compareTo(s, t) > 0) = Before(other, text)
       /\ equalsIgnoreCase(s, t) = equals(toUpperCase(s), toUpperCase(t))
       /\ (s.valid /\ t.valid) =>
            /\ endsWith(s, t) = \E n \in 0 .. Len(text) : SubSeq(text, n + 1, Len(text)) = other
            /\ \A from \in 0 .. Len(text) :
                 /\ startsWith(s, t, from) = StandsAt(text, from, other)
                 /\ Found(indexOf(s, t, from), from, other)
       /\ \A from \in 0 .. Len(text), ch \in DOMAIN Code :
            /\ Found(indexOfChar(s, ch, from), from, << ch >>)
            /\ from < Len(text) =>
                 \A q \in 0 .. from : (q = lastIndexOfChar(s, ch, from)) =
                   (text[q + 1] = ch /\ \A r \in q + 1 .. from : text[r + 1] # ch)
            /\ \A size \in 1 .. Len(text) + 2 :
                 \A k \in 1 .. size - 1 :
                   k <= Len(text) - from => getBytes(s, size, from)[k] = text[from + k]

=============================================================================
