------------------------------- MODULE SdNames -------------------------------
(***************************************************************************)
(* Names, paths and dates of the SD library: the eleven characters that a  *)
(* directory entry keeps of a name, the two readers of paths, which cut    *)
(* them into names in different ways (SD.cpp), and the sixteen bits that   *)
(* an entry keeps of a date and of a time (SdFat.h, SdFile.cpp).           *)
(*                                                                         *)
(* A text is a sequence of characters.  Modules SdFile and SdTree take     *)
(* names and paths as they come out of here.                               *)
(***************************************************************************)
EXTENDS Integers, Sequences, SequencesExt, FiniteSetsExt

CONSTANTS
  NameLen, ExtLen,    \* 8 and 3
  NameTexts,          \* texts that the sketch gives as names
  PathTexts,          \* and as paths
  Instants,           \* << year, month, day, hour, minute, second >>
  NotInstants,        \* and such that are none
  MaxStamps           \* bound: changes of the entry's dates

UpperCase == "x" :> "X"
Illegal == { "*", "?" }         \* and what is not printable
EntryLen == NameLen + ExtLen
MAX_COMPONENT_LEN == NameLen + 1 + ExtLen

VARIABLES
  textGiven,    \* the text that a name or the names of a path were made of
  nameMade,     \* what they are
  entryDates,   \* the dates of an entry
  dirDirty,     \* F_FILE_DIR_DIRTY
  dateTime_,    \* what the callback of the sketch says, or << >> without one
  dated,        \* the instants of creation and of the last write
  stamps

nameVars == << textGiven, nameMade, entryDates, dirDirty, dateTime_, dated, stamps >>

(***************************************************************************)
(* Names.                                                                  *)
(***************************************************************************)
Upper(c) == IF c \in DOMAIN UpperCase THEN UpperCase[c] ELSE c
NoName == [ok |-> FALSE, name |-> << >>]

\* i is the place of the next character, n the last one for the part it is in.
make83Name(text) ==
  LET blank == [ok |-> TRUE, i |-> 1, n |-> NameLen, name |-> [k \in 1 .. EntryLen |-> " "]]
      Put(s, c) ==
        IF ~s.ok THEN s
        ELSE IF c = "." THEN IF s.n = EntryLen THEN [s EXCEPT !.ok = FALSE]
                             ELSE [s EXCEPT !.n = EntryLen, !.i = NameLen + 1]
        ELSE IF c \in Illegal \/ s.i > s.n THEN [s EXCEPT !.ok = FALSE]
        ELSE [s EXCEPT !.name[s.i] = Upper(c), !.i = @ + 1]
      made == FoldLeft(Put, blank, text)
  IN IF made.ok /\ made.name[1] # " " THEN [ok |-> TRUE, name |-> made.name] ELSE NoName

dirName(name) ==
  LET Shown(from, to) == SelectSeq(SubSeq(name, from, to), LAMBDA c : c # " ")
      ext == Shown(NameLen + 1, EntryLen)
  IN Shown(1, NameLen) \o (IF name[NameLen + 1] # " " THEN << "." >> ELSE << >>) \o ext

\* With a slash behind a directory, and blanks up to the width.
printDirName(name, isDir, width) ==
  LET shown == dirName(name) \o (IF isDir THEN << "/" >> ELSE << >>)
  IN shown \o [k \in 1 .. IF Len(shown) < width THEN width - Len(shown) ELSE 0 |-> " "]

(***************************************************************************)
(* Paths.                                                                  *)
(***************************************************************************)
Slashes(text) == { k \in DOMAIN text : text[k] = "/" }
From(text, k) == SubSeq(text, k, Len(text))
SkipSlash(text) == IF text # << >> /\ Head(text) = "/" THEN Tail(text) ELSE text

\* The first name of a path, and what is left of it.
getNextPathComponent(path) ==
  LET text == SkipSlash(path)
      end  == Min({ k - 1 : k \in Slashes(text) } \cup { Len(text), MAX_COMPONENT_LEN })
  IN [component |-> SubSeq(text, 1, end), rest |-> SkipSlash(From(text, end + 1))]

\* The names that walkPath() calls back for.
walked(path) ==
  LET next == getNextPathComponent(path)
      go[rest \in { From(path, k) : k \in 1 .. Len(path) + 1 }] ==
        LET n == getNextPathComponent(rest)
        IN << n.component >> \o (IF n.rest = << >> THEN << >> ELSE go[n.rest])
  IN go[path]

\* The directories that getParentDir() opens, and the rest, the file in them.
getParentNames(path) ==
  LET go[rest \in { From(path, k) : k \in 1 .. Len(path) + 1 }] ==
        IF Slashes(rest) = {} THEN << rest >>
        ELSE IF Head(rest) = "/" THEN go[Tail(rest)]
        ELSE LET idx == Min({ Min(Slashes(rest)) - 1, MAX_COMPONENT_LEN })
             IN << SubSeq(rest, 1, idx) >> \o go[From(rest, idx + 1)]
  IN go[path]

AskForName ==
  /\ textGiven = << >> /\ stamps = 0
  /\ \E text \in NameTexts :
       textGiven' = << "name", text >> /\ nameMade' = make83Name(text)
  /\ UNCHANGED << entryDates, dirDirty, dateTime_, dated, stamps >>

AskForPath ==
  /\ textGiven = << >> /\ stamps = 0
  /\ \E text \in PathTexts :
       textGiven' = << "path", text >> /\ nameMade' = [walked |-> walked(text), opened |-> getParentNames(text)]
  /\ UNCHANGED << entryDates, dirDirty, dateTime_, dated, stamps >>

(***************************************************************************)
(* Dates.                                                                  *)
(***************************************************************************)
FAT_DATE(i) == ((i[1] - 1980) * 2^9 + i[2] * 2^5 + i[3]) % 2^16
FAT_TIME(i) == (i[4] * 2^11 + i[5] * 2^5 + i[6] \div 2) % 2^16

FAT_YEAR(d)   == 1980 + d \div 2^9
FAT_MONTH(d)  == (d \div 2^5) % 2^4
FAT_DAY(d)    == d % 2^5
FAT_HOUR(t)   == t \div 2^11
FAT_MINUTE(t) == (t \div 2^5) % 2^6
FAT_SECOND(t) == 2 * (t % 2^5)

printTwoDigits(v) == << v \div 10, v % 10 >>
printFatDate(d) == << FAT_YEAR(d) >> \o printTwoDigits(FAT_MONTH(d)) \o printTwoDigits(FAT_DAY(d))
printFatTime(t) ==
  printTwoDigits(FAT_HOUR(t)) \o printTwoDigits(FAT_MINUTE(t)) \o printTwoDigits(FAT_SECOND(t))

DefaultInstant == << 2000, 1, 1, 1, 0, 0 >>   \* FAT_DEFAULT_DATE, FAT_DEFAULT_TIME
DateNow(default) == IF dateTime_ = << >> THEN default ELSE dateTime_

SetWritten(e, i) == [e EXCEPT !.lastWriteDate = FAT_DATE(i), !.lastWriteTime = FAT_TIME(i)]
SetCreated(e, i) == [e EXCEPT !.creationDate = FAT_DATE(i), !.creationTime = FAT_TIME(i),
                              !.creationTimeTenths = IF i[6] % 2 = 1 THEN 100 ELSE 0]
SetAccess(e, i)  == [e EXCEPT !.lastAccessDate = FAT_DATE(i)]

\* What open() puts in a new entry: the tenths stay 0.
NewEntry(i) ==
  [creationDate |-> FAT_DATE(i), creationTime |-> FAT_TIME(i), creationTimeTenths |-> 0,
   lastAccessDate |-> FAT_DATE(i), lastWriteDate |-> FAT_DATE(i), lastWriteTime |-> FAT_TIME(i)]

\* A change of the dates, which ends in sync(): the callback's date overwrites
\* those of the last write if the entry is dirty.
Synced(e, m) ==
  LET overwrites == dirDirty /\ dateTime_ # << >>
  IN /\ entryDates' = IF overwrites THEN SetAccess(SetWritten(e, dateTime_), dateTime_) ELSE e
     /\ dated' = IF overwrites THEN [m EXCEPT !.written = dateTime_, !.accessed = dateTime_] ELSE m
     /\ dirDirty' = FALSE

sync ==
  /\ Synced(entryDates, dated)
  /\ UNCHANGED dateTime_

timestamp ==
  /\ \E flags \in SUBSET { "T_ACCESS", "T_CREATE", "T_WRITE" }, i \in Instants \cup NotInstants :
       LET valid == /\ i[1] \in 1980 .. 2107 /\ i[2] \in 1 .. 12 /\ i[3] \in 1 .. 31
                    /\ i[4] <= 23 /\ i[5] <= 59 /\ i[6] <= 59
           a == IF "T_ACCESS" \in flags THEN SetAccess(entryDates, i) ELSE entryDates
           c == IF "T_CREATE" \in flags THEN SetCreated(a, i) ELSE a
           w == IF "T_WRITE" \in flags THEN SetWritten(c, i) ELSE c
       IN IF valid
          THEN Synced(w, [created  |-> IF "T_CREATE" \in flags THEN i ELSE dated.created,
                          written  |-> IF "T_WRITE" \in flags THEN i ELSE dated.written,
                          accessed |-> IF "T_ACCESS" \in flags THEN i ELSE dated.accessed])
          ELSE UNCHANGED << entryDates, dated, dirDirty >>
  /\ UNCHANGED dateTime_

\* Bytes are written: the entry is dirty when the file grows, or when there is
\* a callback to ask for the date.
WriteData ==
  /\ \E grows \in BOOLEAN : dirDirty' = (dirDirty \/ grows \/ dateTime_ # << >>)
  /\ UNCHANGED << entryDates, dated, dateTime_ >>

\* dateTimeCallback(), dateTimeCallbackCancel(), and time that goes on.
dateTimeCallback ==
  /\ dateTime_' \in Instants \cup { << >> }
  /\ UNCHANGED << entryDates, dated, dirDirty >>

Stamp ==
  /\ textGiven = << >> /\ stamps < MaxStamps /\ stamps' = stamps + 1
  /\ sync \/ timestamp \/ WriteData \/ dateTimeCallback
  /\ UNCHANGED << textGiven, nameMade >>

\* A file is created at some instant.
NameInit ==
  /\ textGiven = << >> /\ nameMade = NoName /\ dirDirty = FALSE /\ stamps = 0
  /\ dateTime_ \in Instants \cup { << >> }
  /\ LET i == DateNow(DefaultInstant)
     IN entryDates = NewEntry(i) /\ dated = [created |-> << i[1], i[2], i[3], i[4], i[5], i[6] - (i[6] % 2) >>,
                                    written |-> i, accessed |-> i]

NameNext == AskForName \/ AskForPath \/ Stamp

NameSpec == NameInit /\ [][NameNext]_nameVars

NameTypeOK ==
  /\ textGiven = << >> \/ textGiven[1] \in { "name", "path" }
  /\ \A f \in DOMAIN entryDates : entryDates[f] \in 0 .. 2^16 - 1
  /\ dirDirty \in BOOLEAN /\ dateTime_ \in Instants \cup { << >> } /\ stamps \in 0 .. MaxStamps

(***************************************************************************)
(* Properties.                                                             *)
(***************************************************************************)
Uppercased(text) == [k \in DOMAIN text |-> Upper(text[k])]

\* A text is taken as a name if and only if it is one to eight characters that
\* are allowed, and after a dot up to three; the entry gives it back in
\* capitals, so a listing shows it and two texts share an entry only if they
\* differ in case (SdFile.cpp:180-188, :247-278, :593-612).
NameIsKept ==
  (textGiven # << >> /\ textGiven[1] = "name") =>
    LET text == textGiven[2]
        dots == { k \in DOMAIN text : text[k] = "." }
        base == IF dots = {} THEN text ELSE SubSeq(text, 1, Min(dots) - 1)
        ext  == IF dots = {} THEN << >> ELSE From(text, Min(dots) + 1)
        plain == IF ext = << >> THEN base ELSE text
    IN /\ nameMade.ok <=> /\ Len(base) \in 1 .. NameLen /\ Len(ext) <= ExtLen
                        /\ Range(base \o ext) \cap (Illegal \cup { "." }) = {}
       /\ nameMade.ok =>
            /\ dirName(nameMade.name) = Uppercased(plain)
            /\ make83Name(dirName(nameMade.name)) = nameMade
            /\ \A isDir \in BOOLEAN :
                 LET shown == printDirName(nameMade.name, isDir, MAX_COMPONENT_LEN + 2)
                 IN Len(shown) = MAX_COMPONENT_LEN + 2 /\ IsPrefix(Uppercased(plain), shown)

\* The two readers find the same names in a path, those between its slashes,
\* if there are no two slashes in a row and no name longer than twelve
\* characters; open() takes what follows the last slash as the file, the others
\* the name before it (SD.cpp:61-117, :353-406).
Pieces83(path) ==
  LET marks == Slashes(path) \cup { 0, Len(path) + 1 }
      Next_(k) == Min({ m \in marks : m > k })
      starts == SetToSortSeq({ k \in marks : k <= Len(path) }, LAMBDA a, b : a < b)
  IN SelectSeq([i \in DOMAIN starts |-> SubSeq(path, starts[i] + 1, Next_(starts[i]) - 1)],
               LAMBDA piece : piece # << >>)
ReadersAgree ==
  (textGiven # << >> /\ textGiven[1] = "path") =>
    LET path   == textGiven[2]
        names  == Pieces83(path)
        simple == /\ \A k \in Slashes(path) : k + 1 \notin Slashes(path)
                  /\ \A k \in DOMAIN names : Len(names[k]) <= MAX_COMPONENT_LEN
    IN (simple /\ names # << >>) =>
         /\ nameMade.walked = names
         /\ nameMade.opened = IF Last(path) = "/" THEN Append(names, << >>) ELSE names

\* The dates of an entry are, to two seconds, the instants of its creation and
\* of its last write, whichever of the calls and of the callback said them
\* last; the odd second of a creation is kept by the tenths; and of two
\* instants the later one is the larger number (SdFat.h:97-131,
\* SdFile.cpp:450-461, :973-984, :1025-1059).
Even(i) == << i[4] \div 10, i[4] % 10, i[5] \div 10, i[5] % 10, i[6] \div 10, (i[6] % 10) - (i[6] % 2) >>
Day(i) == << i[1], i[2] \div 10, i[2] % 10, i[3] \div 10, i[3] % 10 >>
Earlier(i, j) ==
  \E k \in 1 .. 6 : i[k] < j[k] /\ \A l \in 1 .. k - 1 : i[l] = j[l]
DatesAreMeant ==
  /\ printFatDate(entryDates.creationDate) = Day(dated.created)
  /\ printFatTime(entryDates.creationTime) = Even(dated.created)
  /\ FAT_SECOND(entryDates.creationTime) + entryDates.creationTimeTenths \div 100 = dated.created[6]
  /\ printFatDate(entryDates.lastWriteDate) = Day(dated.written)
  /\ printFatTime(entryDates.lastWriteTime) = Even(dated.written)
  /\ printFatDate(entryDates.lastAccessDate) = Day(dated.accessed)
  /\ \A j \in Instants :
       Earlier(dated.written, j) =>
         \/ FAT_DATE(dated.written) < FAT_DATE(j)
         \/ FAT_DATE(dated.written) = FAT_DATE(j) /\ FAT_TIME(dated.written) <= FAT_TIME(j)

=============================================================================
