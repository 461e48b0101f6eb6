------------------------------ MODULE Caterina -------------------------------
(***************************************************************************)
(* The boot loader that speaks AVR910 over USB (Caterina.c): CDC_Task()    *)
(* and ReadWriteMemoryBlock() against a host that stops at any point, and  *)
(* the timer interrupt that counts towards the start of the sketch.        *)
(*                                                                         *)
(* Memory is counted in words of flash (CurrAddress / 2); a word is sent   *)
(* as a whole.  Flash that was written cannot be read until it is enabled. *)
(***************************************************************************)
EXTENDS Integers, Sequences

CONSTANTS
  Pages, PageWords, \* pages of the application, words in one
  Data, Erased, Mixed,
  TIMEOUT_PERIOD, Grace,
  MaxCommands       \* bound: commands of the host

ASSUME CaterinaAssumption ==
  /\ { Pages, PageWords, TIMEOUT_PERIOD } \subseteq Nat \ {0} /\ Grace \in 0 .. TIMEOUT_PERIOD
  /\ Erased \notin Data /\ Mixed \notin Data /\ Mixed # Erased
  /\ MaxCommands \in Nat

FlashAddresses == 0 .. Pages * PageWords - 1
PageOf(a) == a \div PageWords
EmptyBuffer == [i \in 0 .. PageWords - 1 |-> Erased]

VARIABLES
  RunBootloader,    \* the loop of main() goes on
  Timeout, timer,   \* the count, and TIMSK1
  CurrAddress,
  flash, fill,      \* the memory, and the buffer of the page to be written
  readable,         \* the application section may be read
  left, start,      \* words of a block to come; PageStartAddress
  attached,
  commands,         \* how many the host has given
  intended,         \* what the host has sent, by address
  quiet, exited     \* ticks since the last block command; 'E' was given since

catMemory == << flash, fill, readable, intended >>
catTime   == << Timeout, timer, quiet, exited >>
catVars   == << RunBootloader, catTime, CurrAddress, catMemory, left, start, attached, commands >>

\* What can be read of a word.
pgm_read_word(a) == IF readable THEN flash[a] ELSE Erased
SketchPresent    == pgm_read_word(0) # Erased

\* Flash bits can only be cleared by a write.
Written(old, new) == IF new = Erased THEN old ELSE IF old = Erased THEN new ELSE Mixed

boot_page_write(a, f, buffer) ==
  [w \in FlashAddresses |-> IF PageOf(w) = PageOf(a) THEN Written(f[w], buffer[w % PageWords]) ELSE f[w]]
boot_page_erase(a, f) ==
  [w \in FlashAddresses |-> IF PageOf(w) = PageOf(a) THEN Erased ELSE f[w]]

\* A command comes when the loop of main() calls CDC_Task().
Command ==
  /\ RunBootloader /\ left = 0 /\ attached
  /\ commands < MaxCommands /\ commands' = commands + 1

(***************************************************************************)
(* Commands.                                                               *)
(***************************************************************************)
SetAddress ==
  /\ Command /\ CurrAddress' \in FlashAddresses
  /\ UNCHANGED << RunBootloader, catTime, catMemory, left, start, attached >>

\* 'e' clears the application section.
EraseAll ==
  /\ Command
  /\ flash' = [a \in FlashAddresses |-> Erased] /\ intended' = flash' /\ readable' = FALSE
  /\ UNCHANGED << RunBootloader, catTime, CurrAddress, fill, left, start, attached >>

\* 'E': little of the time is left.
Exit ==
  /\ Command
  /\ Timeout' = TIMEOUT_PERIOD - Grace /\ exited' = TRUE /\ readable' = TRUE
  /\ UNCHANGED << RunBootloader, timer, quiet, CurrAddress, flash, fill, intended, left, start, attached >>

\* 'B' to flash: the page is erased first, and the timer stands still.
BlockWrite ==
  /\ Command
  /\ \E size \in 1 .. PageWords - (CurrAddress % PageWords) : left' = size
  /\ start' = CurrAddress /\ flash' = boot_page_erase(CurrAddress, flash)
  /\ intended' = boot_page_erase(CurrAddress, intended)
  /\ Timeout' = 0 /\ quiet' = 0 /\ exited' = FALSE /\ timer' = FALSE /\ readable' = FALSE
  /\ UNCHANGED << RunBootloader, CurrAddress, fill, attached >>

\* FetchNextCommandByte(), twice, and boot_page_fill(); after the last word
\* the page is written.  A host that is gone sends nothing but 0.
BlockWord ==
  /\ left > 0
  /\ \E w \in Data :
       LET buffer == [fill EXCEPT ![CurrAddress % PageWords] = w] IN
       /\ attached \/ w = CHOOSE d \in Data : TRUE
       /\ intended' = IF attached THEN [intended EXCEPT ![CurrAddress] = w] ELSE intended
       /\ IF left = 1 THEN flash' = boot_page_write(start, flash, buffer) /\ fill' = EmptyBuffer
                      ELSE fill' = buffer /\ UNCHANGED flash
  /\ left' = left - 1 /\ timer' = (left = 1)
  /\ CurrAddress' = (CurrAddress + 1) % (Pages * PageWords)
  /\ UNCHANGED << RunBootloader, Timeout, quiet, exited, readable, start, attached, commands >>

\* 'g' of flash.
BlockRead ==
  /\ Command
  /\ Timeout' = 0 /\ quiet' = 0 /\ exited' = FALSE /\ readable' = TRUE
  /\ \E size \in 1 .. PageWords : CurrAddress' = (CurrAddress + size) % (Pages * PageWords)
  /\ UNCHANGED << RunBootloader, timer, flash, fill, intended, left, start, attached >>

\* The timer interrupt, while it is on; and main(), which looks at the count.
TimerTick ==
  /\ RunBootloader /\ timer /\ Timeout <= TIMEOUT_PERIOD
  /\ Timeout' = IF SketchPresent THEN Timeout + 1 ELSE Timeout
  /\ quiet' = IF quiet <= TIMEOUT_PERIOD THEN quiet + 1 ELSE quiet
  /\ UNCHANGED << RunBootloader, timer, exited, CurrAddress, catMemory, left, start, attached, commands >>

TimesOut ==
  /\ RunBootloader /\ left = 0 /\ Timeout > TIMEOUT_PERIOD
  /\ RunBootloader' = FALSE
  /\ UNCHANGED << catTime, CurrAddress, catMemory, left, start, attached, commands >>

Unplug ==
  /\ attached /\ attached' = FALSE
  /\ UNCHANGED << RunBootloader, catTime, CurrAddress, catMemory, left, start, commands >>

CaterinaInit ==
  /\ RunBootloader = TRUE /\ Timeout = 0 /\ timer = TRUE /\ CurrAddress = 0
  /\ \E w \in Data \cup { Erased } : flash = [a \in FlashAddresses |-> w]
  /\ fill = EmptyBuffer /\ readable = TRUE /\ left = 0 /\ start = 0 /\ attached = TRUE
  /\ commands = 0 /\ intended = flash /\ quiet = 0 /\ exited = FALSE

CaterinaNext ==
  \/ SetAddress \/ EraseAll \/ Exit \/ BlockWrite \/ BlockWord \/ BlockRead
  \/ TimerTick \/ TimesOut \/ Unplug

\* The host ends a block that it has begun.
CaterinaSpec ==
  /\ CaterinaInit /\ [][CaterinaNext]_catVars
  /\ WF_catVars(BlockWord) /\ WF_catVars(TimerTick) /\ WF_catVars(TimesOut)

CaterinaTypeOK ==
  /\ { RunBootloader, timer, readable, attached, exited } \subseteq BOOLEAN
  /\ Timeout \in 0 .. TIMEOUT_PERIOD + 1 /\ quiet \in 0 .. TIMEOUT_PERIOD + 1
  /\ CurrAddress \in FlashAddresses /\ start \in FlashAddresses /\ left \in 0 .. PageWords
  /\ flash \in [FlashAddresses -> Data \cup { Erased, Mixed }] /\ intended \in [FlashAddresses -> Data \cup { Erased }]
  /\ fill \in [0 .. PageWords - 1 -> Data \cup { Erased }] /\ commands \in 0 .. MaxCommands

(***************************************************************************)
(* Properties.                                                             *)
(***************************************************************************)

\* Between blocks, flash holds what the host has sent for each address and
\* nothing else, wherever in a page a block begins and though the address has
\* moved on when the page is written; a cable that is pulled harms the page of
\* the last block only (Caterina.c:343-382).
FlashIsSent ==
  left = 0 => \A a \in FlashAddresses : attached \/ PageOf(a) # PageOf(start) => flash[a] = intended[a]

\* The sketch starts only when the host has been silent for the whole period,
\* or has said that it is done, never between two blocks of an upload.
StartsWhenQuiet == ~RunBootloader => exited \/ quiet > TIMEOUT_PERIOD

\* "Time out and start the sketch if one is present" (Caterina.c:157), once
\* the host gives no more commands and flash can be read.
SketchStarts ==
  []<>(commands = MaxCommands /\ left = 0 /\ SketchPresent => ~RunBootloader)

=============================================================================
