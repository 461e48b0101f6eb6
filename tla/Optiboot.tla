------------------------------ MODULE Optiboot -------------------------------
(***************************************************************************)
(* The boot loader that speaks STK500 over the UART (optiboot.c), on a     *)
(* part with a virtual boot partition: the reset vector of the application *)
(* is kept in another vector, and the reset vector leads to the loader.    *)
(*                                                                         *)
(* Characters come one at a time, good or with a framing error; a word of  *)
(* flash, its address and a length are a character each, and the arguments *)
(* that the loader ignores are two.  The watchdog ends whatever does not   *)
(* go on.  The application uses the RAM as it likes.                       *)
(***************************************************************************)
EXTENDS Integers, Sequences

CONSTANTS
  PageSize, LastPage, \* words in a page; the number of the last page
  save_vect_num,      \* the vector that keeps the reset vector
  AppWords,               \* words of an application
  Loader, Blank, Unset, \* the jump to the loader, erased flash, RAM after power on
  WATCHDOG_1S, WATCHDOG_16MS,
  MaxChars, MaxEvents \* bounds: characters, but for bad commands and spaces; resets and losses of power

ASSUME OptibootAssumption ==
  /\ PageSize \in Nat \ {0} /\ LastPage \in Nat /\ save_vect_num \in 1 .. PageSize - 1
  /\ AppWords \cap { Loader, Blank, Unset } = {} /\ Loader # Blank
  /\ { WATCHDOG_1S, WATCHDOG_16MS } \subseteq Nat \ {0} /\ WATCHDOG_1S >= WATCHDOG_16MS
  /\ { MaxChars, MaxEvents } \subseteq Nat

Cells == 0 .. (LastPage + 1) * PageSize - 1
Page(a) == a \div PageSize

VARIABLES
  optPc,             \* "boot"; "stuck" in a loop; "erase", "write" of a page; or "app"
  command, args,    \* the command being read, and its arguments so far
  address,
  cells,            \* flash
  buff,             \* the page to be written, in RAM
  rstVect, saveVect,\* rstVect_sav and saveVect_sav, in RAM
  period, wdtLeft,  \* of the watchdog
  programmed,       \* what the host has programmed since power on, by address
  misread,          \* a READ_PAGE has returned something else
  chars, events

optMemory == << address, cells, buff, rstVect, saveVect, programmed, misread >>
optVars   == << optPc, command, args, optMemory, period, wdtLeft, chars, events >>

NoArgs    == << >>
\* "ignored" is SET_DEVICE, SET_DEVICE_EXT or UNIVERSAL; "other" is READ_SIGN,
\* ENTER_PROGMODE or what is none.
Commands  == { "GET_PARAMETER", "ignored", "LOAD_ADDRESS", "PROG_PAGE", "READ_PAGE",
               "LEAVE_PROGMODE", "other" }

\* How many characters come before CRC_EOP; the length of a page comes first.
Needs(c, a) ==
  CASE c = "PROG_PAGE" -> IF a = NoArgs THEN 1 ELSE 2 + a[1].length
    [] c = "READ_PAGE" -> 2
    [] c \in { "GET_PARAMETER", "LOAD_ADDRESS" } -> 1
    [] c = "ignored" -> 2
    [] OTHER -> 0

\* The next character has to be CRC_EOP.
AtSpace == command # "none" /\ Len(args) = Needs(command, args)

PageLengths == [length : 1 .. PageSize]
PageStarts  == { p * PageSize : p \in 0 .. LastPage }

\* What a host sends next, out of step with the loader at times.
Expected ==
  IF command = "none" THEN Commands
  ELSE IF AtSpace THEN { "CRC_EOP", "any" }
  ELSE CASE command \in { "PROG_PAGE", "READ_PAGE" } /\ args = NoArgs -> PageLengths
         [] command \in { "PROG_PAGE", "READ_PAGE" } /\ Len(args) = 1 -> { "F", "E" }
         [] command = "PROG_PAGE" /\ Len(args) > 1 -> AppWords
         [] command = "LOAD_ADDRESS" -> PageStarts
         [] OTHER -> { "any" }

(***************************************************************************)
(* The commands, after verifySpace().                                      *)
(***************************************************************************)
\* Mutant: the vectors are not patched.
PatchedNever(words) == words

\* The words of a page as they go to flash, if the page is as long.
Patched(words) ==
  IF address # 0 THEN words
  ELSE [a \in DOMAIN words |-> IF a = 0 THEN Loader ELSE IF a = save_vect_num THEN words[0] ELSE words[a]]

\* The word that the host meant for a place of the page.
Meant(a) ==
  CASE address = 0 /\ a = 0 -> rstVect
    [] address = 0 /\ a = save_vect_num -> saveVect
    [] OTHER -> buff[a]

\* A page is patched before it is known to be for the EEPROM, which only
\* stops the loader: what it kept of the vectors is no more theirs.
ProgPage ==
  /\ buff' = Patched(buff)
  /\ IF address = 0 THEN rstVect' = buff[0] /\ saveVect' = buff[save_vect_num]
                    ELSE UNCHANGED << rstVect, saveVect >>
  /\ optPc' = IF args[2] = "E" THEN "stuck" ELSE "erase"
  /\ programmed' = IF address = 0 THEN [programmed EXCEPT ![0] = Unset, ![save_vect_num] = Unset] ELSE programmed
  /\ UNCHANGED misread

\* read_mem() undoes the patch from what RAM holds.
ReadWord(a) == CASE a = 0 -> rstVect [] a = save_vect_num -> saveVect [] OTHER -> cells[a]

\* A vector that was programmed before the application ran reads as anything.
ReadPage ==
  /\ misread' = (misread \/ \E a \in Cells :
                   /\ a \in address .. address + args[1].length - 1
                   /\ programmed[a] # Unset /\ ReadWord(a) \notin { programmed[a], Unset })
  /\ UNCHANGED << optPc, buff, rstVect, saveVect, programmed >>

Execute(c) ==
  CASE c = "PROG_PAGE" -> ProgPage
    [] c = "READ_PAGE" -> ReadPage
    [] OTHER -> UNCHANGED << optPc, buff, rstVect, saveVect, programmed, misread >>

(***************************************************************************)
(* getch(): a character with a framing error is used, but does not keep    *)
(* the watchdog quiet.                                                     *)
(***************************************************************************)
TakeChar(char) ==
  IF command = "none"
  THEN /\ command' = (IF char \in Commands THEN char ELSE "other") /\ args' = NoArgs
       /\ period' = IF char = "LEAVE_PROGMODE" THEN WATCHDOG_16MS ELSE period
       /\ UNCHANGED << optPc, address, buff, rstVect, saveVect, programmed, misread >>
  ELSE IF Len(args) < Needs(command, args)
  THEN /\ args' = Append(args, char)
       /\ address' = IF command = "LOAD_ADDRESS" THEN char ELSE address
       /\ buff' = IF command = "PROG_PAGE" /\ Len(args) >= 2 THEN [buff EXCEPT ![Len(args) - 2] = char] ELSE buff
       /\ UNCHANGED << optPc, command, period, rstVect, saveVect, programmed, misread >>
  ELSE /\ IF char = "CRC_EOP" THEN Execute(command) /\ UNCHANGED period
          ELSE /\ optPc' = "stuck" /\ period' = WATCHDOG_16MS
               /\ UNCHANGED << buff, rstVect, saveVect, programmed, misread >>
       /\ command' = "none" /\ args' = args /\ UNCHANGED address

GoodChar ==
  /\ optPc = "boot" /\ chars < MaxChars /\ chars' = chars + 1
  /\ \E char \in Expected : TakeChar(char)
  /\ wdtLeft' = period'
  /\ UNCHANGED << cells, events >>

\* What the host has not meant, as a command or a space, or as an argument.
BadChar ==
  /\ optPc = "boot"
  /\ IF command = "none" \/ AtSpace THEN TakeChar("any") /\ UNCHANGED chars
     ELSE chars < MaxChars /\ chars' = chars + 1 /\ \E char \in Expected : TakeChar(char)
  /\ wdtLeft' = IF period' # period THEN period' ELSE wdtLeft
  /\ UNCHANGED << cells, events >>

\* writebuffer(): the page is erased, then written.
ErasePage ==
  /\ optPc = "erase" /\ optPc' = "write"
  /\ cells' = [a \in Cells |-> IF Page(a) = Page(address) THEN Blank ELSE cells[a]]
  /\ programmed' = [a \in Cells |-> IF Page(a) = Page(address) THEN Unset ELSE programmed[a]]
  /\ UNCHANGED << command, args, address, buff, rstVect, saveVect, misread, period, wdtLeft,
                  chars, events >>

WritePage ==
  LET written == { a \in Cells : Page(a) = Page(address) /\ a % PageSize < args[1].length } IN
  /\ optPc = "write" /\ optPc' = "boot"
  /\ cells' = [a \in Cells |-> IF a \in written THEN buff[a % PageSize] ELSE cells[a]]
  /\ programmed' = [a \in Cells |-> IF a \in written THEN Meant(a % PageSize) ELSE programmed[a]]
  /\ UNCHANGED << command, args, address, buff, rstVect, saveVect, misread, period, wdtLeft, chars, events >>

(***************************************************************************)
(* Resets: main() leaves at once for the application unless the reset pin  *)
(* was the only cause.                                                     *)
(***************************************************************************)
ResetTo(m) ==
  /\ optPc' = m /\ command' = "none" /\ args' = NoArgs /\ address' = 0
  /\ period' = WATCHDOG_1S /\ wdtLeft' = WATCHDOG_1S
  /\ UNCHANGED << cells, misread, chars >>

RamIsLost == buff' = [i \in 0 .. PageSize - 1 |-> Unset] /\ rstVect' = Unset /\ saveVect' = Unset

WatchdogTick ==
  /\ optPc \in { "boot", "stuck" }
  /\ IF wdtLeft > 1
     THEN /\ wdtLeft' = wdtLeft - 1
          /\ UNCHANGED << optPc, command, args, address, period, cells, buff, rstVect, saveVect, misread, chars >>
     ELSE ResetTo("app") /\ RamIsLost
  /\ UNCHANGED << programmed, events >>

ResetPin ==
  /\ events < MaxEvents /\ events' = events + 1 /\ ResetTo("boot")
  /\ UNCHANGED << buff, rstVect, saveVect, programmed >>

PowerLost ==
  /\ events < MaxEvents /\ events' = events + 1 /\ ResetTo("app") /\ RamIsLost
  /\ programmed' = [a \in Cells |-> Unset]

OptInit ==
  /\ optPc = "boot" /\ command = "none" /\ args = NoArgs /\ address = 0
  /\ cells = [a \in Cells |-> Blank] /\ buff = [i \in 0 .. PageSize - 1 |-> Unset]
  /\ rstVect = Unset /\ saveVect = Unset /\ period = WATCHDOG_1S /\ wdtLeft = WATCHDOG_1S
  /\ programmed = [a \in Cells |-> Unset] /\ misread = FALSE /\ chars = 0 /\ events = 0

OptNext ==
  \/ GoodChar \/ BadChar \/ ErasePage \/ WritePage \/ WatchdogTick \/ ResetPin \/ PowerLost

OptSpec == OptInit /\ [][OptNext]_optVars /\ WF_optVars(ErasePage \/ WritePage) /\ WF_optVars(WatchdogTick)

OptTypeOK ==
  /\ optPc \in { "boot", "stuck", "erase", "write", "app" } /\ command \in Commands \cup { "none" }
  /\ Len(args) <= 2 + PageSize /\ address \in Cells
  /\ cells \in [Cells -> AppWords \cup { Loader, Blank }]
  /\ { rstVect, saveVect } \subseteq AppWords \cup { Unset }
  /\ wdtLeft \in 1 .. WATCHDOG_1S /\ period \in { WATCHDOG_1S, WATCHDOG_16MS } /\ misread \in BOOLEAN

(***************************************************************************)
(* Properties.                                                             *)
(***************************************************************************)

\* Whenever power or the watchdog cuts an upload short, the reset vector is
\* that of the loader, or erased flash that runs on to it (optiboot.c:601-618).
LoaderIsKept == cells[0] \in { Loader, Blank }

\* A verify reads what was programmed, though the vectors in flash differ from
\* it; and the application starts at its own vector, which is where the loader
\* jumps (optiboot.c:601-618, :942-949).
UploadIsSound ==
  /\ ~misread
  /\ optPc \notin { "erase", "write" } =>
       \A a \in Cells : programmed[a] # Unset =>
         cells[a] = CASE a = 0 -> Loader
                      [] a = save_vect_num -> programmed[0]
                      [] OTHER -> programmed[a]

\* A host that falls silent, or goes on with framing errors only, leaves the
\* loader: "This should cause the bootloader to abort and run the application
\* "soon", if it keeps happening" (optiboot.c:757-763).
ApplicationStarts == []<>(optPc = "app")

=============================================================================
