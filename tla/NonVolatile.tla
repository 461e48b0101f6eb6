----------------------------- MODULE NonVolatile -----------------------------
(***************************************************************************)
(* The memory that keeps its contents without power: the flash, as the     *)
(* macros of boot.h, the boot loader's writebuffer() and the library       *)
(* Optiboot_flasher program it, and the EEPROM, as EEPROM.h does.          *)
(*                                                                         *)
(* A macro or a function is the sequence of the machine instructions that  *)
(* it stands for, and a step of the model executes one of them: between    *)
(* any two an interrupt may come, the memory may finish what it was doing, *)
(* or the power may go.  The chip (external) erases and writes a page by   *)
(* itself; meanwhile, and until told otherwise, the application section    *)
(* cannot be read, and an SPM counts only within four cycles of the store  *)
(* into its control register, which is refused while the EEPROM writes.    *)
(***************************************************************************)
EXTENDS Naturals, Sequences, FiniteSets, SequencesExt, Bitwise

CONSTANTS
  NvChips,      \* of "mega328", "mega1284" (17 address bits: RAMPZ) and "mega163" (alternate SPM)
  SPM_PAGESIZE, \* bytes in a page, even
  PageImages,   \* what pages are written with: sequences of SPM_PAGESIZE bytes
  PagesUsed,    \* what the loader and the sketch write
  ArrayPages,   \* how many pages the library's array has
  LockMasks,    \* boot lock bits asked for
  E2END, EeValues,
  MaxNvCalls,   \* calls of a behaviour
  Unguarded,    \* TRUE: the sketch uses macros with interrupts on, and flashes while the EEPROM writes
  HighArrays    \* TRUE: the library is given arrays in the upper half of the first 64 KB

VARIABLES
  nvChip,
  nvMemory,   \* which of the two memories the calls are about
  nvCalls,    \* how many calls there were
  nvRunner,   \* "loader" or "sketch"
  nvCode,     \* the instructions still to execute
  nvRegs,     \* Z, RAMPZ, r0, r1, the I flag, where SREG was saved, and a byte of a cell
  spmArmed,   \* what the control register was stored with, while SPM counts; else 0
  spmDoing,   \* what the memory is busy with: command (0: none), page and data
  rwwClosed,  \* the application section cannot be read
  pageBuffer, \* the temporary buffer: bytes
  nvPages, lockByte,
  eeBytes, eeDoing, \* the cell being written, or E2END + 1
  nvGot,      \* what the call has read so far
  \* Of the properties: what a call should read, the page or the cells that it may
  \* change, what the memory should hold where no reset came between, ...
  nvAsked, nvTarget, nvMeant, nvTorn, lockMeant, eeTarget, eeMeant, eeTorn,
  nvCrashed,  \* code was fetched from flash that could not be read
  eeWorn      \* a cell was written that had the value already

nvState == << nvChip, nvMemory, nvCalls, nvRunner >>
cpuState  == << nvCode, nvRegs, nvGot >>
spmState  == << spmArmed, spmDoing, rwwClosed, pageBuffer, nvPages, lockByte >>
eeState   == << eeBytes, eeDoing, eeWorn >>
nvGhosts  == << nvAsked, nvTarget, nvMeant, nvTorn, lockMeant, eeTarget, eeMeant, eeTorn >>
nvVars    == << nvState, cpuState, spmState, eeState, nvGhosts, nvCrashed >>

Blanks   == 255
BigChip  == nvChip = "mega1284"
Bank     == 4 * SPM_PAGESIZE                        \* what Z reaches: 64 KB
FlashSize    == IF BigChip THEN 2 * Bank ELSE Bank
AllPages == 0 .. FlashSize \div SPM_PAGESIZE - 1
EeCells    == 0 .. E2END

(***************************************************************************)
(* Instructions.                                                           *)
(***************************************************************************)
\* The bits of the control register.
SPMEN  == 1
PGERS  == 2
PGWRT  == 4
BLBSET == 8
RWWSRE == 16
SIGRD  == 32

__BOOT_PAGE_ERASE    == SPMEN + PGERS
__BOOT_PAGE_WRITE    == SPMEN + PGWRT
__BOOT_PAGE_FILL     == SPMEN
__BOOT_RWW_ENABLE    == SPMEN + RWWSRE
__BOOT_LOCK_BITS_SET == SPMEN + BLBSET
__BOOT_SIGROW_READ   == SPMEN + SIGRD

Ins(op, arg) == << [op |-> op, arg |-> arg, val |-> 0] >>
CellIns(op, i, v) == << [op |-> op, arg |-> i, val |-> v] >>

\* Z, and with the extended macros also RAMPZ, from a byte address.
Pointed(form, a) ==
  Ins("Z", a % Bank) \o (IF form = "extended" THEN Ins("RAMPZ", a \div Bank) ELSE << >>)

\* The old chips want two words after the SPM.
Spm(form, cmd) ==
  Ins("store", cmd) \o Ins("spm", 0) \o (IF form = "alternate" THEN Ins("word", 0) \o Ins("nop", 0) ELSE << >>)

PageFill(form, a, word)  == Ins("r1:r0", word) \o Pointed(form, a) \o Spm(form, __BOOT_PAGE_FILL) \o Ins("clr r1", 0)
PageErase(form, a)       == Pointed(form, a) \o Spm(form, __BOOT_PAGE_ERASE)
PageWrite(form, a)       == Pointed(form, a) \o Spm(form, __BOOT_PAGE_WRITE)
RwwEnable(form)          == Spm(form, __BOOT_RWW_ENABLE)
LockBitsSet(form, mask)  == Ins("Z", 1) \o Ins("r0", 255 - mask) \o Spm(form, __BOOT_LOCK_BITS_SET)
LockFuseBitsGet(address) == Ins("Z", address) \o Ins("store", __BOOT_LOCK_BITS_SET) \o Ins("lpm", 0)
SignatureByteGet(addr)   == Ins("Z", addr) \o Ins("store", __BOOT_SIGROW_READ) \o Ins("lpm", 0)

SpmBusyWait    == Ins("wait spm", 0)
EepromBusyWait == Ins("wait eeprom", 0)
Safe(macro)    == SpmBusyWait \o EepromBusyWait \o macro

\* The macros that the names without underscores stand for on this chip.
ChosenForm == IF nvChip = "mega163" THEN "alternate" ELSE IF BigChip THEN "extended" ELSE "plain"

WordOf(image, i) == image[i + 1] + 256 * image[i + 2]
WordStarts       == [n \in 1 .. SPM_PAGESIZE \div 2 |-> 2 * (n - 1)]

(***************************************************************************)
(* The machine: one instruction.                                           *)
(***************************************************************************)
Executes(op) == nvCode # << >> /\ Head(nvCode).op = op /\ nvCode' = Tail(nvCode)
Arg == Head(nvCode).arg
Val == Head(nvCode).val

\* Where Z points: a chip has as many bits of RAMPZ as it has banks.
Pointer == nvRegs.z + (IF BigChip THEN Bank * (nvRegs.rampz % 2) ELSE 0)
FlashPage(a) == a \div SPM_PAGESIZE

\* Four cycles: nothing else may be executed between the store and the SPM.
LoadRegister ==
  /\ \/ Executes("Z") /\ nvRegs' = [nvRegs EXCEPT !.z = Arg]
     \/ Executes("RAMPZ") /\ nvRegs' = [nvRegs EXCEPT !.rampz = Arg]
     \/ Executes("r1:r0") /\ nvRegs' = [nvRegs EXCEPT !.r0 = Arg % 256, !.r1 = Arg \div 256]
     \/ Executes("r0") /\ nvRegs' = [nvRegs EXCEPT !.r0 = Arg]
     \/ Executes("clr r1") /\ nvRegs' = [nvRegs EXCEPT !.r1 = 0]
     \/ Executes("cli") /\ nvRegs' = [nvRegs EXCEPT !.saved = nvRegs.i, !.i = FALSE]
     \/ Executes("restore") /\ nvRegs' = [nvRegs EXCEPT !.i = nvRegs.saved]
     \/ Executes("word") /\ UNCHANGED nvRegs
     \/ Executes("nop") /\ UNCHANGED nvRegs
  /\ spmArmed' = 0
  /\ UNCHANGED << nvState, nvGot, spmDoing, rwwClosed, pageBuffer, nvPages, lockByte,
                  eeState, nvGhosts, nvCrashed >>

\* The register takes nothing while the memory is busy.
StoreControl ==
  /\ Executes("store")
  /\ spmArmed' = IF spmDoing.cmd # 0 \/ eeDoing \in EeCells THEN 0 ELSE Arg
  /\ UNCHANGED << nvState, nvRegs, nvGot, spmDoing, rwwClosed, pageBuffer, nvPages, lockByte,
                  eeState, nvGhosts, nvCrashed >>

Nothing     == [cmd |-> 0, page |-> 0, data |-> 0]
NoRegs      == [z |-> 0, rampz |-> 0, r0 |-> 0, r1 |-> 0, i |-> FALSE, saved |-> FALSE, cell |-> 0]
ErasedPage == [n \in 0 .. SPM_PAGESIZE - 1 |-> Blanks]

\* A word of the buffer is written once; RWWSRE drops what is in it.
ExecuteSpm ==
  LET o == Pointer % SPM_PAGESIZE
      w == o - (o % 2)
  IN
  /\ Executes("spm")
  /\ spmArmed' = 0
  /\ pageBuffer' =
       IF spmArmed = __BOOT_PAGE_FILL /\ pageBuffer[w] = Blanks /\ pageBuffer[w + 1] = Blanks
       THEN [pageBuffer EXCEPT ![w] = nvRegs.r0, ![w + 1] = nvRegs.r1]
       ELSE IF spmArmed = __BOOT_RWW_ENABLE THEN ErasedPage ELSE pageBuffer
  /\ spmDoing' =
       IF spmArmed \in { __BOOT_PAGE_ERASE, __BOOT_PAGE_WRITE, __BOOT_LOCK_BITS_SET }
       THEN [cmd |-> spmArmed, page |-> FlashPage(Pointer), data |-> nvRegs.r0] ELSE spmDoing
  /\ rwwClosed' =
       IF spmArmed \in { __BOOT_PAGE_ERASE, __BOOT_PAGE_WRITE } THEN TRUE
       ELSE IF spmArmed = __BOOT_RWW_ENABLE THEN FALSE ELSE rwwClosed
  /\ nvCrashed' = (nvCrashed \/ (nvChip = "mega163" /\ Head(Tail(nvCode)).op # "word"))
  /\ UNCHANGED << nvState, nvRegs, nvGot, nvPages, lockByte, eeState, nvGhosts >>

\* The bits of the chip that LPM reads after a store: fuses and lock bits by Z, or
\* the signature; the lock byte is the second.
FuseOrLock(a)    == IF a = 1 THEN lockByte ELSE 96 + a
SignatureByte(a) == 30 + a

ExecuteLpm ==
  /\ Executes("lpm")
  /\ nvGot' = Append(nvGot,
       IF spmArmed = __BOOT_LOCK_BITS_SET THEN FuseOrLock(nvRegs.z)
       ELSE IF spmArmed = __BOOT_SIGROW_READ THEN SignatureByte(nvRegs.z)
       ELSE IF rwwClosed THEN Blanks ELSE nvPages[FlashPage(nvRegs.z)][nvRegs.z % SPM_PAGESIZE])
  /\ spmArmed' = 0
  /\ UNCHANGED << nvState, nvRegs, spmDoing, rwwClosed, pageBuffer, nvPages, lockByte,
                  eeState, nvGhosts, nvCrashed >>

WaitMemory ==
  /\ \/ Executes("wait spm") /\ spmDoing.cmd = 0
     \/ Executes("wait eeprom") /\ eeDoing \notin EeCells
  /\ spmArmed' = 0
  /\ UNCHANGED << nvState, nvRegs, nvGot, spmDoing, rwwClosed, pageBuffer, nvPages, lockByte,
                  eeState, nvGhosts, nvCrashed >>

\* pgm_read_byte(), and what optiboot_readPage() makes of 0 and of a blank byte.
ReadFlash ==
  LET byte == IF rwwClosed THEN Blanks ELSE nvPages[FlashPage(Arg)][Arg % SPM_PAGESIZE] IN
  /\ Executes("pgm")
  /\ nvGot' = Append(nvGot, IF byte \in { 0, 255 } THEN Val ELSE byte)
  /\ spmArmed' = 0
  /\ UNCHANGED << nvState, nvRegs, spmDoing, rwwClosed, pageBuffer, nvPages, lockByte,
                  eeState, nvGhosts, nvCrashed >>

\* What the operators of EERef make of a cell and a byte.
Operators == { "+", "-", "*", "/", "%", "^", "&", "|", "<<", ">>" }
Applied(op, x, y) ==
  (CASE op = "+" -> x + y          [] op = "-" -> x + 256 - y
     [] op = "*" -> x * y          [] op = "/" -> x \div y
     [] op = "%" -> x % y          [] op = "^" -> x ^^ y
     [] op = "&" -> x & y          [] op = "|" -> x | y
     [] op = "<<" -> x * 2 ^ y     [] op = ">>" -> x \div 2 ^ y) % 256

WriteCell(i, v) == eeBytes' = [eeBytes EXCEPT ![i] = v] /\ eeDoing' = i

\* eeprom_read_byte() and eeprom_write_byte() of avr-libc wait for the memory; the
\* second returns while it writes.  A write is skipped after a comparison that
\* found no difference.
UseEeprom ==
  /\ eeDoing \notin EeCells
  /\ \/ Executes("ee read") /\ nvGot' = Append(nvGot, eeBytes[Arg]) /\ UNCHANGED << nvRegs, eeState >>
     \/ Executes("ee load") /\ nvRegs' = [nvRegs EXCEPT !.cell = eeBytes[Arg]] /\ UNCHANGED << nvGot, eeState >>
     \/ Executes("ee write") /\ WriteCell(Arg, Val) /\ UNCHANGED << eeWorn, nvRegs, nvGot >>
     \/ Executes("ee change") /\ nvRegs.cell = Val /\ UNCHANGED << nvRegs, nvGot, eeState >>
     \/ /\ Executes("ee change") /\ nvRegs.cell # Val
        /\ WriteCell(Arg, Val) /\ eeWorn' = (eeWorn \/ eeBytes[Arg] = Val) /\ UNCHANGED << nvRegs, nvGot >>
     \/ /\ \E op \in Operators : Executes(op) /\ WriteCell(Arg, Applied(op, nvRegs.cell, Val))
        /\ UNCHANGED << eeWorn, nvRegs, nvGot >>
  /\ spmArmed' = 0
  /\ UNCHANGED << nvState, spmDoing, rwwClosed, pageBuffer, nvPages, lockByte, nvGhosts, nvCrashed >>

\* An interrupt takes longer than four cycles, and its vector and its handler
\* are in the application section.
AnyInterrupt ==
  /\ nvRegs.i /\ nvCode # << >>
  /\ spmArmed' = 0
  /\ nvCrashed' = (nvCrashed \/ rwwClosed)
  /\ UNCHANGED << nvState, cpuState, spmDoing, rwwClosed, pageBuffer, nvPages, lockByte, eeState, nvGhosts >>

\* The memory ends what it was told: programming only clears bits.
SpmDone ==
  LET p == spmDoing.page IN
  /\ spmDoing.cmd # 0 /\ spmDoing' = Nothing
  /\ nvPages' =
       CASE spmDoing.cmd = __BOOT_PAGE_ERASE -> [nvPages EXCEPT ![p] = ErasedPage]
         [] spmDoing.cmd = __BOOT_PAGE_WRITE ->
              [nvPages EXCEPT ![p] = [n \in DOMAIN pageBuffer |-> nvPages[p][n] & pageBuffer[n]]]
         [] OTHER -> nvPages
  /\ pageBuffer' = IF spmDoing.cmd = __BOOT_PAGE_WRITE THEN ErasedPage ELSE pageBuffer
  /\ lockByte' = IF spmDoing.cmd = __BOOT_LOCK_BITS_SET THEN lockByte & (spmDoing.data | 195) ELSE lockByte
  /\ UNCHANGED << nvState, cpuState, spmArmed, rwwClosed, eeState, nvGhosts, nvCrashed >>

EepromDone ==
  /\ eeDoing \in EeCells /\ eeDoing' = E2END + 1
  /\ UNCHANGED << nvState, cpuState, spmState, eeBytes, eeWorn, nvGhosts, nvCrashed >>

(***************************************************************************)
(* The calls.  The sketch runs with the interrupts on, but for a call that *)
(* itself saves and restores them.                                         *)
(***************************************************************************)
Quiet(code) == IF Unguarded THEN code ELSE Ins("cli", 0) \o code \o Ins("restore", 0)

\* A call starts: what it executes, what it reads, which page or cells it writes.
CallOf(code, on, asked) ==
  /\ nvCode = << >> /\ nvCalls < MaxNvCalls
  /\ nvCode' = code /\ nvRegs' = [NoRegs EXCEPT !.rampz = nvRegs.rampz, !.r1 = nvRegs.r1, !.i = on]
  /\ nvGot' = << >> /\ nvAsked' = [got |-> asked, i |-> on]
  /\ nvCalls' = nvCalls + 1
  /\ UNCHANGED << nvChip, nvMemory, nvRunner, spmState, eeState, nvCrashed >>

WritesPage(p, bytes) ==
  /\ nvTarget' = { p } /\ nvTorn' = nvTorn \ { p }
  /\ nvMeant' = [nvMeant EXCEPT ![p] = [n \in 0 .. SPM_PAGESIZE - 1 |-> bytes[n + 1]]]
  /\ eeTarget' = {} /\ UNCHANGED << lockMeant, eeMeant, eeTorn >>

Changes(new) ==
  /\ eeTarget' = DOMAIN new /\ eeTorn' = eeTorn \ DOMAIN new
  /\ eeMeant' = [c \in EeCells |-> IF c \in DOMAIN new THEN new[c] ELSE eeMeant[c]]
  /\ nvTarget' = {} /\ UNCHANGED << nvMeant, nvTorn, lockMeant >>

OnlyReads == nvTarget' = {} /\ eeTarget' = {} /\ UNCHANGED << nvMeant, nvTorn, lockMeant, eeMeant, eeTorn >>

InLoader == nvRunner = "loader" /\ nvChip # "mega163"
InSketch == nvRunner = "sketch"

\* LOAD_ADDRESS gives a word address, of which RAMPZ takes the top bit.
LOAD_ADDRESS(newAddress) == IF BigChip THEN Ins("RAMPZ", IF newAddress >= Bank \div 2 THEN 1 ELSE 0) ELSE << >>

\* The loader programs with interrupts off.  The page's bytes have come over
\* the line since the last EEPROM byte was written, which takes longer.
writebuffer(address, mybuff) ==
  PageErase("plain", address) \o SpmBusyWait
  \o FlattenSeq([n \in DOMAIN WordStarts |->
       PageFill("plain", address + WordStarts[n], WordOf(mybuff, WordStarts[n]))])
  \o PageWrite("plain", address) \o SpmBusyWait \o RwwEnable("plain")

LoaderFlash(p, image) ==
  /\ InLoader /\ eeDoing \notin EeCells
  /\ LET word == p * (SPM_PAGESIZE \div 2) IN
     CallOf(LOAD_ADDRESS(word) \o writebuffer((2 * word) % Bank, image), FALSE, << >>)
  /\ WritesPage(p, image)

LoaderEeprom(i, vals) ==
  /\ InLoader /\ i + Len(vals) - 1 \in EeCells
  /\ CallOf(FlattenSeq([n \in DOMAIN vals |-> CellIns("ee write", i + n - 1, vals[n])]), FALSE, << >>)
  /\ Changes([c \in i .. i + Len(vals) - 1 |-> vals[c - i + 1]])

\* do_spm() is in the loader (external): it waits, and opens the section again
\* after an erase or a write without data.
do_spm(command, data) ==
  Ins("r1:r0", data) \o Spm("plain", command) \o Ins("clr r1", 0) \o SpmBusyWait
  \o (IF command # __BOOT_PAGE_FILL /\ data = 0 THEN RwwEnable("plain") ELSE << >>)

do_spm_cli(address, command, data) ==
  Ins("cli", 0) \o (IF BigChip THEN Ins("RAMPZ", (address \div Bank) % 256) ELSE << >>)
  \o Ins("Z", address % Bank) \o do_spm(command, data) \o Ins("restore", 0)

\* A pointer has 16 bits; made an address of 32 it keeps its sign.
optiboot_addr_t(pointer) == IF BigChip /\ pointer >= Bank \div 2 THEN pointer + 65535 * Bank ELSE pointer

\* The array begins at a page; page numbers begin at 1.
ArrayStart == IF HighArrays THEN Bank \div 2 ELSE 0
Space(j, page) == ArrayStart + j + SPM_PAGESIZE * (page - 1)

optiboot_writePage(page, image) ==
  LET at(j) == optiboot_addr_t(Space(j, page)) IN
  /\ InSketch /\ nvChip # "mega163" /\ (eeDoing \in EeCells => Unguarded)
  /\ \E on \in BOOLEAN : CallOf(
       do_spm_cli(at(0), __BOOT_PAGE_ERASE, 0)
       \o FlattenSeq([n \in DOMAIN WordStarts |->
            do_spm_cli(at(WordStarts[n] + 1), __BOOT_PAGE_FILL, WordOf(image, WordStarts[n]))])
       \o do_spm_cli(at(0), __BOOT_PAGE_WRITE, 0), on, << >>)
  /\ WritesPage(FlashPage(Space(0, page)), image)

\* Without a blank character the bytes of the array stay: here 0.
optiboot_readPage(page, blank_character) ==
  /\ InSketch
  /\ CallOf(
       FlattenSeq([n \in 1 .. SPM_PAGESIZE |-> CellIns("pgm", Space(n - 1, page), blank_character)]), TRUE,
       [n \in 1 .. SPM_PAGESIZE |->
          LET b == nvPages[FlashPage(Space(0, page))][n - 1] IN IF b \in { 0, 255 } THEN blank_character ELSE b])
  /\ OnlyReads

\* A program of its own in the boot section, with the macros (external use).
ProgramPage(p, image, safe) ==
  LET a == p * SPM_PAGESIZE
      M(macro, wait) == IF safe THEN Safe(macro) ELSE macro \o wait
  IN
  /\ InSketch
  /\ CallOf(Quiet(
       (IF safe THEN << >> ELSE EepromBusyWait)
       \o M(PageErase(ChosenForm, a), SpmBusyWait)
       \o FlattenSeq([n \in DOMAIN WordStarts |->
            M(PageFill(ChosenForm, a + WordStarts[n], WordOf(image, WordStarts[n])), << >>)])
       \o M(PageWrite(ChosenForm, a), SpmBusyWait) \o M(RwwEnable(ChosenForm), << >>)), TRUE, << >>)
  /\ WritesPage(p, image)

SetLockBits(mask) ==
  /\ InSketch
  /\ CallOf(Quiet(Safe(LockBitsSet(ChosenForm, mask)) \o SpmBusyWait), TRUE, << >>)
  /\ lockMeant' = (lockMeant & (255 - mask))
  /\ nvTarget' = {} /\ eeTarget' = {} /\ UNCHANGED << nvMeant, nvTorn, eeMeant, eeTorn >>

ReadChip ==
  /\ InSketch
  /\ \E a \in { 1, 2 } :
       \/ CallOf(Quiet(EepromBusyWait \o LockFuseBitsGet(a)), TRUE, << FuseOrLock(a) >>)
       \/ CallOf(Quiet(EepromBusyWait \o SignatureByteGet(a)), TRUE, << SignatureByte(a) >>)
  /\ OnlyReads

(***************************************************************************)
(* EEPROM.h.                                                               *)
(***************************************************************************)
update(i, v) == CellIns("ee load", i, 0) \o CellIns("ee change", i, v)

EepromRead(i) ==
  InSketch /\ CallOf(CellIns("ee read", i, 0), TRUE, << eeBytes[i] >>) /\ OnlyReads

EepromWrite(i, v) ==
  InSketch /\ CallOf(CellIns("ee write", i, v), TRUE, << >>) /\ Changes([c \in { i } |-> v])

EepromUpdate(i, v) ==
  InSketch /\ CallOf(update(i, v), TRUE, << >>) /\ Changes([c \in { i } |-> v])

\* Divided by nothing but zero.
EepromOperate(op, i, v) ==
  /\ InSketch /\ (op \in { "/", "%" } => v > 0)
  /\ CallOf(CellIns("ee load", i, 0) \o CellIns(op, i, v), TRUE, << >>)
  /\ Changes([c \in { i } |-> Applied(op, eeBytes[i], v)])

\* x++ and x-- read the cell, and again when they change it.
EepromPostfix(op, i) ==
  /\ InSketch
  /\ CallOf(CellIns("ee read", i, 0) \o CellIns("ee load", i, 0) \o CellIns(op, i, 1), TRUE, << eeBytes[i] >>)
  /\ Changes([c \in { i } |-> Applied(op, eeBytes[i], 1)])

\* An object is put in and taken out byte by byte through an EEPtr.
EepromPut(i, t) ==
  /\ InSketch /\ i + Len(t) - 1 \in EeCells
  /\ CallOf(FlattenSeq([n \in DOMAIN t |-> update(i + n - 1, t[n])]), TRUE, << >>)
  /\ Changes([c \in i .. i + Len(t) - 1 |-> t[c - i + 1]])

EepromGet(i, size) ==
  /\ InSketch /\ i + size - 1 \in EeCells
  /\ CallOf(FlattenSeq([n \in 1 .. size |-> CellIns("ee read", i + n - 1, 0)]), TRUE,
                               [n \in 1 .. size |-> eeBytes[i + n - 1]])
  /\ OnlyReads

\* The watchdog ends the loader; a reset or the loss of power comes at any time,
\* and leaves open what was being written.
StartSketch ==
  /\ nvRunner = "loader" /\ nvCode = << >> /\ nvRunner' = "sketch"
  /\ UNCHANGED << nvChip, nvMemory, nvCalls, cpuState, spmState, eeState, nvGhosts, nvCrashed >>

NvReset ==
  /\ nvRunner' = "loader" /\ nvCode' = << >> /\ nvGot' = << >>
  /\ nvRegs' = NoRegs
  /\ spmArmed' = 0 /\ spmDoing' = Nothing /\ rwwClosed' = FALSE /\ pageBuffer' = ErasedPage
  /\ nvPages' \in IF spmDoing.cmd \in { __BOOT_PAGE_ERASE, __BOOT_PAGE_WRITE }
                  THEN { nvPages, [nvPages EXCEPT ![spmDoing.page] = ErasedPage] } ELSE { nvPages }
  /\ eeDoing' = E2END + 1
  /\ eeBytes' \in IF eeDoing \in EeCells THEN { eeBytes, [eeBytes EXCEPT ![eeDoing] = Blanks] } ELSE { eeBytes }
  /\ nvTorn' = IF nvCode # << >> THEN nvTorn \cup nvTarget ELSE nvTorn
  /\ eeTorn' = eeTorn \cup (IF nvCode # << >> THEN eeTarget ELSE {}) \cup ({ eeDoing } \cap EeCells)
  /\ nvAsked' = [got |-> << >>, i |-> FALSE] /\ lockMeant' = lockByte
  /\ UNCHANGED << nvChip, nvMemory, nvCalls, lockByte, eeWorn, nvTarget, nvMeant, eeTarget, eeMeant, nvCrashed >>

NvInit ==
  /\ nvChip \in NvChips /\ nvMemory \in { "flash", "eeprom" } /\ nvCalls = 0 /\ nvRunner = "loader"
  /\ nvMemory = "eeprom" => nvChip = CHOOSE c \in NvChips : TRUE
  /\ nvCode = << >> /\ nvGot = << >> /\ nvAsked = [got |-> << >>, i |-> FALSE]
  /\ nvRegs = NoRegs
  /\ spmArmed = 0 /\ spmDoing = Nothing /\ rwwClosed = FALSE /\ pageBuffer = ErasedPage
  \* A sketch is in the flash.
  /\ nvPages = [p \in AllPages |-> [n \in 0 .. SPM_PAGESIZE - 1 |-> 4]] /\ nvMeant = nvPages
  /\ lockByte = 255 /\ lockMeant = 255
  /\ eeBytes = [c \in EeCells |-> Blanks] /\ eeMeant = eeBytes /\ eeDoing = E2END + 1
  /\ nvTarget = {} /\ nvTorn = {} /\ eeTarget = {} /\ eeTorn = {}
  /\ nvCrashed = FALSE /\ eeWorn = FALSE

Machine ==
  \/ LoadRegister \/ StoreControl \/ ExecuteSpm \/ ExecuteLpm \/ ReadFlash \/ WaitMemory \/ UseEeprom

\* A cell may be in the making when the flash is asked for.
FlashCalls ==
  \/ \E p \in PagesUsed \cap AllPages, image \in PageImages :
       LoaderFlash(p, image) \/ \E safe \in BOOLEAN : ProgramPage(p, image, safe)
  \/ \E page \in 1 .. ArrayPages :
       optiboot_readPage(page, 32) \/ \E image \in PageImages : optiboot_writePage(page, image)
  \/ ReadChip \/ \E mask \in LockMasks : SetLockBits(mask)
  \/ \E v \in EeValues : EepromWrite(0, v)

EepromCalls ==
  \/ \E i \in EeCells : EepromRead(i) \/ EepromPostfix("+", i) \/ EepromPostfix("-", i)
  \/ \E i \in EeCells, v \in EeValues :
       EepromWrite(i, v) \/ EepromUpdate(i, v) \/ \E op \in Operators : EepromOperate(op, i, v)
  \/ \E i \in EeCells, t \in UNION { [1 .. n -> EeValues] : n \in { 1, 2 } } : LoaderEeprom(i, t) \/ EepromPut(i, t)
  \/ \E i \in EeCells, size \in { 1, 2 } : EepromGet(i, size)

NvNext ==
  \/ Machine
  \/ nvMemory = "flash" /\ FlashCalls
  \/ nvMemory = "eeprom" /\ EepromCalls
  \/ AnyInterrupt \/ SpmDone \/ EepromDone \/ StartSketch \/ NvReset

NvSpec == NvInit /\ [][NvNext]_nvVars

NvTypeOK ==
  /\ nvRunner \in { "loader", "sketch" } /\ spmArmed \in 0 .. 63 /\ spmDoing.page \in AllPages
  /\ nvRegs.r0 \in 0 .. 255 /\ nvRegs.r1 \in 0 .. 255 /\ nvRegs.z \in 0 .. Bank - 1
  /\ DOMAIN nvPages = AllPages /\ \A p \in AllPages : DOMAIN nvPages[p] = 0 .. SPM_PAGESIZE - 1
  /\ eeBytes \in [EeCells -> 0 .. 255] /\ eeDoing \in 0 .. E2END + 1 /\ rwwClosed \in BOOLEAN

(***************************************************************************)
(* Properties.                                                             *)
(***************************************************************************)

\* A page that a call wrote holds its image, and no other page changed, unless a
\* reset came between: whichever interrupts came, in both banks, and though the
\* memory refuses commands while it is busy (boot.h:203-489, optiboot.c:863-925,
\* Optiboot_flasher/src/optiboot.h:72-160).
PagesAreMeant ==
  \A p \in AllPages : nvPages[p] = nvMeant[p] \/ p \in nvTorn \/ (nvCode # << >> /\ p \in nvTarget)

\* No interrupt finds its vector in a section that cannot be read, and the
\* section is open again when a call returns (boot.h:453-489).
SectionIsReadable == ~nvCrashed /\ (nvCode = << >> => ~rwwClosed)

\* A call reads what it asked for, leaves r1 zero as the compiler wants it, and
\* the interrupts as they were (boot.h:218, :587-695, optiboot.h:72-84).
CallsReturnClean ==
  nvCode = << >> => nvGot = nvAsked.got /\ nvRegs.i = nvAsked.i /\ nvRegs.r1 = 0

\* The lock bits asked for are programmed, and no other (boot.h:508-562).
LocksAreMeant == nvCode = << >> => lockByte = lockMeant

\* A cell holds what the last call made of it, no call changes another, and
\* update() and put() do not wear a cell that has its value (EEPROM.h:36-143).
CellsAreMeant ==
  /\ \A c \in EeCells : eeBytes[c] = eeMeant[c] \/ c \in eeTorn \/ (nvCode # << >> /\ c \in eeTarget)
  /\ ~eeWorn

ProgrammingIsSound ==
  PagesAreMeant /\ SectionIsReadable /\ CallsReturnClean /\ LocksAreMeant /\ CellsAreMeant

=============================================================================
