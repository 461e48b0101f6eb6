--------------------------------- MODULE Cdc ---------------------------------
(***************************************************************************)
(* The serial port over USB (CDC.cpp): the requests of the host, which     *)
(* put the board into its boot loader when the port is closed at 1200 bps, *)
(* with what the boot loader (Caterina.c) decides after a reset; and what  *)
(* the sketch receives, USB_Recv() and the byte that peek() holds.         *)
(*                                                                         *)
(* The boot key lies in RAM: at a fixed place, which belongs to the sketch *)
(* too, for a boot loader of the old kind, else in the last word.          *)
(***************************************************************************)
EXTENDS Integers, FiniteSets, Sequences, SequencesExt

CONSTANTS
  Words, MAGIC_KEY, \* what the sketch keeps in its word of RAM; the key
  OutBanks,         \* banks of the endpoint that receives
  MaxReceived       \* bound: bytes the host sends

ASSUME CdcAssumption ==
  /\ 0 \in Words /\ MAGIC_KEY \notin Words
  /\ OutBanks \in Nat \ {0} /\ MaxReceived \in Nat

VARIABLES
  oldLoader,        \* the boot loader is of the old kind; it stays so
  running,          \* "sketch" or "loader"
  dwDTERate, dtr,   \* _usbLineInfo: the rate is 1200; bit 0 of lineState
  wdt,              \* who has started the watchdog: "off", "touch", or the "sketch"
  ram,              \* the words at the fixed place and at RAMEND - 1
  sketchWord,       \* what the sketch last wrote to its word
  unpaired,         \* since the start, a touch and its end did not pair
  out,              \* packets in the endpoint that receives
  readOfHead,       \* bytes already read of the first of them
  peek_buffer,
  hostSent, received,    \* bytes the host has sent; those the sketch has read
  skipped           \* bytes thrown away by begin() or with a reset

cdcLine == << dwDTERate, dtr, wdt, ram, sketchWord, unpaired >>
cdcRx   == << out, readOfHead, peek_buffer, hostSent, received, skipped >>
cdcVars == << oldLoader, running, cdcLine, cdcRx >>

magic_key_pos == IF oldLoader THEN "fixed" ELSE "last"
Touched(is1200, up) == is1200 /\ ~up

(***************************************************************************)
(* Requests: SET_LINE_CODING and SET_CONTROL_LINE_STATE.                   *)
(***************************************************************************)
StoreKey == [ram EXCEPT !["last"]  = IF oldLoader THEN ram["fixed"] ELSE MAGIC_KEY,
                        !["fixed"] = IF oldLoader THEN MAGIC_KEY ELSE @]
RemoveKey == IF oldLoader THEN [ram EXCEPT !["fixed"] = ram["last"]] ELSE [ram EXCEPT !["last"] = 0]

CDC_Setup(is1200, up) ==
  /\ running = "sketch"
  /\ dwDTERate' = is1200 /\ dtr' = up
  /\ IF Touched(is1200, up) THEN ram' = StoreKey  /\ wdt' = "touch"
                            ELSE ram' = RemoveKey /\ wdt' = "off"
  /\ unpaired' = (unpaired \/ (oldLoader /\ (Touched(is1200, up) <=> wdt = "touch")))
  /\ UNCHANGED << oldLoader, running, sketchWord, cdcRx >>

\* The sketch uses its word, and has a watchdog of its own.
SketchRuns ==
  /\ running = "sketch"
  /\ \/ /\ \E w \in Words : sketchWord' = w /\ ram' = [ram EXCEPT !["fixed"] = w]
        /\ unpaired' = (unpaired \/ (oldLoader /\ wdt = "touch"))
        /\ UNCHANGED wdt
     \/ wdt = "off" /\ wdt' = "sketch" /\ UNCHANGED << ram, sketchWord, unpaired >>
  /\ UNCHANGED << oldLoader, running, dwDTERate, dtr, cdcRx >>

(***************************************************************************)
(* Reset: the boot loader takes the key and decides; a sketch starts with  *)
(* its variables initialised, the fixed word too.                          *)
(***************************************************************************)
Runs(what) ==
  /\ running' = what /\ dwDTERate' = FALSE /\ dtr' = FALSE /\ wdt' = "off"
  /\ ram' = IF what = "sketch" THEN [fixed |-> 0, last |-> 0] ELSE [ram EXCEPT ![magic_key_pos] = 0]
  /\ sketchWord' = 0 /\ unpaired' = FALSE
  /\ out' = << >> /\ readOfHead' = 0 /\ peek_buffer' = -1
  /\ skipped' = 1 .. hostSent \ ToSet(received)
  /\ UNCHANGED << oldLoader, hostSent, received >>

WatchdogReset ==
  /\ wdt # "off"
  /\ Runs(IF ram[magic_key_pos] = MAGIC_KEY THEN "loader" ELSE "sketch")

ExternalReset == Runs("loader")
PowerOnReset  == Runs("sketch")
LoaderTimesOut == running = "loader" /\ Runs("sketch")

(***************************************************************************)
(* What the sketch receives.                                               *)
(***************************************************************************)
\* A packet may come without bytes: it ends what fills its packets.
HostSends ==
  /\ running = "sketch" /\ Len(out) < OutBanks
  /\ \E k \in 0 .. 2 :
       /\ hostSent + k <= MaxReceived
       /\ out' = Append(out, [i \in 1 .. k |-> hostSent + i]) /\ hostSent' = hostSent + k
  /\ UNCHANGED << oldLoader, running, cdcLine, readOfHead, peek_buffer, received, skipped >>

FifoBytes == IF out = << >> THEN << >> ELSE Head(out)
available == (IF peek_buffer >= 0 THEN 1 ELSE 0) + Len(FifoBytes)

\* USB_Recv() of one byte: a bank that this empties is released, one that was
\* empty when it came is not.
USB_Recv(byte, rest) ==
  /\ FifoBytes # << >> /\ byte = Head(FifoBytes)
  /\ rest = IF Len(FifoBytes) = 1 THEN Tail(out) ELSE << Tail(FifoBytes) >> \o Tail(out)
  /\ readOfHead' = IF Len(FifoBytes) = 1 THEN 0 ELSE readOfHead + 1

Serial_peek ==
  /\ running = "sketch" /\ peek_buffer < 0
  /\ USB_Recv(peek_buffer', out')
  /\ UNCHANGED << oldLoader, running, cdcLine, hostSent, received, skipped >>

Serial_read ==
  /\ running = "sketch" /\ available > 0
  /\ IF peek_buffer >= 0
     THEN received' = Append(received, peek_buffer) /\ peek_buffer' = -1 /\ UNCHANGED << out, readOfHead >>
     ELSE received' = Append(received, FifoBytes[1]) /\ USB_Recv(FifoBytes[1], out') /\ UNCHANGED peek_buffer
  /\ UNCHANGED << oldLoader, running, cdcLine, hostSent, skipped >>

Serial_begin ==
  /\ running = "sketch" /\ peek_buffer' = -1
  /\ skipped' = IF peek_buffer >= 0 THEN skipped \cup { peek_buffer } ELSE skipped
  /\ UNCHANGED << oldLoader, running, cdcLine, out, readOfHead, hostSent, received >>

CdcInit ==
  /\ oldLoader \in BOOLEAN /\ unpaired = FALSE
  /\ running = "sketch" /\ dwDTERate = FALSE /\ dtr = FALSE /\ wdt = "off"
  /\ ram = [fixed |-> 0, last |-> 0] /\ sketchWord = 0
  /\ out = << >> /\ readOfHead = 0 /\ peek_buffer = -1 /\ hostSent = 0 /\ received = << >> /\ skipped = {}

CdcNext ==
  \/ \E b \in BOOLEAN : CDC_Setup(b, dtr) \/ CDC_Setup(dwDTERate, b)
  \/ SketchRuns \/ WatchdogReset \/ ExternalReset \/ PowerOnReset \/ LoaderTimesOut
  \/ HostSends \/ Serial_peek \/ Serial_read \/ Serial_begin

CdcSpec == CdcInit /\ [][CdcNext]_cdcVars

CdcTypeOK ==
  /\ running \in { "sketch", "loader" } /\ { dwDTERate, dtr, oldLoader, unpaired } \subseteq BOOLEAN
  /\ wdt \in { "off", "touch", "sketch" } /\ sketchWord \in Words
  /\ ram \in [{ "fixed", "last" } -> Words \cup { MAGIC_KEY }]
  /\ Len(out) \in 0 .. OutBanks /\ readOfHead \in Nat /\ peek_buffer \in { -1 } \cup 1 .. MaxReceived
  /\ hostSent \in 0 .. MaxReceived /\ received \in Seq(1 .. MaxReceived) /\ skipped \subseteq 1 .. MaxReceived

(***************************************************************************)
(* Properties.                                                             *)
(***************************************************************************)

\* The key is in RAM while the port is closed at 1200 bps, and at no other
\* time: a watchdog reset puts the board into its boot loader after a touch,
\* and after a reset of another cause, or when the port was opened again in
\* time, the sketch runs ("eventually cancel if DTR goes back high",
\* CDC.cpp:137; Caterina.c:134).  The key of an old boot loader lies in the
\* sketch's own word, and there this is only so while requests pair.
LoaderMeansTouch ==
  running = "sketch" /\ ~unpaired => (ram[magic_key_pos] = MAGIC_KEY <=> wdt = "touch")

\* The sketch's word holds what it wrote there when no reset is under way: for
\* an old boot loader because what the key had taken the place of is put back,
\* "Restore backed up (old bootloader) magic key data" (CDC.cpp:142).  That
\* holds as long as requests pair, and the exceptions are all the code has: a
\* request that takes no touch back, which "restores" whatever is at RAMEND;
\* a second touch, which backs the key up; and a sketch that writes its word
\* between the touch and its end ("at least a bit, not fully", CDC.cpp:123).
SketchWordKept == running = "sketch" /\ wdt # "touch" /\ ~unpaired => ram["fixed"] = sketchWord

\* The sketch reads what the host sent, each byte once and in order, whichever
\* way peek() and read() are mixed, but for what begin() or a reset drops; and
\* a byte that is in neither can be read.
CdcRxFifo ==
  /\ \A i, j \in 1 .. Len(received) : i < j => received[i] < received[j]
  /\ LET ahead == (IF peek_buffer >= 0 THEN << peek_buffer >> ELSE << >>) \o FlattenSeq(out)
     IN  /\ ToSet(received \o ahead) \cup skipped = 1 .. hostSent
         /\ Len(received \o ahead) + Cardinality(skipped) = hostSent
         /\ \A i \in 1 .. Len(ahead), k \in 1 .. Len(received) : received[k] < ahead[i]

\* A packet of which something was read goes with its last byte, and available()
\* is 0 only when the endpoint has nothing: "release empty buffer"
\* (USBCore.cpp:234).  One that came without bytes stays, and the port hears
\* nothing more.
EmptyIsReleased == available = 0 => out = << >> \/ readOfHead = 0

=============================================================================
