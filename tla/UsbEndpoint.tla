----------------------------- MODULE UsbEndpoint -----------------------------
(***************************************************************************)
(* The endpoint that sends (USBCore.cpp): USB_Send() and USB_Flush() of    *)
(* the sketch against the interrupt of the bus, which releases a frame at  *)
(* every start of frame, the requests of the host on endpoint 0, a reset   *)
(* of the bus, and suspend and wakeup.                                     *)
(*                                                                         *)
(* Bytes are numbered in the order in which the sketch passes them.        *)
(***************************************************************************)
EXTENDS Integers, Sequences, SequencesExt

CONSTANTS
  USB_EP_SIZE,      \* bytes in a bank
  Banks,            \* banks of the endpoint
  Lengths,          \* lengths of what the sketch sends
  Patience,         \* the timeout of a send, in turns of its loop
  MaxBytes,         \* bound: bytes the sketch passes
  MaxResets         \* bound: resets and configurations

ASSUME UsbEndpointAssumption ==
  /\ USB_EP_SIZE \in Nat \ {0} /\ Banks \in Nat \ {0}
  /\ Lengths \subseteq Nat \ {0} /\ Patience \in Nat \ {0} /\ { MaxBytes, MaxResets } \subseteq Nat

VARIABLES
  bank, released,   \* the bank being filled; the banks the host has yet to take
  taken,            \* the bytes the host has taken
  short,            \* the last packet it took was shorter than a bank
  configuration,    \* _usbConfiguration
  uenum,            \* UENUM: "tx", or "0"
  usbPc,            \* the step of the sketch
  sent, goal,       \* bytes handed to the endpoint; the last of the call
  chunk, patience,      \* n and timeout of USB_Send
  sendZlp,
  count,            \* what USB_Flush() has read
  first, returned,  \* of the last call: the byte before its first, its result
  resets,           \* how often
  voided,           \* bytes that a reset or a new configuration threw away
  busIdle,          \* the host has suspended the bus
  udint, udien,     \* SUSPI and WAKEUPI; which of the two may interrupt
  suspendState      \* _usbSuspendState

usbBus    == << busIdle, udint, udien, suspendState >>
usbEp     == << bank, released, taken, short, resets, voided >>
usbCall   == << usbPc, sent, goal, chunk, patience, sendZlp, count, first, returned >>
usbVars   == << usbEp, usbCall, usbBus, configuration, uenum >>

BankFree         == configuration # 0 /\ Len(released) < Banks
ReadWriteAllowed == BankFree /\ Len(bank) < USB_EP_SIZE
FifoByteCount    == IF BankFree THEN Len(bank) ELSE 0
len              == goal - sent
Loaded           == FlattenSeq(released) \o bank

\* A bank that is not free is the host's already, and nothing happens to it.
ReleaseTX(bytes) ==
  IF BankFree THEN released' = Append(released, bytes) /\ bank' = << >>
              ELSE UNCHANGED << bank, released >>

\* Mutant: only a full bank is released.
ReleaseTxIfFull ==
  IF FifoByteCount = USB_EP_SIZE THEN ReleaseTX(bank) ELSE UNCHANGED << bank, released >>

ReleaseTxIfFound ==
  IF FifoByteCount > 0 THEN ReleaseTX(bank) ELSE UNCHANGED << bank, released >>

(***************************************************************************)
(* The sketch.                                                             *)
(***************************************************************************)
USB_Send(length) ==
  /\ usbPc = "idle" /\ goal + length <= MaxBytes
  /\ goal' = goal + length /\ first' = goal
  /\ IF configuration = 0 THEN usbPc' = "idle" /\ sent' = goal' /\ returned' = "failed"
                          ELSE usbPc' = "space" /\ sent' = sent /\ returned' = "no"
  /\ patience' = Patience /\ sendZlp' = FALSE
  /\ chunk' = 0
  /\ UNCHANGED << usbEp, usbBus, configuration, uenum, count >>

\* A failure forgets what the endpoint has not taken.
USB_SendSpace ==
  /\ usbPc = "space"
  /\ uenum' = "tx"
  /\ LET space == IF ReadWriteAllowed THEN USB_EP_SIZE - FifoByteCount ELSE 0 IN
     IF space = 0
     THEN /\ patience' = patience - 1
          /\ IF patience = 1 THEN usbPc' = "idle" /\ sent' = goal /\ returned' = "failed"
                             ELSE UNCHANGED << usbPc, sent, returned >>
          /\ UNCHANGED chunk
     ELSE /\ usbPc' = "write" /\ chunk' = IF space > len THEN len ELSE space
          /\ UNCHANGED << patience, sent, returned >>
  /\ UNCHANGED << usbEp, usbBus, configuration, goal, first, sendZlp, count >>

\* Mutant: no empty packet.
ReleaseWithoutZlp(filled, rest) ==
  /\ IF Len(filled) = USB_EP_SIZE THEN ReleaseTX(filled) ELSE bank' = filled /\ UNCHANGED released
  /\ sendZlp' = FALSE

\* What a pass leaves: a full bank is released, and a message that ends with
\* one is followed by an empty packet.
Release(filled, rest) ==
  LET full == Len(filled) = USB_EP_SIZE IN
  /\ IF sendZlp \/ full THEN ReleaseTX(filled) ELSE bank' = filled /\ UNCHANGED released
  /\ sendZlp' = (~sendZlp /\ full /\ rest = 0)

Write ==
  /\ usbPc = "write"
  /\ uenum' = "tx"
  /\ IF ~ReadWriteAllowed
     THEN usbPc' = "space" /\ UNCHANGED << bank, released, sent, sendZlp, returned >>
     ELSE /\ Release(bank \o [i \in 1 .. chunk |-> sent + i], len - chunk)
          /\ sent' = sent + chunk
          /\ IF len = chunk /\ ~sendZlp' THEN usbPc' = "idle" /\ returned' = "ok"
                                    ELSE usbPc' = "space" /\ UNCHANGED returned
  /\ chunk' = 0
  /\ UNCHANGED << taken, short, resets, voided, usbBus, configuration, goal, first, patience, count >>

\* USB_Flush() called by Serial_::flush(), without a lock: the endpoint is
\* chosen, its bytes are counted, and it is released.
USB_Flush ==
  /\ UNCHANGED << taken, short, resets, voided, usbBus, configuration, sent, goal, chunk, patience, sendZlp,
                  first, returned >>
  /\ \/ usbPc = "idle" /\ usbPc' = "count" /\ uenum' = "tx" /\ UNCHANGED << bank, released, count >>
     \/ /\ usbPc = "count" /\ usbPc' = "release"
        /\ count' = IF uenum = "tx" THEN FifoByteCount ELSE 0
        /\ UNCHANGED << bank, released, uenum >>
     \/ /\ usbPc = "release" /\ usbPc' = "idle" /\ count' = 0
        /\ IF uenum = "tx" /\ count > 0 THEN ReleaseTX(bank) ELSE UNCHANGED << bank, released >>
        /\ UNCHANGED uenum

(***************************************************************************)
(* Interrupts: start of frame; SET_CONFIGURATION; any other request; the   *)
(* end of a reset.                                                         *)
(***************************************************************************)
StartOfFrame ==
  /\ ~busIdle
  /\ uenum' = "tx" /\ ReleaseTxIfFound
  /\ UNCHANGED << taken, short, resets, voided, configuration, usbCall, usbBus >>

Forget(c) ==
  /\ configuration' = c
  /\ bank' = << >> /\ released' = << >> /\ short' = TRUE
  /\ resets < MaxResets /\ resets' = resets + 1
  /\ voided' = voided \cup ToSet(Loaded)

SET_CONFIGURATION ==
  /\ ~busIdle
  /\ \E c \in { 0, 1 } : Forget(c)
  /\ uenum' = "0"
  /\ UNCHANGED << taken, usbCall, usbBus >>

ControlRequest ==
  /\ ~busIdle /\ uenum # "0" /\ uenum' = "0"
  /\ UNCHANGED << usbEp, usbCall, usbBus, configuration >>

EndOfReset ==
  /\ ~busIdle /\ configuration # 0 /\ Forget(0) /\ uenum' = "0"
  /\ UNCHANGED << taken, usbCall, usbBus >>

\* The bus goes idle; its traffic, the first of which wakes it, sets WAKEUPI.
GoesIdle ==
  /\ ~busIdle /\ busIdle' = TRUE /\ udint' = udint \cup { "SUSPI" }
  /\ UNCHANGED << usbEp, usbCall, configuration, uenum, udien, suspendState >>

Traffic ==
  /\ busIdle' = FALSE /\ udint' = udint \cup { "WAKEUPI" }
  /\ UNCHANGED << usbEp, usbCall, configuration, uenum, udien, suspendState >>

\* The handler looks at the flags, whichever of them interrupted: a start of
\* frame brings it as well.
SuspendOrWakeup ==
  /\ udint # {} /\ (udien \in udint \/ ~busIdle)
  /\ IF "WAKEUPI" \in udint
     THEN udien' = "SUSPI" /\ udint' = udint \ { "WAKEUPI" } /\ suspendState' = "WAKEUPI"
     ELSE udien' = "WAKEUPI" /\ udint' = {} /\ suspendState' = "SUSPI"
  /\ UNCHANGED << usbEp, usbCall, configuration, uenum, busIdle >>

(***************************************************************************)
(* The host takes a packet.                                                *)
(***************************************************************************)
TakePacket ==
  /\ ~busIdle /\ released # << >>
  /\ taken' = taken \o Head(released) /\ short' = (Len(Head(released)) < USB_EP_SIZE)
  /\ released' = Tail(released)
  /\ UNCHANGED << bank, resets, voided, usbCall, usbBus, configuration, uenum >>

\* The host has configured the device.
UsbInit ==
  /\ bank = << >> /\ released = << >> /\ taken = << >> /\ short = TRUE
  /\ configuration = 1 /\ uenum = "0" /\ usbPc = "idle" /\ sent = 0 /\ goal = 0
  /\ chunk = 0 /\ patience = Patience /\ sendZlp = FALSE /\ count = 0
  /\ first = 0 /\ returned = "no" /\ voided = {} /\ resets = 0
  /\ busIdle = FALSE /\ udint = {} /\ udien = "SUSPI" /\ suspendState = "none"

UsbSketch == (\E length \in Lengths : USB_Send(length)) \/ USB_SendSpace \/ Write \/ USB_Flush
UsbNext ==
  \/ UsbSketch \/ StartOfFrame \/ SET_CONFIGURATION \/ ControlRequest \/ EndOfReset
  \/ GoesIdle \/ Traffic \/ SuspendOrWakeup \/ TakePacket

UsbGoesOn == USB_SendSpace \/ Write \/ (usbPc # "idle" /\ USB_Flush)

\* The sketch gets on with a call it is in, a bus that is awake has frames and
\* traffic, and interrupts are served.
UsbFair ==
  /\ WF_usbVars(UsbGoesOn) /\ WF_usbVars(StartOfFrame) /\ WF_usbVars(TakePacket)
  /\ WF_usbVars(~busIdle /\ Traffic) /\ WF_usbVars(SuspendOrWakeup)

UsbSpec == UsbInit /\ [][UsbNext]_usbVars /\ UsbFair

UsbTypeOK ==
  /\ Len(bank) \in 0 .. USB_EP_SIZE /\ Len(released) \in 0 .. Banks
  /\ ToSet(taken \o Loaded) \cup voided \subseteq 1 .. MaxBytes
  /\ configuration \in { 0, 1 } /\ uenum \in { "tx", "0" }
  /\ usbPc \in { "idle", "space", "write", "count", "release" }
  /\ 0 <= first /\ first <= sent /\ sent <= goal /\ goal <= MaxBytes /\ resets \in 0 .. MaxResets
  /\ chunk \in 0 .. USB_EP_SIZE /\ patience \in 0 .. Patience /\ count \in 0 .. USB_EP_SIZE
  /\ { short, sendZlp, busIdle } \subseteq BOOLEAN /\ returned \in { "no", "ok", "failed" }
  /\ udint \subseteq { "SUSPI", "WAKEUPI" } /\ udien \in { "SUSPI", "WAKEUPI" }
  /\ suspendState \in { "none", "SUSPI", "WAKEUPI" }

(***************************************************************************)
(* Properties.                                                             *)
(***************************************************************************)

\* The host gets each byte at most once and in order, and every byte of a call
\* that returned its length, unless a reset throws it away; whatever start of
\* frame comes between the read of the space and the write ("Frame may have
\* been released by the SOF interrupt handler", USBCore.cpp:293).
SentOnceInOrder ==
  LET stream == taken \o Loaded IN
  /\ \A i, j \in 1 .. Len(stream) : i < j => stream[i] < stream[j]
  /\ returned = "ok" => first + 1 .. goal \subseteq ToSet(stream) \cup voided

\* A host that has taken all of a message has taken a packet that is not full
\* after it, else it would wait for more (USBCore.cpp:312-317).
MessageEndsShort ==
  returned = "ok" /\ Loaded = << >> /\ released = << >> /\ taken # << >> => short

\* A call of USB_Send() returns, though the handler may empty the endpoint
\* between the read of its space and the write, without a turn of the timeout
\* (USBCore.cpp:276-296).
SendReturns == []<>(usbPc = "idle")

\* What is in an endpoint is sent with a start of frame, unless the bus goes
\* idle; and after an idle bus wakes, _usbSuspendState does not keep saying
\* that it is idle, though its two flags may come in any order
\* (USBCore.cpp:759, :771-790).
FramesGoOut ==
  /\ []<>(bank = << >> \/ busIdle)
  /\ []<>(busIdle \/ suspendState # "SUSPI")

=============================================================================
