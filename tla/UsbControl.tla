----------------------------- MODULE UsbControl -----------------------------
(***************************************************************************)
(* Endpoint 0 (USBCore.cpp) and the modules that plug into it              *)
(* (PluggableUSB.cpp): the interfaces and endpoints that each module gets, *)
(* the descriptors made of them, and the handler of the requests, which    *)
(* waits in the middle for a host that takes packets, stops early or sends *)
(* its own.                                                                *)
(*                                                                         *)
(* Bytes come in order, so that only their number is kept.  A SETUP packet *)
(* frees the bank of the endpoint, and a host sends the next one after the *)
(* handler has returned.                                                   *)
(***************************************************************************)
EXTENDS Integers, Sequences, FiniteSetsExt, SequencesExt

CONSTANTS
  PluggableModules,  \* [ifs, eps, length, chars]: their interfaces, endpoints, bytes, name
  UsbEndpoints,      \* USB_ENDPOINTS, with endpoint 0
  ControlLengths,    \* lengths that the host asks for
  ControlValues,     \* addresses, configurations, rates that it sets
  MaxControls        \* bound: control transfers

ASSUME UsbControlAssumption ==
  /\ \A m \in PluggableModules : m.ifs \in Nat \ {0} /\ m.eps \in Nat /\ m.length \in Nat \ {0} /\ m.chars \in Nat
  /\ UsbEndpoints \in { 5, 7 } /\ ControlLengths \subseteq Nat \ {0} /\ ControlValues \subseteq 1 .. 127
  /\ MaxControls \in Nat

PacketSize == 64
ISERIAL_MAX_LEN == 20

VARIABLES
  plugged,          \* the modules of the list, each with where its numbers begin
  lastIf, lastEp, initEndpoints,
  usbAttached,
  setup,            \* the request being handled
  ctlPc, good,      \* the step of the handler, and its result
  made, goalLen,    \* bytes sent of an answer, and how many there are to send
  loaded, ready,    \* bytes in the bank; those of a bank that is the host's, or -1
  outPending,       \* bytes of a packet of the host, or -1
  stalled,
  udaddr, hasConfiguration, enabled, settings,
  host,             \* its step, what it got or sent, how its last transfer ended
  known, wanted,    \* the configuration it has read; what it has set
  controls

ctlPlug    == << plugged, lastIf, lastEp, initEndpoints, usbAttached >>
ctlHandler == << setup, ctlPc, good, made, goalLen >>
ctlBank    == << loaded, ready, outPending, stalled >>
ctlDevice  == << udaddr, hasConfiguration, enabled, settings >>
ctlHost    == << host, known, wanted, controls >>
controlVars == << ctlPlug, ctlHandler, ctlBank, ctlDevice, ctlHost >>

(***************************************************************************)
(* The list of modules, before the device is attached.                     *)
(***************************************************************************)
plug(m) ==
  /\ ~usbAttached /\ \A k \in DOMAIN plugged : plugged[k].module # m
  /\ lastEp + m.eps <= UsbEndpoints
  /\ plugged' = Append(plugged, [module |-> m, interface |-> lastIf, endpoint |-> lastEp])
  /\ lastIf' = lastIf + m.ifs /\ lastEp' = lastEp + m.eps
  /\ initEndpoints' = [e \in DOMAIN initEndpoints |->
                         IF e \in lastEp .. lastEp + m.eps - 1 THEN "module" ELSE initEndpoints[e]]
  /\ UNCHANGED << usbAttached, ctlHandler, ctlBank, ctlDevice, ctlHost >>

attach ==
  /\ ~usbAttached /\ usbAttached' = TRUE
  /\ hasConfiguration' = 0 /\ settings' = [settings EXCEPT !.wakeup = 0]
  /\ UNCHANGED << plugged, lastIf, lastEp, initEndpoints, ctlHandler, ctlBank, udaddr, enabled, ctlHost >>

\* The end of a reset of the bus, USB_GEN_vect: the chip has dropped its address
\* and its endpoints but for 0, and the host begins anew.
BusReset ==
  /\ usbAttached /\ ctlPc = "idle" /\ host.step = "idle" /\ controls < MaxControls
  /\ hasConfiguration' = 0 /\ udaddr' = 0 /\ enabled' = {}
  /\ loaded' = 0 /\ ready' = -1 /\ outPending' = -1 /\ stalled' = FALSE
  /\ wanted' = [wanted EXCEPT !.address = 0] /\ controls' = controls + 1
  /\ UNCHANGED << ctlPlug, ctlHandler, settings, host, known >>

\* The parts of the configuration: its own nine bytes, the serial port, and
\* what each module sends.
SerialPart == [ifs |-> { 0, 1 }, eps |-> { 1, 2, 3 }, length |-> 8 + 9 + 5 + 5 + 4 + 5 + 7 + 9 + 7 + 7]
Part(node) ==
  [ifs |-> node.interface .. node.interface + node.module.ifs - 1,
   eps |-> node.endpoint .. node.endpoint + node.module.eps - 1,
   length |-> node.module.length]
Parts == << SerialPart >> \o [k \in DOMAIN plugged |-> Part(plugged[k])]

Total(measure(_)) == FoldLeftDomain(LAMBDA sum, k : sum + measure(Parts[k]), 0, Parts)
ConfigLength == 9 + Total(LAMBDA p : p.length)
Interfaces   == Total(LAMBDA p : Cardinality(p.ifs))
ShortName    == FoldLeftDomain(LAMBDA sum, k : sum + plugged[k].module.chars, 0, plugged)

\* The endpoints up to the first one without a type.
InitEndpoints == { e \in DOMAIN initEndpoints : \A f \in 1 .. e : initEndpoints[f] # "none" }

(***************************************************************************)
(* Requests: those that the host reads an answer of, and the others.       *)
(***************************************************************************)
Descriptors == { "device", "config", "language", "product", "serial", "qualifier", "string 9" }

Asks(kind, length)  == [reads |-> TRUE, kind |-> kind, length |-> length, value |-> 0]
Sets(kind, value)   == [reads |-> FALSE, kind |-> kind, length |-> IF kind = "line" THEN 7 ELSE 0, value |-> value]
Requests ==
  { Asks(kind, length) : kind \in Descriptors, length \in ControlLengths }
  \cup { Asks("line", 7), Asks("class of a module", 7), Asks("status", 2), Asks("configuration", 1),
         Asks("interface", 1) }
  \cup { Sets(kind, value) : kind \in { "address", "configure", "line" }, value \in ControlValues }
  \cup { Sets("wakeup", 0), Sets("wakeup", 1), Sets("descriptor", 0), Sets("configure interface", 1) }

NotAnswered == -1

\* The bytes of an answer.
SendDescriptor(kind) ==
  CASE kind = "device"   -> 18
    [] kind = "config"   -> ConfigLength
    [] kind = "language" -> 4
    [] kind = "product"  -> 2 + 2 * 12
    [] kind = "serial"   -> 2 + 2 * ShortName
    [] kind \in { "qualifier", "string 9" } -> NotAnswered

AnswerLength(kind) ==
  CASE kind \in Descriptors -> SendDescriptor(kind)
    [] kind = "line"      -> 7
    [] kind = "class of a module" -> NotAnswered  \* which none of them takes
    [] kind = "status"    -> 2
    [] kind = "configuration" -> 1
    [] kind = "interface" -> 0

\* A string that was cut off counts as refused, the other answers as given.
CutIsRefused(kind) == kind \in { "product", "serial" }

(***************************************************************************)
(* The handler, USB_COM_vect.  It waits with interrupts off and without a  *)
(* limit: a host that goes away in the middle stops the sketch.            *)
(***************************************************************************)
\* ClearIN: the bank is sent if it is not the host's already.
ClearIN ==
  /\ ready' = IF ready = -1 THEN loaded ELSE ready
  /\ loaded' = IF ready = -1 THEN 0 ELSE loaded

ReadRequest ==
  /\ ctlPc = "setup" /\ setup.reads
  /\ LET length == AnswerLength(setup.kind) IN
     /\ good' = (length # NotAnswered)
     /\ ctlPc' = IF length = NotAnswered THEN "finish" ELSE "send"
     /\ goalLen' = Min({ length, setup.length })
  /\ made' = 0
  /\ UNCHANGED << setup, ctlBank, ctlDevice >>

\* A request of the host is answered before it is looked at.
WriteRequest ==
  /\ ctlPc = "setup" /\ ~setup.reads
  /\ ClearIN
  /\ ctlPc' = CASE setup.kind = "address" -> "address" [] setup.kind = "line" -> "receive" [] OTHER -> "finish"
  /\ good' = (setup.kind \notin { "descriptor", "configure interface" })
  /\ IF setup.kind = "configure" THEN hasConfiguration' = setup.value /\ enabled' = InitEndpoints
                                 ELSE UNCHANGED << hasConfiguration, enabled >>
  /\ settings' = IF setup.kind = "wakeup" THEN [settings EXCEPT !.wakeup = setup.value] ELSE settings
  /\ made' = 0 /\ goalLen' = setup.length
  /\ UNCHANGED << setup, outPending, stalled, udaddr >>

\* SendControl() of as many bytes as the bank takes: a full bank goes out, and
\* the next byte waits for the bank, or for a host that has had enough.
SendControl ==
  /\ ctlPc = "send" /\ made < goalLen
  /\ ready = -1 \/ outPending # -1
  /\ IF outPending # -1
     THEN /\ ctlPc' = "finish" /\ good' = ~CutIsRefused(setup.kind)
          /\ UNCHANGED << made, loaded, ready >>
     ELSE LET bytes == Min({ PacketSize, goalLen - made }) IN
          /\ made' = made + bytes
          /\ IF bytes = PacketSize THEN ready' = bytes /\ UNCHANGED loaded ELSE loaded' = bytes /\ UNCHANGED ready
          /\ UNCHANGED << ctlPc, good >>
  /\ UNCHANGED << setup, goalLen, outPending, stalled, ctlDevice >>

AllIsSent ==
  /\ ctlPc = "send" /\ made = goalLen /\ ctlPc' = "finish"
  /\ UNCHANGED << setup, good, made, goalLen, ctlBank, ctlDevice >>

\* USB_RecvControl() takes packet by packet.
RecvControl ==
  /\ ctlPc = "receive" /\ outPending # -1
  /\ made' = made + outPending /\ outPending' = -1
  /\ IF made' = goalLen THEN ctlPc' = "finish" /\ settings' = [settings EXCEPT !.line = setup.value]
                        ELSE UNCHANGED << ctlPc, settings >>
  /\ UNCHANGED << setup, good, goalLen, loaded, ready, stalled, udaddr, hasConfiguration, enabled >>

\* The new address counts once the host has seen the old one answer.
StatusIsTaken == ready = -1
SET_ADDRESS ==
  /\ ctlPc = "address" /\ StatusIsTaken
  /\ udaddr' = setup.value /\ ctlPc' = "finish"
  /\ UNCHANGED << setup, good, made, goalLen, ctlBank, hasConfiguration, enabled, settings >>

\* The last packet, or a stall.
EndOfRequest ==
  /\ ctlPc = "finish" /\ ctlPc' = "idle"
  /\ IF good THEN ClearIN /\ UNCHANGED stalled ELSE stalled' = TRUE /\ UNCHANGED << loaded, ready >>
  /\ UNCHANGED << setup, good, made, goalLen, outPending, ctlDevice >>

USB_COM_vect ==
  /\ ReadRequest \/ WriteRequest \/ SendControl \/ AllIsSent \/ RecvControl \/ SET_ADDRESS \/ EndOfRequest
  /\ UNCHANGED << ctlPlug, ctlHost >>

(***************************************************************************)
(* The host.                                                               *)
(***************************************************************************)
HostSetup(r) ==
  /\ usbAttached /\ host.step = "idle" /\ ctlPc = "idle" /\ controls < MaxControls
  /\ setup' = r /\ ctlPc' = "setup" /\ controls' = controls + 1
  /\ loaded' = 0 /\ ready' = -1 /\ outPending' = -1 /\ stalled' = FALSE
  /\ host' = [step |-> IF r.length = 0 \/ r.reads THEN "takes" ELSE "sends", moved |-> 0, end |-> "none"]
  /\ UNCHANGED << ctlPlug, good, made, goalLen, ctlDevice, known, wanted >>

Learns ==
  /\ known' = IF setup.reads /\ setup.kind = "config" /\ host'.moved >= ConfigLength
              THEN [length |-> host'.moved, interfaces |-> Interfaces,
                    endpoints |-> UNION { Parts[k].eps : k \in DOMAIN Parts }] ELSE known
  /\ wanted' = IF setup.reads THEN wanted
               ELSE CASE setup.kind = "address" -> [wanted EXCEPT !.address = setup.value]
                      [] setup.kind = "wakeup"  -> [wanted EXCEPT !.wakeup = setup.value]
                      [] setup.kind = "line"    -> [wanted EXCEPT !.line = setup.value]
                      [] OTHER -> wanted

\* It takes a packet; a short one is the last, and the one that completes what
\* it asked for.
HostTakes ==
  /\ host.step = "takes" /\ ready # -1 /\ ~stalled
  /\ ready' = -1
  /\ LET moved == IF setup.reads THEN host.moved + ready ELSE host.moved
         last  == ~setup.reads \/ ready < PacketSize \/ moved >= setup.length
     IN /\ host' = [step  |-> IF ~last THEN "takes" ELSE IF setup.reads THEN "status" ELSE "idle",
                    moved |-> moved, end |-> IF last THEN "whole" ELSE "none"]
        /\ IF last THEN Learns ELSE UNCHANGED << known, wanted >>
  /\ UNCHANGED << loaded, outPending, stalled >>

\* An empty packet ends an answer, also one that the host has had enough of.
HostEnds ==
  /\ \/ host.step = "status" /\ host' = [host EXCEPT !.step = "idle"]
     \/ host.step = "takes" /\ setup.reads /\ host.moved > 0 /\ ~stalled
        /\ host' = [host EXCEPT !.step = "idle", !.end = "cut"]
  /\ outPending' = 0
  /\ UNCHANGED << loaded, ready, stalled, known, wanted >>

HostSendsData ==
  /\ host.step = "sends" /\ outPending = -1
  /\ LET bytes == Min({ PacketSize, setup.length - host.moved })
     IN /\ outPending' = bytes
        /\ host' = [host EXCEPT !.moved = @ + bytes, !.step = IF host.moved + bytes = setup.length THEN "takes" ELSE "sends"]
  /\ UNCHANGED << loaded, ready, stalled, known, wanted >>

HostSeesStall ==
  /\ host.step # "idle" /\ stalled
  /\ host' = [host EXCEPT !.step = "idle", !.end = "stall"]
  /\ UNCHANGED << ctlBank, known, wanted >>

HostGoesOn ==
  /\ HostTakes \/ HostEnds \/ HostSendsData \/ HostSeesStall
  /\ UNCHANGED << ctlPlug, ctlHandler, ctlDevice, controls >>

(***************************************************************************)
(* Specification and properties.                                           *)
(***************************************************************************)
ControlInit ==
  /\ plugged = << >> /\ lastIf = 2 /\ lastEp = 4 /\ usbAttached = FALSE
  /\ initEndpoints = [e \in 1 .. UsbEndpoints - 1 |-> IF e < 4 THEN "cdc" ELSE "none"]
  /\ setup = Asks("device", 18) /\ ctlPc = "idle" /\ good = TRUE /\ made = 0 /\ goalLen = 0
  /\ loaded = 0 /\ ready = -1 /\ outPending = -1 /\ stalled = FALSE
  /\ udaddr = 0 /\ hasConfiguration = 0 /\ enabled = {} /\ settings = [wakeup |-> 0, line |-> 0]
  /\ host = [step |-> "idle", moved |-> 0, end |-> "none"]
  /\ known = [length |-> 0, interfaces |-> 0, endpoints |-> {}]
  /\ wanted = [address |-> 0, wakeup |-> 0, line |-> 0] /\ controls = 0

ControlNext ==
  \/ \E m \in PluggableModules : plug(m)
  \/ attach \/ BusReset
  \/ \E r \in Requests : HostSetup(r)
  \/ USB_COM_vect \/ HostGoesOn

ControlSpec ==
  ControlInit /\ [][ControlNext]_controlVars /\ WF_controlVars(USB_COM_vect) /\ WF_controlVars(HostGoesOn)

\* The values of the variables; and the name made of those of the modules fits
\* its array (USBCore.cpp:531).
ControlTypeOK ==
  /\ lastEp \in 4 .. UsbEndpoints /\ ShortName < ISERIAL_MAX_LEN
  /\ ctlPc \in { "idle", "setup", "send", "receive", "address", "finish" }
  /\ loaded \in 0 .. PacketSize - 1 /\ { ready, outPending } \subseteq -1 .. PacketSize
  /\ udaddr \in ControlValues \cup { 0 } /\ enabled \subseteq 1 .. UsbEndpoints - 1
  /\ host.step \in { "idle", "takes", "status", "sends" } /\ controls \in 0 .. MaxControls

\* A host that reads to the end has all there is of the answer, up to the
\* length it asked for; and what it does not know is stalled
\* (USBCore.cpp:398-424, :483-546, :641-646).
AnswersAreWhole ==
  (host.step = "idle" /\ controls > 0 /\ setup.reads) =>
    LET length == AnswerLength(setup.kind)
    IN /\ host.end = "whole" => host.moved = Min({ length, setup.length })
       /\ host.end = "stall" => length = NotAnswered

\* The configuration that the host has read gives every interface and endpoint
\* one owner, numbers them without gaps, is as long as it says, and all its
\* endpoints are there once it is set (PluggableUSB.cpp:76-102,
\* USBCore.cpp:354-371, :483-495).
ConfigurationIsTrue ==
  LET owners(i) == { k \in DOMAIN Parts : i \in Parts[k].ifs }
      users(e)  == { k \in DOMAIN Parts : e \in Parts[k].eps }
  IN known.length > 0 =>
       /\ known.length = ConfigLength
       /\ \A i \in 0 .. known.interfaces - 1 : Cardinality(owners(i)) = 1
       /\ \A i \in known.interfaces .. known.interfaces + 3 : owners(i) = {}
       /\ \A e \in known.endpoints : e \in 1 .. UsbEndpoints - 1 /\ Cardinality(users(e)) = 1
       /\ hasConfiguration # 0 => enabled = known.endpoints

\* The device takes its new address, and what else the host sets, and not
\* before the host knows that it does (USBCore.cpp:602-606).
SettingsFollow ==
  /\ udaddr # wanted.address => ctlPc = "address"
  /\ host.step = "idle" /\ ctlPc = "idle" => settings = [wakeup |-> wanted.wakeup, line |-> wanted.line]

\* Every transfer ends, of the device and of the host, if the host goes on and
\* no answer that is shorter than asked is a multiple of 64 bytes.
ControlEnds == ctlPc # "idle" \/ host.step # "idle" ~> ctlPc = "idle" /\ host.step = "idle"

=============================================================================
