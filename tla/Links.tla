-------------------------------- MODULE Links --------------------------------
(***************************************************************************)
(* What talks to the outside over a protocol of its own: the clients of    *)
(* the Ethernet library, the sockets of its chip, the USB endpoints and    *)
(* the requests about them, the serial port over USB, and the two boot     *)
(* loaders with the memory that they write.                                *)
(*                                                                         *)
(* As in module Board they share no state: a behaviour here is that of the *)
(* one named by `focus`, the others standing at their initial state.  Each *)
(* brings the fairness of its own module, asked of it alone.               *)
(***************************************************************************)
EXTENDS Twi, Ethernet, UsbControl, UsbEndpoint, Cdc, Caterina, Optiboot, NonVolatile

VARIABLE focus

\* The two-wire driver as a slave that starts nothing itself, for masters that
\* write up to two bytes more than fit and read replies of any length.
Node == INSTANCE Twi WITH
  OtherMasters <- TRUE, Faults <- { "error" }, Messages <- {}, ReadLengths <- {},
  ForeignBytes <- BufLen + 2, Foreign <- Byte,
  Replies <- { << >> } \cup { << x, y >> : x, y \in Byte }

usbDevVars == << controlVars, usbVars, cdcVars >>
loaderVars == << catVars, optVars, nvVars >>
linkVars   == << focus, vars, netVars, usbDevVars, loaderVars >>

LinkNames == { "twi", "node", "dhcp", "dns", "w5100", "sockets", "control", "usb", "cdc",
               "caterina", "optiboot", "flash" }

\* What a link starts with is chosen where the link is looked at.
LinksInit ==
  /\ focus \in LinkNames
  /\ Init /\ DhcpInit /\ DnsInit /\ W5100Init /\ SocketsInit
  /\ ControlInit /\ UsbInit /\ CdcInit /\ CaterinaInit /\ OptInit /\ NvInit
  /\ focus # "w5100" => proto = "TCP"
  /\ focus # "caterina" => flash[0] = Erased
  /\ focus # "flash" => nvMemory = "eeprom"
  /\ focus # "cdc" => ~oldLoader

TwiAlone      == UNCHANGED << focus, netVars, usbDevVars, loaderVars >>
DhcpAlone     == focus = "dhcp" /\ UNCHANGED << focus, vars, dnsVars, w5100Vars, socketsVars, usbDevVars, loaderVars >>
DnsAlone      == focus = "dns" /\ UNCHANGED << focus, vars, dhcpVars, w5100Vars, socketsVars, usbDevVars, loaderVars >>
W5100Alone    == focus = "w5100" /\ UNCHANGED << focus, vars, dhcpVars, dnsVars, socketsVars, usbDevVars, loaderVars >>
SocketsAlone  == focus = "sockets" /\ UNCHANGED << focus, vars, dhcpVars, dnsVars, w5100Vars, usbDevVars, loaderVars >>
ControlAlone  == focus = "control" /\ UNCHANGED << focus, vars, netVars, usbVars, cdcVars, loaderVars >>
UsbAlone      == focus = "usb" /\ UNCHANGED << focus, vars, netVars, controlVars, cdcVars, loaderVars >>
CdcAlone      == focus = "cdc" /\ UNCHANGED << focus, vars, netVars, controlVars, usbVars, loaderVars >>
CaterinaAlone == focus = "caterina" /\ UNCHANGED << focus, vars, netVars, usbDevVars, optVars, nvVars >>
OptibootAlone == focus = "optiboot" /\ UNCHANGED << focus, vars, netVars, usbDevVars, catVars, nvVars >>
FlashAlone    == focus = "flash" /\ UNCHANGED << focus, vars, netVars, usbDevVars, catVars, optVars >>

LinksNext ==
  \/ focus = "twi" /\ Next /\ TwiAlone
  \/ focus = "node" /\ Node!Next /\ TwiAlone
  \/ DhcpAlone /\ DhcpNext
  \/ DnsAlone /\ DnsNext
  \/ W5100Alone /\ W5100Next
  \/ SocketsAlone /\ SocketsNext
  \/ ControlAlone /\ ControlNext
  \/ UsbAlone /\ UsbNext
  \/ CdcAlone /\ CdcNext
  \/ CaterinaAlone /\ CaterinaNext
  \/ OptibootAlone /\ OptNext
  \/ FlashAlone /\ NvNext

\* Without other masters the bus is never taken away: weak fairness is enough.
TwiFairness ==
  /\ WF_vars(focus = "twi" /\ Proceed) /\ WF_vars(focus = "twi" /\ StartSent)
  /\ WF_vars(focus = "twi" /\ Handlers)
  /\ WF_vars(focus = "twi" /\ AddressSent) /\ WF_vars(focus = "twi" /\ DataSent)
  /\ WF_vars(focus = "twi" /\ \E x \in Answers : DataReceived(x))

NetFairness ==
  /\ WF_dhcpVars(focus = "dhcp" /\ Session) /\ SF_dhcpVars(focus = "dhcp" /\ DhcpTick)
  /\ WF_dhcpVars(focus = "dhcp" /\ CheckLease)
  /\ WF_dnsVars(focus = "dns" /\ SendTakesTime /\ SendRequest)
  /\ WF_dnsVars(focus = "dns" /\ WaitEnds) /\ WF_dnsVars(focus = "dns" /\ DnsTick)
  /\ WF_dnsVars(focus = "dns" /\ (ReadLabel \/ ReadRecords))
  /\ WF_w5100Vars(focus = "w5100" /\ SketchStep) /\ WF_w5100Vars(focus = "w5100" /\ Chip)
  /\ WF_socketsVars(focus = "sockets" /\ Going) /\ WF_socketsVars(focus = "sockets" /\ PeersAnswer)
  /\ SF_socketsVars(focus = "sockets" /\ Available)

DeviceFairness ==
  /\ WF_controlVars(focus = "control" /\ USB_COM_vect) /\ WF_controlVars(focus = "control" /\ HostGoesOn)
  /\ WF_usbVars(focus = "usb" /\ UsbGoesOn) /\ WF_usbVars(focus = "usb" /\ StartOfFrame)
  /\ WF_usbVars(focus = "usb" /\ TakePacket) /\ WF_usbVars(focus = "usb" /\ ~busIdle /\ Traffic)
  /\ WF_usbVars(focus = "usb" /\ SuspendOrWakeup)
  /\ WF_catVars(focus = "caterina" /\ BlockWord) /\ WF_catVars(focus = "caterina" /\ TimerTick)
  /\ WF_catVars(focus = "caterina" /\ TimesOut)
  /\ WF_optVars(focus = "optiboot" /\ (ErasePage \/ WritePage))
  /\ WF_optVars(focus = "optiboot" /\ WatchdogTick)

LinksSpec == LinksInit /\ [][LinksNext]_linkVars /\ TwiFairness /\ NetFairness /\ DeviceFairness

\* The values of every module's variables.
LinksTypeOK ==
  /\ focus \in { "twi", "node" } => TypeOK
  /\ focus = "dhcp" => DhcpTypeOK
  /\ focus = "dns" => DnsTypeOK
  /\ focus = "control" => ControlTypeOK
  /\ focus = "usb" => UsbTypeOK
  /\ focus = "cdc" => CdcTypeOK
  /\ focus = "caterina" => CaterinaTypeOK
  /\ focus = "optiboot" => OptTypeOK
  /\ focus = "flash" => NvTypeOK

(***************************************************************************)
(* Properties.                                                             *)
(***************************************************************************)

\* The host reads descriptors to their end and finds every interface and
\* endpoint once; it takes every byte once, in order and to the end of each message;
\* the sketch reads every byte the host sent; the loader starts when, and only
\* when, the port was opened and closed at 1200 baud; and a touch that is
\* taken back leaves the sketch its word of RAM (USBCore.cpp:274-323, :398-646,
\* PluggableUSB.cpp:76-102, CDC.cpp:97-151); each with the exceptions it names.
UsbIsSound ==
  /\ focus = "control" => AnswersAreWhole /\ ConfigurationIsTrue /\ SettingsFollow
  /\ focus = "usb" => SentOnceInOrder /\ MessageEndsShort
  /\ focus = "cdc" => LoaderMeansTouch /\ SketchWordKept /\ CdcRxFifo /\ EmptyIsReleased

\* Flash holds what the host sent, at its address; optiboot keeps the reset
\* vector whatever is uploaded, and reads back what was uploaded; the sketch
\* starts only after silence or at the host's word (Caterina.c:343-382,
\* optiboot.c:601-618, :942-949).  What is written to flash, to a cell of the
\* EEPROM or as a lock bit is there and nowhere else, whatever interrupts it
\* (boot.h:203-562, optiboot.c:863-925, EEPROM.h:36-143).
LoadersAreSound ==
  /\ focus = "caterina" => FlashIsSent /\ StartsWhenQuiet
  /\ focus = "optiboot" => LoaderIsKept /\ UploadIsSound
  /\ focus = "flash" => ProgrammingIsSound

\* The calls of the two-wire driver and of the Ethernet library return (twi.c:141,
\* :220, Dhcp.cpp:119, Dns.cpp:139, socket.cpp:141), but for a lookup whose answer
\* is cut short in the name it repeats (Dns.cpp:296-312) and connect() to a peer
\* that closes before it looks (EthernetClient.cpp:62-68); and a server that is
\* asked listens again (EthernetServer.cpp:29-49).
CallsEnd ==
  /\ CallReturns /\ SessionEnds /\ LookupReturns /\ SocketCallReturns /\ ConnectReports
  /\ []<>(focus = "sockets" => Listening \/ MissedThePeer)

\* USB_Send() returns and what it loaded is sent; a request is answered; a
\* loader whose host goes quiet starts the sketch (USBCore.cpp:276-296, :549-646, Caterina.c:157,
\* optiboot.c:757-763).
DeviceGoesOn ==
  /\ SendReturns /\ FramesGoOut /\ ControlEnds /\ SketchStarts
  /\ []<>(focus = "optiboot" => optPc = "app")

=============================================================================
