CONSTANTS
  b1 = b1  b2 = b2
  Byte <- BusBytes  Zero = b1  None = None  BufLen = 2  Messages <- AllLengths
  ReadLengths = {1, 2, 3}  Replies <- NoReply  Stops = {TRUE, FALSE}  OtherMasters = FALSE
  Faults = {"nack", "arbitration", "error"}  Foreign <- BusBytes  Answers <- BusBytes
  ForeignBytes = 0
  Servers = {s1, s2}  NoIp = NoIp  FirstXids = {1}  Grants <- ShortLease  Second = 2
  ResponseTimeout = 0  SessionTimeout = 1  CheckEvery = 4  MaxXid = 2  MaxNet = 1
  Names = {n1, n2}  NoName = NoName  IdMod = 3  PortMod = 2  Life = 2  MaxAnswers = 2
  DnsTimeout = 0  Waits = 2
  SSize = 2  RSize = 3  PtrMod = 6  MaxDatagram = 3  Base = 2  Payload = {1, 2}  Writes <- ShortWrites
  Reads = {2}  Datagrams <- TheDatagrams  Segments <- OneSegment
  Sock = {0, 1}  NoSock = 4  Resets = TRUE  Steals = TRUE
  PluggableModules <- ThePluggables  UsbEndpoints = 7  ControlLengths = {9, 64, 255}
  ControlValues = {3}  MaxControls = 2
  USB_EP_SIZE = 2  Banks = 2  Lengths = {1, 2}  Patience = 1  MaxBytes = 3  MaxResets = 1
  Words = {0, 1}  MAGIC_KEY = MAGIC_KEY  OutBanks = 2  MaxReceived = 3
  Pages = 2  PageWords = 2  Data = {d0, d1}  Erased = Erased  Mixed = Mixed
  TIMEOUT_PERIOD = 2  Grace = 1  MaxCommands = 3
  PageSize = 2  LastPage = 1  save_vect_num = 1  AppWords = {c1, c2}  Loader = Loader
  Blank = Blank  Unset = Unset  WATCHDOG_1S = 2  WATCHDOG_16MS = 1  MaxChars = 10  MaxEvents = 2
  NvChips = {"mega328", "mega1284", "mega163"}  SPM_PAGESIZE = 4  PageImages <- OneImage  PagesUsed = {1, 6}
  ArrayPages = 2  LockMasks = {16}  E2END = 1  EeValues = {3}  MaxNvCalls = 2  Unguarded = FALSE
  HighArrays = FALSE
SPECIFICATION LinksSpec
INVARIANTS LinksTypeOK TwiIsSound ClientsAreSound SocketsAreSound UsbIsSound LoadersAreSound
PROPERTIES CallsEnd DeviceGoesOn
CHECK_DEADLOCK FALSE
