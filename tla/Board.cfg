CONSTANTS
  Top = 5  Wrap = 4  MILLIS_INC = 1  FRACT_INC = 2  FRACT_MAX = 3
  Milli = 6  OffMax = 2  YieldMax = 7  Delays = {0, 2}
  MAX_NUMBER_OF_EVENTS = 2  Epoch = 4  Periods = {2}  Repeats <- OnceOrAlways  EventIds = {0, 1}
  ServoCount = 2  SERVOS_PER_TIMER = 3  Widths = {1, 2}  DefaultWidth = 2
  RefreshInterval = 6  Margin = 1  TimerTop = 12
  TonePins = {t1, t2}  NoPin = NoPin  Half = 2  Toggles <- ToneToggles  ToneTimers = {2, 3}
  TimerChips = {"ATmega1284P", "ATmega32U4", "ATmega32"}  PwmOutputs <- SharedOutputs
  Prescalers = {1, 3}  Careless = FALSE
  Ports = {p1, p2}  NoPort = NoPort  Bytes <- BitBytes  Bits = 1  _SS_MAX_RX_BUFF = 3
  IntChips = {"eight lines", "ATmega32U4", "three lines", "ATmega32"}  Modes = {1, 2, 3}
  Lines = {2, 6}  Functions = {f, g}  nothing = nothing  Reattach = FALSE
  SketchPins = {9, 10}  HandlerPins = {10}  AnalogPins = {4, 25}  HandlerReads = FALSE
  Word = 32  HeapStart = 6  Limits = {18, 27}  MallocSizes = {1, 3, 6, 30, 31}
  ReallocSizes = {2, 5, 9, 29}
  Blocks = {0, 1}  BlockLen = 3  Versions = {v1}  Erased = Erased  NoByte = NoByte
  Kinds = {"SD1", "SDHC"}  IntLines = {i1}  AnyLine = AnyLine
  Refused = FALSE  StopAfterFailure = FALSE  Nested = FALSE
  la = la  lb = lb
  Names = {la, lb}  Foreign = {}  PathsUsed <- TwoLevels  RootSlots = 2  ClusterSlots = 3
  Clusters = 2  Ids = {1, 2, 3}  ThroughFiles = FALSE
  NameLen = 2  ExtLen = 1  NameTexts <- SomeNames  PathTexts <- SomePaths  MaxStamps = 3
  Instants <- SomeInstants  NotInstants <- SomeNotInstants
  Blank = Blank  Strings = {x, y}  Texts <- ShortTexts  Replacements <- PlainReplacements
  MaxText = 3  Code <- Codes  UpperOf <- Capitals
  Chips <- MapChips  SpiBytes <- ThreeBits  MaxPinCalls = 1
  F_CPU = 128  SpiClocks = {0, 1, 2, 3, 4, 15, 16, 63, 64, 200}  PulseLines <- SomeLines  Timeouts = {1, 2, 4, 9}
  Searches <- Searched  SearchTexts <- SearchLines  NumberTexts <- NumberLines  Rooms <- SomeRooms
  _timeout = 1  LongHalf = 128
  LongBits = 5  PrintLongs <- SomeLongs  PrintUnsigned = {9, 31}  Bases = {0, 1, 2, 16}
  Thousandths <- SomeThousandths  PlacesShown = {0, 2}  OvfLimit = 30  Octets = {0, 255}
  AddressTexts <- AddressTextsUsed
SYMMETRY BoardSymmetry
SPECIFICATION BoardSpec
INVARIANTS
  BoardTypeOK TimeIsKept SoftPortHears ToneIsSound HandlerIsAttached PinsAreSound HeapIsSound
  StorageIsSound 
PROPERTIES DurationsLast TreeIsSound ImplementsHeap
CHECK_DEADLOCK FALSE
