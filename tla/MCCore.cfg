SPECIFICATION MCSpec
CONSTANTS
  \* NonceBitmap
  WordBits = 3
  Words = 2
  Width = 6
  MaxCounter = 10
  \* Session
  RATE_MAX_ATTEMPTS = 2
  RATE_WINDOW = 2
  CHALLENGE_WINDOW = 1
  STRIKES = 2
  Timeout = 2
  ClockMod = 5
  TxMax = 1
  RxCounters = {0, 1}
  MaxKeys = 2
  MaxChallenges = 3
  \* Inflate
  Streams <- MCStreams
  FrameSizes = {1, 2, 5}
  Scratches = {1, 3}
  WINDOW = 8
  WINDOW_BITS = 9
  DICT = 16
  MaxStarts = 2
  \* ConfigParse
  Targets = {"esp32", "nordic", "silabs"}
  Packets <- MCPackets
  MaxPackets = 3
  Cuts <- MCCuts
  MaxWrites = 1
  Factory <- MCFactory
  \* Transfer
  Owners = {o1, o2}
  NoOwner = NoOwner
  Etags = {1, 2}
  Size = 2
  \* Buzzer
  Bytes = {0, 1, 2}
  MaxLen = 9
  AgainLen = 3
  PayloadMax = 9
  MaxTotal = 5
  Gap = 1
  Late = 1
  MaxCmd = 2
  \* Watchdog
  Phases = {0, 1}
  Limit = 1
  Healthy = 3
  MaxFaults = 1
INVARIANTS
  NoReplay
  SessionInv
  InflateSafe
  ParseSafe
  TransferSafe
  BuzzerSafe
  WatchdogSafe
PROPERTIES
  ImplementsWindow
  SessionSteps
CHECK_DEADLOCK FALSE
