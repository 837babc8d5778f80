SPECIFICATION MCSpec
CONSTANTS
  \* Esp32Link
  Handles = {h1}
  MaxInst = 1
  MaxEpoch = 2
  RxCap = 1
  TxCap = 1
  MaxPass = 1
  AbuseLimit = 2
  IdleLimit = 1
  None = None
  \* Esp32Panel
  W = 3
  R = 2
  MaxChunk = 2
  MaxImage = 3
  MaxReload = 1
  MaxSleep = 1
  \* PowerLatch
  Boards <- MCBoards
  HOLD = 2
  MIN_WAKE = 2
  MaxSleeps = 2
  \* Wifi
  AP = {1, 2}
  Keys = {0, 1}
  SLOTS = 2
  MaxWifiEvents = 1
  MaxWrites = 1
INVARIANTS
  WifiSafe
  Esp32PanelSafe
PROPERTIES
  Esp32LinkCorrect
  PowerCorrect
CHECK_DEADLOCK FALSE
