SPECIFICATION MCSpec
CONSTANTS
  \* SilabsPump
  Ops = {"auth", "read", "write", "chunk", "clear", "start", "end", "dfu", "sleep", "reboot"}
  Pins = {"p1", "pa0"}
  Chunks = 3
  TxCap = 3
  ReadMax = 1
  HoldMax = 2
  BarrierMax = 2
  AbuseMax = 2
  MaxConn = 2
  MaxFrames = 3
  MaxQueue = 2
  MaxPress = 1
  \* ConfigWrite
  Targets = {"nordic", "esp32", "silabs"}
  ChunkSize = 2
  Prefix = 2
  MaxChunks = 3
  MaxSize = 7
  SmallSize = 5
  Lengths = {0, 1, 3, 4, 5}
  Embedded = {"nordic"}
  Totals = {0, 5, 7, 8}
INVARIANTS
  SilabsSafe
  ConfigSafe
PROPERTIES
  HoldEnds
