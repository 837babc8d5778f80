CONSTANTS
  Ops = {"auth", "cmd", "read", "write", "chunk", "clear", "start", "end", "dfu", "sleep", "reboot"}
  Pins = {"p1"}
  Chunks = 3
  TxCap = 3
  ReadMax = 1
  HoldMax = 2
  BarrierMax = 2
  AbuseMax = 2
  MaxConn = 2
  MaxFrames = 3
  MaxQueue = 2
  MaxPress = 0
SPECIFICATION SilabsSpec
INVARIANT PanelOff
