SPECIFICATION MCSpec
CONSTANTS
  \* MdnsQuery
  Blocks = {b1, b2}
  Tasks = {t1, t2}
  Queries <- MCQueries
  QueryPackets <- MCAnswers
  TIMEOUT = 1
  RESEND = 1
  QUERY_QLEN = 2
  MaxNew = 3
  MaxAnswers = 1
  StopMidway = FALSE
  \* MdnsBrowse
  Services = {"s", "u"}
  Results = {1, 2, 3, 4}
  Packets <- MCPackets
  QLEN = 2
  MaxRx = 3
  MaxCalls = 2
  \* Esp32Sensors
  SLOW = 1
  NONE = 99
  Configs <- MCConfigs
  DYN_LEN = 11
  SHT_DEFAULT = 7
  TTL = 1
  W = 3
  \* Esp32Pmic
  Boards <- MCBoards
  MaxFaults = 1
INVARIANTS
  MdnsClientsSafe
  SensorsSafe
  PmicSafe
CHECK_DEADLOCK FALSE
