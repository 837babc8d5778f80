SPECIFICATION MCSpec
CONSTANTS
  \* NordicPump
  RxCap = 2
  TxCap = 2
  Chunks = 3
  MaxPass = 2
  MaxGen = 2
  Ops = {"auth", "data", "end", "read", "save", "chunk"}
  Exempt = {"save", "chunk"}
  NoOwner = NoOwner
  \* NordicPanel
  P = 2
  MaxReload = 1
  NoPin = 0
  \* Nfc
  Clients = {A, B}
  Symbols = {x, y}
  AssemblyMax = 3
  ShortMax = 2
  ReadMax = 2
  BoardReadMax = 1
  Pages = 2
  MaxWrites = 2
  MaxFault = 1
INVARIANTS
  PumpSafe
  CommittedIsOnTag
PROPERTIES
  DeliveredToAsker
  NordicPanelCorrect
CHECK_DEADLOCK FALSE
