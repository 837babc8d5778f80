SPECIFICATION MCSpec
CONSTANTS
  \* TxQueue
  Slots = 4
  GenMod = 2
  MaxBudget = 2
  Links = {ble_link, lan_link}
  BleLinks = {ble_link}
  Frames = {f1, f2}
  NoFrame = NoFrame
  \* RxRing
  RxSlots = 3
  Data = {d1, d2}
  Tags = {t1, t2}
  NoData = NoData
  \* NordicPump
  RxCap = 1
  TxCap = 2
  Chunks = 2
  MaxPass = 2
  MaxGen = 1
  Ops = {"auth", "end", "data", "read"}
  Exempt = {}
  NoOwner = NoOwner
  \* AdvControl
  Msd = {a, b}
  None = None
INVARIANTS
  IInv
  RingInv
  AdvSafe
PROPERTIES
  ImplementsFifo
  ImplementsRxFifo
  QueuesDrain
  AdvSettles
CHECK_DEADLOCK FALSE
