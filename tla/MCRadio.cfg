SPECIFICATION MCSpec
CONSTANTS
  \* Pipe
  SeqMod = 9
  OD_PIPE_MAX_W = 3
  MaskBits = 4
  Chunks = 10
  ReqWindows = {0, 9}
  ReqCadences = {2}
  Kinds = {"raw", "zlib"}
  FaultSets = {{}, {"reply", "sink", "header", "frame", "end"}}
  Eager = TRUE
  MaxLoss = 1
  MaxStarts = 2
  MaxSacks = 2
  \* Nimble
  Msd = {m1, m2}
  None = None
  Bare = Bare
  Addr = {1, 2}
  PASSES = 2
  TRIES = 2
  MaxResets = 1
  Reinit = FALSE
  \* NordicBle
  Data = {d1, d2}
  Silence = Silence
  BOOST = 1
  MaxRefusals = 1
INVARIANTS
  PipeSafe
  NimbleSafe
  ZephyrSafe
PROPERTIES
  Completes
  ComesBack
  ZephyrCatchesUp
CHECK_DEADLOCK FALSE
