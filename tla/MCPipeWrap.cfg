SPECIFICATION PipeSpec
CONSTANTS
    SeqMod = 256
    OD_PIPE_MAX_W = 32
    MaskBits = 32
    Chunks = 262
    ReqWindows = {32}
    ReqCadences = {32}
    Kinds = {"zlib"}
    FaultSets = {{}}
    Eager = FALSE
    MaxLoss = 1
    MaxStarts = 1
    MaxSacks = 1
INVARIANT CollisionFree
CHECK_DEADLOCK FALSE
