SPECIFICATION Spec
CONSTANTS
    Bits = 15
    WordBits = 16
    BufferSize = 511
    MaxDistance = 250
    Starts = {32704}
    SkipAfterLoss = FALSE
    MaxJump = 64
    MaxGenerate = 0
    MaxCalls = 3
INVARIANTS GetMatches
CHECK_DEADLOCK FALSE
