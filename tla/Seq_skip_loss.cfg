SPECIFICATION Spec
CONSTANTS
    Bits = 7
    WordBits = 7
    BufferSize = 8
    MaxDistance = 2
    Starts = {126, 3}
    SkipAfterLoss = TRUE
    MaxJump = 4
    MaxGenerate = 1
    MaxCalls = 5
INVARIANTS ReverseInverts
CHECK_DEADLOCK FALSE
