SPECIFICATION Spec
CONSTANTS
    Bits = 8
    WordBits = 8
    BufferSize = 16
    MaxDistance = 2
    Starts = {254, 3}
    SkipAfterLoss = FALSE
    MaxJump = 17
    MaxGenerate = 4
    MaxCalls = 6
INVARIANTS GetMatches OutputsOrdered ReverseInverts
CHECK_DEADLOCK FALSE
