SPECIFICATION Spec
CONSTANTS
    Bits = 6
    MaxRetransmits = 2
    MaxNacks = 4
    MinNackDelay = 0
    BlpBits = 2
    Interval = 2
    First = {0, 62}
    MaxAhead = 3
    MaxBehind = 4
    MaxPackets = 6
    MaxTime = 4
INVARIANTS TypeOK NackOnlyMissing AskLimit EveryLossAsked WrapCounted LossBounds FractionExact
CHECK_DEADLOCK FALSE
