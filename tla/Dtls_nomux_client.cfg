SPECIFICATION Spec
CONSTANTS
    RtcpMux = FALSE
    IsServer = FALSE
    MaxChecks = 2
    QueueBound = 2
INVARIANTS TypeOK ReadyIsKeyed NoClearMedia MediaAfterAllKeys
PROPERTIES ForwardOnly HandshakeEnds
CHECK_DEADLOCK FALSE
