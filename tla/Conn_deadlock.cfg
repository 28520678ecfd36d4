SPECIFICATION Spec
CONSTANTS
    SessionMedia = {"video", "audio"}
    Bundle = TRUE
    Trickle = FALSE
    AfterStart = {"GATHERED"}
    Streams = {s1}
    MaxSdp = 1
INVARIANTS NoSelfDeadlock
CHECK_DEADLOCK FALSE
