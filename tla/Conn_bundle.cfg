SPECIFICATION Spec
CONSTANTS
    SessionMedia = {"video", "audio"}
    Bundle = TRUE
    Trickle = FALSE
    AfterStart = {"INITIAL", "GATHERED"}
    Streams = {s1}
    MaxSdp = 2
INVARIANTS VideoCandidatesApplied
CHECK_DEADLOCK FALSE
