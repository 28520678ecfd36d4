SPECIFICATION Spec
CONSTANTS
    SessionMedia = {"video", "audio"}
    Bundle = FALSE
    Trickle = FALSE
    AfterStart = {"INITIAL"}
    Streams = {s1}
    MaxSdp = 2
INVARIANTS FailureSurfaces ReadyMeansAllChannels NoMissedReady
PROPERTY EventsForward
CHECK_DEADLOCK FALSE
