SPECIFICATION Spec
CONSTANTS
    Ref = {r1, r2, r3, r4}
    Job = {"keyframe", "pli", "enable", "disable"}
    MaxDelay = 1
    MaxLoad = 3
    MinPLIPeriod = 1
    KeyframeTimeout = 2
    NoRef = NoRef
INVARIANTS TypeOK OneTimer WaitCovered
PROPERTIES NoRequestAfterKeyframe Paced WaitEnds
