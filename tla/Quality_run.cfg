SPECIFICATION Spec
CONSTANTS
    MaxSpatial = 1
    MaxTemporal = 1
    MinLayerSwitchInterval = 0
    ActiveLayerInterval = 0
    Estimates = {5, 12, 40}
    NoEstimate = NoEstimate
    SwitchTimeout = 0
    Simulcast = TRUE
    Profiles <- MCProfiles
    MaxCalls = 2
INVARIANTS TypeOK HandlersFollow KeyframeOrAsked
PROPERTIES ForcedStays LayerSettles LeavesStoppedLayer
