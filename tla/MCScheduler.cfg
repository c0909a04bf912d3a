SPECIFICATION Spec
CONSTANTS
    Fps <- MCFps
    DiscoveryMs = 2
    TyreCheckMs = 4
    MappingStartMs = 2
    MaxTime = 6
    MaxGap = 3
    MaxAdds = 3
INVARIANTS
    NoBacklog
    FramesAreSpaced
    ConfigOrder
CHECK_DEADLOCK FALSE
