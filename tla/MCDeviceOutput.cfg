SPECIFICATION Spec
CONSTANTS
    HitLength = 2
    FadeLength = 2
    C12Leds = 4
    C12First = 1
    GtLeds = 5
    GtRoom = 2
    MaxLost = 1
    AskedRevs = {1000, 2000}
    TachFiles <- MCTachFiles
    MaxKeys = 1
    MaxRuns = 1
    Unknown = Unknown
    Devices <- MCDevices
    Frames <- MCFrames
    OffFrame <- MCOffFrame
    Scripts <- MCScripts
INVARIANTS
    DriversKnow
    NeedleAsCalibrated
    QuietWhenNotRolling
    BlankAfterRelease
