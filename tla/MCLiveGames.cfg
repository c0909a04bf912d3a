CONSTANTS
    g1 = g1
    g2 = g2
    Games = {g1, g2}
    Idle = Idle
    NoFile = NoFile
    Short = Short
    NoFlow = NoFlow
    Frames <- MCFrames
    Lines <- MCLines
    OtherLines <- MCOtherLines
    SimHosts = {"wine64", "bash"}
    NoExe = ""
    Table <- MCTable
    Example <- MCExample
    FlowHold = 1
    StatusRefresh = 1
    MaxEvents = 2
    MaxRows = 2
SPECIFICATION Spec
INVARIANTS LiveMeansFlow BoundGameRuns
PROPERTIES SettingsFollowGames FileIsMapped
CHECK_DEADLOCK FALSE
