SPECIFICATION Spec
CONSTANTS
    Entries <- MCEntries
    BlankEntry <- MCBlankEntry
    Templates <- MCTemplates
    InitialConfig <- MCInitialConfig
    Names = {"A", "B"}
    NewName = "B"
    Flags <- MCFlags
    DefaultFlags <- Plain
    NoFlags = NoFlags
    Games = {0, 7}
    Idle = 0
    Sinks <- MCSinks
    Tactile = "tactile"
    NoId = "none"
    MaxProfiles = 3
    MaxDevices = 3
    MaxChanges = 3
    HitLength = 2
    FadeLength = 2
INVARIANT TestPlaysSaved
PROPERTY EditsSurvive
VIEW View
