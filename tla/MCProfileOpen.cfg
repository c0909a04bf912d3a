SPECIFICATION FairSpec
CONSTANTS
    NoPath = ""
    Capacity = 2
    PollAttempts = 2
    Entries <- MCEntries
    Shakers <- MCShakers
    Paths <- MCPaths
    FoldCase <- MCFoldCase
    Bauds <- MCBauds
    Profiles <- MCProfiles
INVARIANTS
    PortsAreCounted
    PointersAreLive
    HeldByLoaded
PROPERTY
    LoadEnds
