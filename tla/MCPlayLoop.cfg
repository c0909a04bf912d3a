SPECIFICATION FairSpec
CONSTANTS
    wheel = wheel
    shaker = shaker
    acrPort = acrPort
    noPort = noPort
    Devices <- MCDevices
    SoundDevices <- MCSoundDevices
    Sightings <- MCSightings
    Ports <- MCPorts
    AcrPort = acrPort
    NoPort = noPort
    ForceUdp = FALSE
    QuitPoll = TRUE
    Audio = TRUE
    MaxTyped = 1
    MaxCalls = 2
INVARIANTS
    HeldIsDriven
PROPERTIES
    PauseKept
    HoldSpec
    ExitsAsTold
    EventuallyDrives
