SPECIFICATION TelemetrySpec
CONSTANTS
    slip = slip
    acrPort = acrPort
    gamePort = gamePort
    Devices <- MCDevices
    SoundDevices = {}
    SlipDevices <- MCDevices
    Sightings <- MCSightings
    Ports = {acrPort, gamePort}
    AcrPort = acrPort
    NoPort = NoPort
    ForceUdp = FALSE
    QuitPoll = FALSE
    Audio = FALSE
    MaxTyped = 0
    MaxCalls = 1
    MaxQueue = 1
    CarNames = {"MX5", "caf?"}
    NoCar = ""
    DefaultCar = "default"
    Lower <- MCLower
    Lossy <- MCLossy
    Exes = {1}
    MaxCars = 2
    MaxEdits = 1
VIEW MCView
INVARIANTS
    CopiesWhereWritable
    NoTwins
PROPERTIES
    KeepsMeasured
    SearchBindsPort
