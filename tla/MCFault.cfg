SPECIFICATION FCSpec
CONSTANTS
    Points = {"gate", "level"}
    Kind <- MCKind
    Address <- MCAddress
    Writable = {"gate"}
    Capabilities <- MCLaxCapabilities
    Clamped = {"level"}
    Low <- MCLow
    High <- MCHigh
    Initial <- MCInitial
    Res = 2
    Simulation = "static"
    FullSpeed = 1
    DefaultSpeed = 0
    FillRate = 0
    DrainRate = 0
    RawMin = 0
    RawMax = 0
    HighThreshold = 0
    LowThreshold = 0
    WalkStep = 1
    WalkMin <- MCNoWalk
    WalkMax <- MCNoWalk
    RawValues = {0, 1}
    MaxCount = 1
    DriftRates = {1}
    Amplitudes = {1}
    UptimeWrap = 2
    TimeBound = 0
    Offered <- MCOffered
    MaxCommands = 3
    MaxBoots = 2
INVARIANTS
    LastCommandWins
    StatusTellsTheFaults
PROPERTIES
    FaultsTakeEffect
