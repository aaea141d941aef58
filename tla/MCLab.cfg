SPECIFICATION Spec
CONSTANTS
    Points = {"gate", "speed", "sensor", "uptime"}
    Kind <- MCKind
    Address <- MCAddress
    Writable = {"gate", "speed"}
    Capabilities <- MCCapabilities
    Clamped = {"speed", "sensor"}
    Low <- MCLow
    High <- MCHigh
    Initial <- MCInitial
    Res = 2
    Simulation = "random_walk"
    FullSpeed = 1
    DefaultSpeed = 0
    FillRate = 0
    DrainRate = 0
    RawMin = 0
    RawMax = 0
    HighThreshold = 0
    LowThreshold = 0
    WalkStep = 1
    WalkMin <- MCWalkMin
    WalkMax <- MCWalkMax
    RawValues = {0, 3}
    MaxCount = 1
    DriftRates <- MCRates
    Amplitudes = {1}
    UptimeWrap = 2
    TimeBound = 2
INVARIANTS
    HealthyPointTellsThePlant
    ReportsStayInRange
PROPERTIES
    FrozenReportHolds
    ImplementsContract
