SPECIFICATION FairFinsSpec
CONSTANTS
    Points = {"pump_run", "level", "level_low_sw"}
    Kind <- MCKind
    Address <- MCAddress
    Writable = {"pump_run"}
    Capabilities <- MCFaulty
    Clamped = {}
    Low <- MCNothing
    High <- MCNothing
    Initial <- MCInitial
    Res = 1
    Simulation = "tank_pump_valve"
    FullSpeed = 1
    DefaultSpeed = 1
    FillRate = 1
    DrainRate = 1
    RawMin = 0
    RawMax = 1
    HighThreshold = 1
    LowThreshold = 0
    WalkStep = 1
    WalkMin <- MCNothing
    WalkMax <- MCNothing
    RawValues = {0, 1}
    MaxCount = 1
    DriftRates <- MCDown
    Amplitudes = {1}
    UptimeWrap = 2
    TimeBound = 1
    Peers = {q1, q2}
    NoPeer = NoPeer
    Interval = 2
    MaxU16 = 7
INVARIANTS
    FinsTypeOK
    NothingMissed
PROPERTIES
    TelemetryReachesThePeer
