SPECIFICATION FairFinsSpec
CONSTANTS
    Points = {"pump_run", "flow", "level"}
    Kind <- MCKind
    Address <- MCAddress
    Writable = {"pump_run"}
    Capabilities <- MCFlowNoise
    Clamped = {"level"}
    Low <- MCLow
    High <- MCHigh
    Initial <- MCInitial
    Res = 1
    Simulation = "tank_pump_valve"
    FullSpeed = 1
    DefaultSpeed = 1
    FillRate = 1
    DrainRate = 1
    RawMin = 0
    RawMax = 2
    HighThreshold = 2
    LowThreshold = 0
    WalkStep = 1
    WalkMin <- MCNothing
    WalkMax <- MCNothing
    RawValues = {0, 1}
    MaxCount = 1
    DriftRates = {0}
    Amplitudes = {1}
    UptimeWrap = 2
    TimeBound = 0
    Peers = {q1}
    NoPeer = NoPeer
    Interval = 2
    MaxU16 = 7
PROPERTIES
    TelemetryGoesOn
