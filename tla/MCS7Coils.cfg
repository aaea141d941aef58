SPECIFICATION S7Spec
CONSTANTS
    Points = {"pump", "valve", "speed", "sensor"}
    Kind <- MCKind
    Address <- MCAddress
    Writable = {"pump", "valve", "speed"}
    Capabilities <- MCNone
    Clamped = {"speed"}
    Low <- MCLow
    High <- MCHigh
    Initial <- MCInitial
    Res = 2
    Simulation = "static"
    FullSpeed = 1
    DefaultSpeed = 0
    FillRate = 0
    DrainRate = 0
    RawMin = 0
    RawMax = 0
    HighThreshold = 0
    LowThreshold = 0
    WalkStep = 1
    WalkMin <- MCNoWalk
    WalkMax <- MCNoWalk
    RawValues = {1, 3}
    MaxCount = 1
    DriftRates = {2}
    Amplitudes = {1}
    UptimeWrap = 2
    TimeBound = 0
    MaxU16 = 7
INVARIANTS
    UncommandedPointsRest
