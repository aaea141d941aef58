SPECIFICATION ModbusSpec
CONSTANTS
    Points = {"pump_run", "pump_speed", "flow_rate", "motor_status"}
    Kind <- MCKind
    Address <- MCAddress
    Writable = {"pump_run", "pump_speed"}
    Capabilities <- MCCapabilities
    Clamped = {"pump_speed"}
    Low <- MCLow
    High <- MCHigh
    Initial <- MCInitial
    Res = 2
    Simulation = "actuator_feedback"
    FullSpeed = 4
    DefaultSpeed = 0
    FillRate = 2
    DrainRate = 0
    RawMin = 0
    RawMax = 0
    HighThreshold = 0
    LowThreshold = 0
    WalkStep = 1
    WalkMin <- MCNoWalk
    WalkMax <- MCNoWalk
    RawValues = {0, 1, 2}
    MaxCount = 1
    DriftRates = {1}
    Amplitudes = {2}
    UptimeWrap = 2
    TimeBound = 1
    BlockSize = 3
    MaxRaw = 65535
    Typed <- MCTyped
    Sessions <- MCSessions
PROPERTIES
    FeedbackTellsThePlant
    StuckPumpKeepsFlowing
    FlowGoesWithTheMotor
    TypedIsCommanded
