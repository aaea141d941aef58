SPECIFICATION FairSpec
CONSTANTS
    Points = {"pump_run", "valve_open", "alarm_ack", "level_high_sw",
              "level_low_sw", "e_stop", "pump_speed", "level", "flow", "alarms"}
    Kind <- MCKind
    Address <- MCAddress
    Writable = {"pump_run", "valve_open", "alarm_ack", "pump_speed"}
    Capabilities <- MCCapabilities
    Clamped = {"level", "pump_speed"}
    Low <- MCLow
    High <- MCHigh
    Initial <- MCInitial
    Res = 4
    Simulation = "tank_pump_valve"
    FullSpeed = 16
    DefaultSpeed = 8
    FillRate = 4
    DrainRate = 4
    RawMin = 0
    RawMax = 12
    HighThreshold = 10
    LowThreshold = 1
    WalkStep = 0
    WalkMin <- MCNoWalk
    WalkMax <- MCNoWalk
    RawValues = {0, 3}
    MaxCount = 2
    DriftRates <- MCRates
    Amplitudes = {1}
    UptimeWrap = 2
    TimeBound = 0
INVARIANTS
    AlarmsDescribeLevel
PROPERTIES
    LevelFollowsFlows
    AckIsReleased
