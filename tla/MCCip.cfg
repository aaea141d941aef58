SPECIFICATION FairCipSpec
CONSTANTS
    Points = {"pump_run", "flow_rate", "limit"}
    Kind <- MCKind
    Address <- MCAddress
    Writable = {"pump_run"}
    Capabilities <- MCStuck
    Clamped = {}
    Low <- MCEmpty
    High <- MCEmpty
    Initial <- MCInitial
    Res = 1
    Simulation = "actuator_feedback"
    FullSpeed = 1
    DefaultSpeed = 1
    FillRate = 1
    DrainRate = 0
    RawMin = 0
    RawMax = 0
    HighThreshold = 0
    LowThreshold = 0
    WalkStep = 1
    WalkMin <- MCEmpty
    WalkMax <- MCEmpty
    RawValues = {0, 1}
    MaxCount = 1
    DriftRates <- MCDown
    Amplitudes = {1}
    UptimeWrap = 2
    TimeBound = 1
    Clients = {c1, c2}
    Serials = {1, 2}
    NoConnection = NoConnection
    Rpi = 2
    MaxHandles = 3
    SeqWrap = 2
    MaxU16 = 7
INVARIANTS
    ConnectionHasItsSession
PROPERTIES
    OnlyItsSessionCloses
    OpenedIsServed
