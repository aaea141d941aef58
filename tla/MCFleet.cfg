SPECIFICATION FleetSpec
CONSTANTS
    d1 = d1
    d2 = d2
    d3 = d3
    t1 = t1
    t2 = t2
    Threads = {t1, t2}
    DeviceIds = {d1, d2, d3}
    HmiIds = {"h1"}
    Targets = {"a", "b"}
    Facility <- MCFacility
    Pids = {1, 2, 3}
    Shapes <- MCShapes
INVARIANTS
    FleetTypeOK
    RunningIsShown
    TargetsAreDistinct
    HmisHaveTheirDevice
    RestartLosesNothing
PROPERTIES
    LaunchIsWhole
SYMMETRY MCSymmetry
