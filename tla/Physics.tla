------------------------------ MODULE Physics ------------------------------
(***************************************************************************)
(* The four built-in simulations (_apply_static and its siblings), each    *)
(* as the set of states one tick may lead to from state st of the points.  *)
(* The point ids are the defaults of simulation.params, which every        *)
(* shipped device uses.  Rates are in fractions of a raw unit per tick.    *)
(***************************************************************************)
EXTENDS DeviceModel

CONSTANTS
    Simulation,             \* device.simulation.type
    FullSpeed,              \* 100 % of pump_speed
    DefaultSpeed,           \* what a device without pump_speed gets
    FillRate, DrainRate,    \* fill_rate (max_flow of the actuator), drain_rate
    RawMin, RawMax,         \* ends of the tank, in fractions
    HighThreshold, LowThreshold,
    WalkStep,               \* step of point_bounds
    WalkMin, WalkMax        \* [walking points -> Int]

SimulationTypes ==
    {"static", "random_walk", "tank_pump_valve", "actuator_feedback"}

ASSUME PhysicsAssumption ==
    /\ Simulation \in SimulationTypes
    /\ FullSpeed \in Nat \ {0}
    /\ {DefaultSpeed, FillRate, DrainRate, RawMin, RawMax,
        HighThreshold, LowThreshold} \subseteq Int
    /\ RawMin <= RawMax
    /\ WalkStep \in Nat
    /\ \A p \in DOMAIN WalkMin : WalkMin[p] \in Int /\ WalkMax[p] \in Int

-----------------------------------------------------------------------------
\* get_point_value(id, default)
PointValue(st, id, default) == IF id \in Points THEN st[id] ELSE default

\* set_point_value for every id of new; an id the device lacks is ignored.
SetPointValues(st, new) ==
    [p \in Points |-> IF p \in DOMAIN new THEN Normalize(p, new[p]) ELSE st[p]]

On(st, id) == PointValue(st, id, 0) # 0

\* What the pump moves in one tick, in fractions of a raw unit.
PumpFlow(st, default) ==
    IF On(st, "pump_run")
    THEN (Clamp(0, FullSpeed, PointValue(st, "pump_speed", default)) * FillRate)
            \div FullSpeed
    ELSE 0

\* The tick starts from the level as a raw integer: the fraction the last
\* tick left is rounded away.
NextLevel(st) ==
    Clamp(RawMin, RawMax,
          EngineeringToRaw("level", st["level"]) * Res
            + PumpFlow(st, DefaultSpeed)
            - (IF On(st, "valve_open") THEN DrainRate ELSE 0))

LevelIsHigh(level) == level >= HighThreshold
LevelIsLow(level) == level <= LowThreshold

\* The flags are those of the level the tick stores.
FlagLevelBefore(st) == st["level"]      \* Mutant: those of the level it read
FlagLevel(st) == NextLevel(st)

AlarmWord(level, estop) ==
    (IF LevelIsHigh(level) THEN 1 ELSE 0)
        + (IF LevelIsLow(level) THEN 2 ELSE 0)
        + (IF estop THEN 4 ELSE 0)

AckKept(st) == st["alarm_ack"]          \* Mutant: the button is not released
AckAfter(st) == 0

TankTick(st) ==
    LET level == NextLevel(st)
        flags == FlagLevel(st)
    IN  SetPointValues(st,
            [level |-> level,
             flow |-> PumpFlow(st, DefaultSpeed),
             level_high_sw |-> IF LevelIsHigh(flags) THEN 1 ELSE 0,
             level_low_sw |-> IF LevelIsLow(flags) THEN 1 ELSE 0,
             alarms |-> AlarmWord(flags, On(st, "e_stop")) * Res,
             alarm_ack |-> AckAfter(st)])

\* Mutant: the flow of a running pump holds while its speed changes.
FeedbackFlowHeld(st) ==
    IF On(st, "pump_run") /\ st["flow_rate"] > 0 THEN st["flow_rate"]
    ELSE PumpFlow(st, FullSpeed)
FeedbackFlow(st) == PumpFlow(st, FullSpeed)

\* params.fault is absent from the shipped devices: the fault bit stays 0.
ActuatorTick(st) ==
    SetPointValues(st,
        [flow_rate |-> FeedbackFlow(st),
         motor_status |-> IF On(st, "pump_run") THEN Res ELSE 0])

\* The read-only numeric points that have point_bounds.
Walking == {p \in DOMAIN WalkMin \cap Points : ~ IsBool(p) /\ p \notin Writable}

RandomWalkTicks(st) ==
    {SetPointValues(st, [p \in Walking |-> Clamp(WalkMin[p], WalkMax[p],
                                                 st[p] + step[p])]) :
        step \in [Walking -> (-WalkStep) .. WalkStep]}

PhysicsTick(st) ==
    CASE Simulation = "random_walk" -> RandomWalkTicks(st)
      [] Simulation = "tank_pump_valve" /\ "level" \in Points -> {TankTick(st)}
      [] Simulation = "actuator_feedback" -> {ActuatorTick(st)}
      [] OTHER -> {st}

\* The points some tick assigns.
Simulated ==
    CASE Simulation = "random_walk" -> Walking
      [] Simulation = "tank_pump_valve" ->
            {"level", "flow", "level_high_sw", "level_low_sw", "alarms",
             "alarm_ack"} \cap Points
      [] Simulation = "actuator_feedback" ->
            {"flow_rate", "motor_status"} \cap Points
      [] OTHER -> {}
=============================================================================
