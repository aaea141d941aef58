----------------------------- MODULE TankImage -----------------------------
(***************************************************************************)
(* What the process image of a tank device ("tank_pump_valve", the vendor  *)
(* PLC presets) must keep true of the level, its switches and its alarms.  *)
(***************************************************************************)
EXTENDS ProcessImage

\* A tank preset: its level with switches and alarms nobody else drives, an
\* e_stop that is a discrete input, and at the start, as in the shipped devices,
\* a level between the thresholds that trips nothing.
IsTank ==
    /\ Simulation = "tank_pump_valve"
    /\ {"level", "alarms", "level_high_sw", "level_low_sw"} \subseteq Points \ Writable
    /\ "e_stop" \notin Writable
    /\ ~ IsBool("level") /\ ~ IsBool("alarms") /\ "alarms" \notin Clamped
    /\ IsBool("level_high_sw") /\ IsBool("level_low_sw")
    /\ "level" \in Clamped => /\ Low["level"] <= RawMin
                              /\ High["level"] >= RawMax
    /\ ~ LevelIsHigh(Initial["level"]) /\ ~ LevelIsLow(Initial["level"])
    /\ Initial["level_high_sw"] = 0 /\ Initial["level_low_sw"] = 0
    /\ Initial["alarms"] = 0 /\ ~ On(Initial, "e_stop")

\* The level, both float switches and the alarm word always describe the same
\* instant: the tick computes the flags from the level it stores, and nothing
\* else moves any of them.
AlarmsDescribeLevel ==
    /\ (state["level_high_sw"] = 1) <=> LevelIsHigh(state["level"])
    /\ (state["level_low_sw"] = 1) <=> LevelIsLow(state["level"])
    /\ state["alarms"] = AlarmWord(state["level"], On(state, "e_stop")) * Res

\* One tick moves the level by the pump's flow less the drain, within the tank
\* and up to half a raw unit: the fraction that engineering_to_raw rounds away.
LevelFollowsFlows ==
    [][PhysicsStep =>
         LET drain == IF On(state, "valve_open") THEN DrainRate ELSE 0
             exact == Clamp(RawMin, RawMax, state["level"]
                              + PumpFlow(state, DefaultSpeed) - drain)
             error == state'["level"] - exact
         IN  2 * error <= Res /\ -(2 * error) <= Res]_vars

\* alarm_ack is a button (plc_em.py: "write 1 to clear"): the simulation
\* releases it however often a client presses it.
AckIsReleased == (On(state, "alarm_ack")) ~> ~ On(state, "alarm_ack")
=============================================================================
