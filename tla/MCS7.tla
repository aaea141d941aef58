-------------------------------- MODULE MCS7 --------------------------------
(* A static S7 device with two coils, a setpoint and a sensor.               *)
EXTENDS S7Backend

MCKind ==
    [p \in Points |-> CASE p \in {"pump", "valve"} -> "coil"
                        [] p = "speed" -> "holding_register"
                        [] OTHER -> "input_register"]
MCAddress == [p \in Points |-> IF p = "valve" THEN 1 ELSE 0]
MCStuck ==
    [p \in Points |-> CASE p \in {"pump", "speed"} -> {"stuck_actuator"}
                        [] p = "sensor" -> {"freeze"}
                        [] OTHER -> {}]
MCNone == [p \in Points |-> {}]
MCLow == [p \in {"speed"} |-> 0]
MCHigh == [p \in {"speed"} |-> 4]
MCInitial == [p \in Points |-> CASE p = "pump" -> 1 [] p = "valve" -> 0 [] OTHER -> 2]
MCNoWalk == <<>>
=============================================================================
