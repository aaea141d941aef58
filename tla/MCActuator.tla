----------------------------- MODULE MCActuator -----------------------------
(* The inlet pump with its fault capabilities and a pump of three speeds,    *)
(* of which the flow of the middle one rounds to 0.                          *)
EXTENDS ActuatorImage, Modbus

ASSUME IsAnActuator == IsActuator

MCKind ==
    [p \in Points |-> CASE p = "pump_run" -> "coil"
                        [] p = "pump_speed" -> "holding_register"
                        [] OTHER -> "input_register"]
MCAddress == [p \in Points |-> IF p = "motor_status" THEN 1 ELSE 0]
MCCapabilities ==
    [p \in Points |->
        CASE p = "flow_rate" -> {"freeze", "drift", "noise"}
          [] p = "motor_status" -> {"freeze", "noise"}
          [] OTHER -> {"stuck_actuator"}]
MCLow == [p \in {"pump_speed"} |-> 0]
MCHigh == [p \in {"pump_speed"} |-> 4]
MCInitial == [p \in Points |-> IF p = "pump_speed" THEN 4 ELSE 0]
MCNoWalk == <<>>
MCTyped == {-2, 1, 2, 3, 9}
\* Every fault without an HMI; and the HMI with noisy meters and with stuck
\* actuators.
MCSessions ==
    {[modes |-> FaultModes, clock |-> TRUE, hmi |-> FALSE],
     [modes |-> {"noise"}, clock |-> FALSE, hmi |-> TRUE],
     [modes |-> {"stuck_actuator"}, clock |-> FALSE, hmi |-> TRUE]}
=============================================================================
