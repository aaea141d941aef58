------------------------------- MODULE MCTank -------------------------------
(* A vendor PLC preset with a tank of three raw units and a pump that moves   *)
(* one of them in a tick, three quarters of one, or nothing.                 *)
EXTENDS TankImage

ASSUME IsATank == IsTank

MCKind ==
    [p \in Points |->
        CASE p \in {"pump_run", "valve_open", "alarm_ack"} -> "coil"
          [] p \in {"level_high_sw", "level_low_sw", "e_stop"} -> "discrete_input"
          [] p = "pump_speed" -> "holding_register"
          [] OTHER -> "input_register"]
MCAddress ==
    [p \in Points |->
        CASE p \in {"valve_open", "level_low_sw", "flow"} -> 1
          [] p \in {"alarm_ack", "e_stop", "alarms"} -> 2
          [] OTHER -> 0]
MCCapabilities ==
    [p \in Points |->
        CASE p = "level" -> {"freeze", "noise"}
          [] p = "pump_run" -> {"stuck_actuator"}
          [] OTHER -> {}]
MCLow == [p \in {"level", "pump_speed"} |-> 0]
MCHigh == [p \in {"level", "pump_speed"} |-> IF p = "level" THEN 12 ELSE 16]
MCInitial ==
    [p \in Points |->
        CASE p = "level" -> 4 [] p = "pump_run" -> 1 [] p = "pump_speed" -> 16
          [] OTHER -> 0]
MCRates == {0}
MCNoWalk == <<>>

=============================================================================
