------------------------------- MODULE MCLab --------------------------------
(* A device whose writable register takes every fault mode (the loader       *)
(* allows any), next to a random-walk sensor, an actuator coil and uptime:   *)
(* the smallest device on which every fault can replace every other one.     *)
EXTENDS ProcessImage

MCKind ==
    [p \in Points |-> CASE p = "gate" -> "coil"
                        [] p = "speed" -> "holding_register"
                        [] OTHER -> "input_register"]
MCAddress == [p \in Points |-> IF p = "uptime" THEN 1 ELSE 0]
MCCapabilities ==
    [p \in Points |->
        CASE p = "speed" -> FaultModes
          [] p = "sensor" -> {"freeze", "drift", "noise"}
          [] p = "gate" -> {"stuck_actuator", "freeze", "drift"}
          [] p = "uptime" -> {"freeze"}]
MCLow == [p \in {"speed", "sensor"} |-> 0]
MCHigh == [p \in {"speed", "sensor"} |-> IF p = "speed" THEN 4 ELSE 3]
\* The speed starts above its range, which the loader lets through.
MCInitial ==
    [p \in Points |-> CASE p = "sensor" -> 1 [] p = "speed" -> 6 [] OTHER -> 0]
MCWalkMin == [p \in {"sensor"} |-> 1]
MCWalkMax == [p \in {"sensor"} |-> 2]
MCRates == {-1, 2}
=============================================================================
