------------------------------- MODULE MCFins -------------------------------
(* A small FINS tank: its pump and level, with a low-level switch whose level *)
(* is in liters, so that nothing clamps it, or with a flow meter.            *)
EXTENDS Fins

MCKind ==
    [p \in Points |-> CASE p = "pump_run" -> "coil"
                        [] p = "level_low_sw" -> "discrete_input"
                        [] OTHER -> "input_register"]
MCAddress == [p \in Points |-> IF p = "flow" THEN 1 ELSE 0]
MCFaulty ==
    [p \in Points |-> CASE p = "level_low_sw" -> {"freeze"}
                        [] p = "level" -> {"drift", "noise"}
                        [] OTHER -> {}]
MCFlowNoise == [p \in Points |-> IF p = "flow" THEN {"noise"} ELSE {}]
MCLow == [p \in {"level"} |-> 0]
MCHigh == [p \in {"level"} |-> 2]
MCInitial == [p \in Points |-> IF p = "level_low_sw" THEN 1 ELSE 0]
MCNothing == <<>>
MCDown == {-1}
=============================================================================
