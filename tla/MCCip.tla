------------------------------- MODULE MCCip -------------------------------
(* A small EtherNet/IP pump: one coil, the flow it causes, and a register that *)
(* is read only and leaves an address free before it.                          *)
EXTENDS Cip

MCKind ==
    [p \in Points |-> CASE p = "pump_run" -> "coil"
                        [] p = "limit" -> "holding_register"
                        [] OTHER -> "input_register"]
MCAddress == [p \in Points |-> IF p = "limit" THEN 1 ELSE 0]
MCStuck ==
    [p \in Points |-> CASE p = "pump_run" -> {"stuck_actuator"}
                        [] p = "limit" -> {}
                        [] OTHER -> {"drift"}]
MCInitial == [p \in Points |-> 0]
MCEmpty == <<>>
MCDown == {-1}
=============================================================================
