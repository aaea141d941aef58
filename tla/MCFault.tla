------------------------------ MODULE MCFault ------------------------------
(* A gate and a level sensor whose faults come over the command file.       *)
EXTENDS FaultControl

MCKind == [p \in Points |-> IF p = "gate" THEN "coil" ELSE "input_register"]
MCAddress == [p \in Points |-> 0]
\* The loader also accepts a mode that set_fault refuses on that kind of point.
MCLaxCapabilities ==
    [p \in Points |-> IF p = "gate" THEN {"stuck_actuator", "drift"} ELSE {"freeze"}]
\* The file is edited while the process runs: the level may now be noisy.
MCOffered == {MCLaxCapabilities, [MCLaxCapabilities EXCEPT !["level"] = {"freeze", "noise"}]}
MCLow == [p \in {"level"} |-> 0]
MCHigh == [p \in {"level"} |-> 4]
MCInitial == [p \in Points |-> IF p = "gate" THEN 1 ELSE 2]
MCNoWalk == <<>>
=============================================================================
