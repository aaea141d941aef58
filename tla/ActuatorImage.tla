--------------------------- MODULE ActuatorImage ---------------------------
(***************************************************************************)
(* What the process image of a stand-alone actuator ("actuator_feedback",  *)
(* devices/inlet-pump.json) must keep true of its derived feedback.        *)
(***************************************************************************)
EXTENDS ProcessImage

\* A stand-alone actuator, whose flow meter nobody writes.
IsActuator ==
    /\ Simulation = "actuator_feedback"
    /\ {"pump_run", "pump_speed", "flow_rate", "motor_status"} \subseteq Points
    /\ "pump_run" \in Writable
    /\ "flow_rate" \notin Writable \cup Clamped /\ ~ IsBool("flow_rate")

PlantCommandsRest ==
    [][state'["pump_run"] = state["pump_run"]
        /\ state'["pump_speed"] = state["pump_speed"]]_state

FeedbackIsTrue ==
    /\ state["flow_rate"] = PumpFlow(state, FullSpeed)
    /\ state["motor_status"] = IF On(state, "pump_run") THEN Res ELSE 0

\* Once the physical pump and its speed come to rest, flow and motor status
\* settle on what that pump does, whatever clients go on writing to a stuck
\* actuator (README, worked lab example: "flow and tank behavior prove the
\* process never obeyed it").
FeedbackTellsThePlant == <>PlantCommandsRest => <>[]FeedbackIsTrue

\* A flow that is not rounded to nothing on its way to a client.
Shows(flow) == EngineeringToRaw("flow_rate", flow) > 0

StuckRunning ==
    IsStuck("pump_run") /\ On(state, "pump_run") /\ Shows(state["flow_rate"])

\* While the pump is stuck running at a speed whose flow rounds to at least one
\* raw unit, it goes on running and clients of a healthy flow meter read a flow,
\* however often they switch the pump off and read it as off.  (At 1 to 4 % the
\* shipped inlet pump moves less than half a unit and they read 0.)
StuckPumpKeepsFlowing ==
    [][StuckRunning /\ IsStuck("pump_run")' /\ Shows(PumpFlow(state, FullSpeed))
         => /\ StuckRunning'
            /\ "flow_rate" \notin DOMAIN faults'
                 => \A raw \in ReadRaw("flow_rate")' : raw > 0]_vars
=============================================================================
