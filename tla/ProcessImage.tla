---------------------------- MODULE ProcessImage ----------------------------
(***************************************************************************)
(* The process image of one emulator (emulator_core.py, class              *)
(* ProcessImage): the physical state of the points, the shadow values of   *)
(* stuck actuators and the active faults, as protocol clients, the fault   *)
(* control task and the physics task change them.  Every operation runs    *)
(* under the image's lock, so one operation is one step.                   *)
(***************************************************************************)
EXTENDS Physics, Functions, FiniteSets

CONSTANTS
    RawValues,      \* raw values a client may write
    MaxCount,       \* bound: values in one write request
    DriftRates,     \* drift_rate_per_sec * direction, in fractions
    Amplitudes,     \* noise amplitudes, in fractions
    UptimeWrap,     \* 2^16 seconds: uptime_seconds() keeps 16 bits
    TimeBound       \* bound: seconds the clock counts

ASSUME ImageAssumption ==
    /\ RawValues \subseteq Int
    /\ MaxCount \in Nat
    /\ DriftRates \subseteq Int
    /\ Amplitudes \subseteq Nat
    /\ UptimeWrap \in Nat \ {0}
    /\ TimeBound \in Nat

\* uptime is an unscaled, unclamped register no client writes.
ASSUME UptimeAssumption ==
    "uptime" \in Points =>
        ~ IsBool("uptime") /\ "uptime" \notin Clamped \cup Writable

\* No device lets the simulation drive a point that can get stuck.
ASSUME StickingAssumption ==
    \A p \in Simulated : "stuck_actuator" \notin Capabilities[p]

VARIABLES
    state,      \* [Points -> Int]: what the simulation works on
    shadow,     \* shadow_state: the commands stuck actuators acknowledged
    faults,     \* active_faults, at most one for each point
    now         \* time.monotonic(), in seconds since the image was built

vars == <<state, shadow, faults, now>>

HasFault(p, mode) == p \in DOMAIN faults /\ faults[p].mode = mode
IsStuck(p) == HasFault(p, "stuck_actuator")

With(f, p, v) == [q \in DOMAIN f \cup {p} |-> IF q = p THEN v ELSE f[q]]
Without(f, p) == Restrict(f, DOMAIN f \ {p})

-----------------------------------------------------------------------------
\* What clients read: the base value of a point, as its fault distorts it.
\* Noise is read with a random offset, so a read has a set of outcomes.

Uptime == now % UptimeWrap

BaseWith(shadows, p) ==
    IF p = "uptime" THEN Uptime * Res
    ELSE IF p \in DOMAIN shadows THEN shadows[p]
    ELSE state[p]

FrozenReportThaws(p, base, f) == base       \* Mutant: the value is not used
FrozenReport(p, base, f) == f.frozen

DriftedUnclamped(p, base, f) == base + f.rate * (now - f.since) \* Mutant: no clamp
Drifted(p, base, f) == Normalize(p, base + f.rate * (now - f.since))

Noisy(p, base, f) ==
    {Normalize(p, base + d) : d \in (-f.amplitude) .. f.amplitude}

Exposed(p) ==
    LET base == BaseWith(shadow, p)
        f == faults[p]
    IN  IF p \notin DOMAIN faults THEN {base}
        ELSE [freeze |-> {FrozenReport(p, base, f)},
              drift |-> {Drifted(p, base, f)},
              noise |-> Noisy(p, base, f),
              stuck_actuator |-> {base}][f.mode]

ReadRaw(p) == {EngineeringToRaw(p, v) : v \in Exposed(p)}

-----------------------------------------------------------------------------
Accepted(p, raw) == Normalize(p, RawToEngineering(p, raw))

\* The writes stuck actuators hold back.
HeldBackNone(raw) == {}                     \* Mutant: the fault is not looked up
HeldBack(raw) == {p \in DOMAIN raw : p \in Writable /\ IsStuck(p)}

\* write_raw_point for every point of DOMAIN raw: a stuck actuator only
\* remembers the command, any other point takes it and drops its shadow.
WriteRawPoints(raw) ==
    LET held == HeldBack(raw)
        taken == DOMAIN raw \ held
    IN  /\ state' = [p \in Points |-> IF p \in taken
                                      THEN Accepted(p, raw[p]) ELSE state[p]]
        /\ shadow' = [p \in (DOMAIN shadow \cup held) \ taken |->
                        IF p \in held THEN Accepted(p, raw[p]) ELSE shadow[p]]

\* apply_modbus_write: values[i] goes to address + i - 1; an address without
\* a point and a read-only point are skipped.  Function codes 5 and 15 write
\* coils, 6 and 16 holding registers; the others have no effect.
ApplyModbusWrite(kind, address, values) ==
    LET index(p) == Address[p] - address + 1
        written == {p \in Writable : /\ Kind[p] = kind
                                     /\ index(p) \in DOMAIN values}
    IN  /\ WriteRawPoints([p \in written |-> values[index(p)]])
        /\ UNCHANGED <<faults, now>>

ModbusWrite ==
    \E kind \in {"coil", "holding_register"} :
        \E address \in {Address[p] : p \in Points}, n \in 1 .. MaxCount :
            \E values \in [1 .. n -> RawValues] :
                ApplyModbusWrite(kind, address, values)

\* The checks of set_fault; a request that fails one raises ValueError and
\* changes nothing here.
CanFault(p, mode) ==
    /\ p \in Points
    /\ mode \in Capabilities[p]
    /\ mode \in {"drift", "noise"} => ~ IsBool(p)
    /\ mode = "stuck_actuator" => p \in Writable

\* Removing a fault removes the shadow a stuck actuator left.
ShadowKept(p) == shadow                     \* Mutant: the shadow stays behind
ShadowWithoutFault(p) ==
    IF IsStuck(p) THEN Without(shadow, p) ELSE shadow

\* An ActiveFault; a field the mode does not use is 0.
NewFault(p, mode, rate, amplitude, base) ==
    [mode |-> mode,
     rate |-> IF mode = "drift" THEN rate ELSE 0,
     amplitude |-> IF mode = "noise" THEN amplitude ELSE 0,
     since |-> IF mode = "drift" THEN now ELSE 0,
     frozen |-> IF mode = "freeze" THEN Normalize(p, base) ELSE 0]

\* set_fault: the previous fault goes first, with the shadow of a stuck
\* actuator, so what freeze captures is the point without it.
SetFault(p, mode, rate, amplitude) ==
    /\ CanFault(p, mode)
    /\ shadow' = ShadowWithoutFault(p)
    /\ faults' = With(faults, p, NewFault(p, mode, rate, amplitude,
                                          BaseWith(shadow', p)))
    /\ UNCHANGED <<state, now>>

ClearFault(p) ==
    /\ faults' = Without(faults, p)
    /\ shadow' = ShadowWithoutFault(p)
    /\ UNCHANGED <<state, now>>

\* apply_physics_tick: the simulation reads and writes state only.
PhysicsStep ==
    /\ state' \in PhysicsTick(state)
    /\ UNCHANGED <<shadow, faults, now>>

\* A second passes.
Advance ==
    /\ now < TimeBound
    /\ now' = now + 1
    /\ UNCHANGED <<state, shadow, faults>>

-----------------------------------------------------------------------------
Init ==
    /\ state = Initial
    /\ shadow = <<>>
    /\ faults = <<>>
    /\ now = 0

Next ==
    \/ ModbusWrite
    \/ \E p \in Points, mode \in FaultModes, rate \in DriftRates,
          amplitude \in Amplitudes : SetFault(p, mode, rate, amplitude)
    \/ \E p \in Points : ClearFault(p)
    \/ PhysicsStep
    \/ Advance

Spec == Init /\ [][Next]_vars

\* run_physics ticks for as long as the emulator runs.
FairSpec == Spec /\ WF_vars(PhysicsStep)

-----------------------------------------------------------------------------
\* Every variable has its type, and every value a point has taken since the
\* start lies in its range.
TypeOK ==
    /\ state \in [Points -> Int]
    /\ \A p \in Points : state[p] \in Held(p)
    /\ DOMAIN shadow \subseteq Points
    /\ \A p \in DOMAIN shadow : shadow[p] \in Value(p)
    /\ DOMAIN faults \subseteq Points
    /\ \A p \in DOMAIN faults :
          /\ faults[p] \in [mode : FaultModes, rate : Int, amplitude : Nat,
                            since : Nat, frozen : Int]
          /\ faults[p].frozen \in Value(p) \/ faults[p].mode # "freeze"
    /\ now \in Nat

\* A shadow value exists only for a writable point whose actuator is stuck:
\* no order of write_raw_point, set_fault and clear_fault leaves one behind.
ShadowOnlyWhileStuck == \A p \in DOMAIN shadow : p \in Writable /\ IsStuck(p)

\* Once a fault is cleared the point reports the real process state again
\* (README, fault injection: "observe the reported level jump back"), whatever
\* faults replaced each other on it before.
HealthyPointTellsThePlant ==
    \A p \in Points \ {"uptime"} :
        p \notin DOMAIN faults => Exposed(p) = {state[p]}

\* No fault makes a clamped point report a value outside its range, however
\* long it drifts and whatever the noise (_apply_fault_to_value_unlocked), and
\* without a fault only the value it started with can lie outside.
Distorting == {"freeze", "drift", "noise"}

ReportsStayInRange ==
    \A p \in Points :
        Exposed(p) \subseteq IF p \in DOMAIN faults /\ faults[p].mode \in Distorting
                             THEN Value(p) ELSE Held(p)

\* A healthy point that freezes within its range goes on reporting what it
\* reported, and this does not move while that fault stands: neither with the
\* process, nor with time, nor with a client's writes.
FrozenReportHolds ==
    [][\A p \in Points :
          /\ HasFault(p, "freeze")'
          /\ Exposed(p) \subseteq Value(p)
          /\ (p \in DOMAIN faults => faults'[p] = faults[p])
          => Exposed(p)' = Exposed(p)]_vars

\* The image implements the device contract: faults move neither the plant
\* nor what a healthy point shows, a stuck actuator acknowledges commands
\* (it shows them) and the plant does not follow them.
StuckActuators == {p \in DOMAIN faults : faults[p].mode = "stuck_actuator"}

Contract == INSTANCE DeviceContract WITH
    plant <- state,
    stuck <- StuckActuators,
    commanded <- [p \in Points |-> IF p \in DOMAIN shadow THEN shadow[p]
                                   ELSE state[p]],
    Accepted <- Accepted,
    Evolve <- PhysicsTick

ImplementsContract == Contract!ContractSpec
=============================================================================
