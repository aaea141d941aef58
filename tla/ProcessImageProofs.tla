------------------------- MODULE ProcessImageProofs -------------------------
(***************************************************************************)
(* Theorems about the process image, for every device definition, every    *)
(* set of raw values, drift rates and amplitudes, and every bound.         *)
(***************************************************************************)
EXTENDS TankImage, ActuatorImage, TLAPS

-----------------------------------------------------------------------------
\* Every conversion yields a value its point can hold.

LEMMA ValueIsInt == ASSUME NEW p \in Points PROVE Value(p) \subseteq Int
  BY DEF Value

LEMMA ValuesAreHeld ==
    ASSUME NEW p \in Points
    PROVE  Value(p) \subseteq Held(p) /\ Held(p) \subseteq Int
  BY ValueIsInt, DeviceAssumption DEF Held

LEMMA NormalizeInRange ==
    ASSUME NEW p \in Points, NEW v \in Int
    PROVE  Normalize(p, v) \in Value(p) /\ Normalize(p, v) \in Int
  BY DeviceAssumption DEF Normalize, Value, Truth, Clamp

LEMMA NormalizeFixed ==
    ASSUME NEW p \in Points, NEW v \in Value(p)
    PROVE  Normalize(p, v) = v
  BY DeviceAssumption DEF Normalize, Value, Truth, Clamp

LEMMA RawToEngineeringInt ==
    ASSUME NEW p \in Points, NEW raw \in Int
    PROVE  RawToEngineering(p, raw) \in Int
  BY DeviceAssumption DEF RawToEngineering, Truth

LEMMA EngineeringToRawInt ==
    ASSUME NEW p \in Points, NEW v \in Int
    PROVE  EngineeringToRaw(p, v) \in Int
  BY DeviceAssumption DEF EngineeringToRaw, RoundHalfEven, Truth

LEMMA DivFacts ==
    ASSUME NEW v \in Int
    PROVE  /\ v \div Res \in Int /\ v % Res \in Int
           /\ v = Res * (v \div Res) + (v % Res)
           /\ 0 <= v % Res /\ v % Res < Res
  BY DeviceAssumption

\* round() moves a value by at most half a raw unit ...
LEMMA RoundIsNear ==
    ASSUME NEW v \in Int
    PROVE  /\ RoundHalfEven(v) \in Int
           /\ Res * (2 * RoundHalfEven(v)) - Res <= 2 * v
           /\ 2 * v <= Res * (2 * RoundHalfEven(v)) + Res
<1> DEFINE q == v \div Res
           r == v % Res
<1>1. q \in Int /\ r \in Int /\ v = Res * q + r /\ 0 <= r /\ r < Res
  BY DivFacts
<1>2. CASE RoundHalfEven(v) = q /\ 2 * r <= Res
  <2>1. Res * (2 * q) = 2 * (Res * q)
    BY <1>1, DeviceAssumption
  <2> QED
    BY <1>1, <1>2, <2>1, DeviceAssumption
<1>3. CASE RoundHalfEven(v) = q + 1 /\ 2 * r >= Res
  <2>1. Res * (2 * (q + 1)) = 2 * (Res * q) + 2 * Res
    BY <1>1, DeviceAssumption
  <2> QED
    BY <1>1, <1>3, <2>1, DeviceAssumption
<1>4. \/ RoundHalfEven(v) = q /\ 2 * r <= Res
      \/ RoundHalfEven(v) = q + 1 /\ 2 * r >= Res
  BY <1>1, DeviceAssumption DEF RoundHalfEven
<1> QED
  BY <1>2, <1>3, <1>4

\* ... keeps whole raw units ...
LEMMA RoundKeepsUnits ==
    ASSUME NEW k \in Int
    PROVE  k * Res \in Int /\ RoundHalfEven(k * Res) = k
<1> DEFINE q == (k * Res) \div Res
           r == (k * Res) % Res
<1>1. k * Res \in Int
  BY DeviceAssumption
<1>2. q \in Int /\ r \in Int /\ k * Res = Res * q + r /\ 0 <= r /\ r < Res
  BY <1>1, DivFacts
<1> HIDE DEF q, r
<1>3. Res * (k - q) = r
  BY <1>2, DeviceAssumption
<1>4. ~ (k - q >= 1)
  <2> SUFFICES ASSUME k - q >= 1 PROVE FALSE
    OBVIOUS
  <2>1. Res * (k - q) >= Res
    BY <1>2, DeviceAssumption
  <2> QED
    BY <1>2, <1>3, <2>1, DeviceAssumption
<1>5. ~ (k - q <= -1)
  <2> SUFFICES ASSUME k - q <= -1 PROVE FALSE
    OBVIOUS
  <2>1. Res * (k - q) <= -Res
    BY <1>2, DeviceAssumption
  <2> QED
    BY <1>2, <1>3, <2>1, DeviceAssumption
<1>6. q = k /\ r = 0
  BY <1>2, <1>3, <1>4, <1>5, DeviceAssumption
<1> QED
  BY <1>1, <1>6, DeviceAssumption DEF RoundHalfEven, q, r

\* ... and keeps the order.
LEMMA RoundKeepsOrder ==
    ASSUME NEW v \in Int, NEW w \in Int, v <= w
    PROVE  RoundHalfEven(v) <= RoundHalfEven(w)
<1> DEFINE r == RoundHalfEven(v)
           s == RoundHalfEven(w)
<1>1. r \in Int /\ Res * (2 * r) - Res <= 2 * v
  BY RoundIsNear
<1>2. s \in Int /\ 2 * w <= Res * (2 * s) + Res
  BY RoundIsNear
<1>3. v = w => r = s
  OBVIOUS
<1> HIDE DEF r, s
<1> SUFFICES ASSUME r >= s + 1 PROVE FALSE
  BY <1>1, <1>2 DEF r, s
<1>4. Res * (2 * r) >= Res * (2 * s) + 2 * Res
  BY <1>1, <1>2, DeviceAssumption
<1>5. v = w
  <2>1. Res * (2 * r) \in Int /\ Res * (2 * s) \in Int
    BY <1>1, <1>2, DeviceAssumption
  <2> QED
    BY <1>1, <1>2, <1>4, <2>1, DeviceAssumption
<1> QED
  BY <1>1, <1>2, <1>3, <1>5

\* What state holds, as a predicate of any state of the points.
PointState(st) == st \in [Points -> Int] /\ \A p \in Points : st[p] \in Held(p)

LEMMA PumpFlowInt ==
    ASSUME NEW st, PointState(st), NEW default \in Int
    PROVE  PumpFlow(st, default) \in Int
<1>1. PointValue(st, "pump_speed", default) \in Int
  BY DEF PointState, PointValue
<1>2. Clamp(0, FullSpeed, PointValue(st, "pump_speed", default)) \in Int
  BY <1>1, PhysicsAssumption DEF Clamp
<1>3. Clamp(0, FullSpeed, PointValue(st, "pump_speed", default)) * FillRate \in Int
  BY <1>2, PhysicsAssumption
<1> QED
  BY <1>3, PhysicsAssumption DEF PumpFlow

LEMMA NextLevelInt ==
    ASSUME NEW st, PointState(st), "level" \in Points
    PROVE  NextLevel(st) \in Int
<1>1. EngineeringToRaw("level", st["level"]) * Res \in Int
  BY EngineeringToRawInt, DeviceAssumption DEF PointState
<1>2. PumpFlow(st, DefaultSpeed) \in Int
  BY PumpFlowInt, PhysicsAssumption
<1> QED
  BY <1>1, <1>2, PhysicsAssumption DEF NextLevel, Clamp

LEMMA SetPointValuesInRange ==
    ASSUME NEW st, PointState(st), NEW new, \A p \in DOMAIN new : new[p] \in Int
    PROVE  PointState(SetPointValues(st, new))
  BY NormalizeInRange, ValuesAreHeld DEF SetPointValues, PointState

\* A tick of any simulation keeps every point in its range.
LEMMA PhysicsKeepsRange ==
    ASSUME NEW st, PointState(st), NEW next \in PhysicsTick(st)
    PROVE  PointState(next)
<1>1. CASE Simulation = "random_walk"
  <2>1. PICK step \in [Walking -> (-WalkStep) .. WalkStep] :
          next = SetPointValues(st, [p \in Walking |->
                    Clamp(WalkMin[p], WalkMax[p], st[p] + step[p])])
    BY <1>1 DEF PhysicsTick, RandomWalkTicks
  <2>2. ASSUME NEW p \in Walking
        PROVE  Clamp(WalkMin[p], WalkMax[p], st[p] + step[p]) \in Int
    BY PhysicsAssumption DEF Walking, Clamp, PointState
  <2> QED
    BY <2>1, <2>2, SetPointValuesInRange
<1>2. CASE Simulation = "tank_pump_valve" /\ "level" \in Points
  <2>1. NextLevel(st) \in Int /\ FlagLevel(st) \in Int
    BY <1>2, NextLevelInt DEF FlagLevel
  <2>2. PumpFlow(st, DefaultSpeed) \in Int
    BY PumpFlowInt, PhysicsAssumption
  <2>3. AlarmWord(FlagLevel(st), On(st, "e_stop")) * Res \in Int
    BY DeviceAssumption DEF AlarmWord
  <2>4. PointState(TankTick(st))
    BY <2>1, <2>2, <2>3, SetPointValuesInRange DEF TankTick, AckAfter
  <2> QED
    BY <1>2, <2>4 DEF PhysicsTick
<1>3. CASE Simulation = "actuator_feedback"
  <2>1. FeedbackFlow(st) \in Int
    BY PumpFlowInt, PhysicsAssumption DEF FeedbackFlow
  <2>2. PointState(ActuatorTick(st))
    BY <2>1, SetPointValuesInRange, DeviceAssumption DEF ActuatorTick
  <2> QED
    BY <1>3, <2>2 DEF PhysicsTick
<1>4. CASE /\ Simulation \notin {"random_walk", "actuator_feedback"}
           /\ ~ (Simulation = "tank_pump_valve" /\ "level" \in Points)
  BY <1>4 DEF PhysicsTick
<1> QED
  BY <1>1, <1>2, <1>3, <1>4

-----------------------------------------------------------------------------
\* The inductive invariant: types and ranges, and no shadow without a stuck
\* actuator.  TypeOK is inductive without the second conjunct; the second
\* needs the first to know that a dictionary's keys are points.

IInv == TypeOK /\ ShadowOnlyWhileStuck

LEMMA InitIInv == Init => IInv
  BY DeviceAssumption, ImageAssumption
  DEF Init, IInv, TypeOK, ShadowOnlyWhileStuck, Held

\* write_raw_point, for any set of points and raw values.
LEMMA WriteKeepsIInv ==
    ASSUME IInv, NEW raw, DOMAIN raw \subseteq Points,
           \A p \in DOMAIN raw : raw[p] \in Int,
           WriteRawPoints(raw), UNCHANGED <<faults, now>>
    PROVE  IInv'
<1>1. \A p \in DOMAIN raw : Accepted(p, raw[p]) \in Value(p) \cap Int
  BY NormalizeInRange, RawToEngineeringInt DEF Accepted
<1>2. HeldBack(raw) \subseteq DOMAIN raw
  BY DEF HeldBack
<1>3. state' \in [Points -> Int] /\ \A p \in Points : state'[p] \in Held(p)
  <2>1. state' = [p \in Points |->
                    IF p \in DOMAIN raw \ HeldBack(raw) THEN Accepted(p, raw[p])
                    ELSE state[p]]
    BY DEF WriteRawPoints
  <2> QED
    BY <1>1, <2>1, ValuesAreHeld DEF IInv, TypeOK
<1>4. /\ DOMAIN shadow' \subseteq Points
      /\ \A p \in DOMAIN shadow' : shadow'[p] \in Value(p)
      /\ DOMAIN shadow' \subseteq DOMAIN shadow \cup HeldBack(raw)
  <2>1. shadow' = [p \in (DOMAIN shadow \cup HeldBack(raw))
                            \ (DOMAIN raw \ HeldBack(raw)) |->
                    IF p \in HeldBack(raw) THEN Accepted(p, raw[p]) ELSE shadow[p]]
    BY DEF WriteRawPoints
  <2> QED
    BY <1>1, <1>2, <2>1 DEF IInv, TypeOK
<1>5. TypeOK'
  BY <1>3, <1>4 DEF IInv, TypeOK
<1>6. ShadowOnlyWhileStuck'
  BY <1>4 DEF IInv, ShadowOnlyWhileStuck, HeldBack, IsStuck, HasFault
<1> QED
  BY <1>5, <1>6 DEF IInv

LEMMA ModbusWriteKeepsIInv ==
    ASSUME IInv, ModbusWrite
    PROVE  IInv'
<1>1. PICK kind \in {"coil", "holding_register"},
           address \in {Address[p] : p \in Points}, n \in 1 .. MaxCount :
         \E values \in [1 .. n -> RawValues] :
            ApplyModbusWrite(kind, address, values)
  BY DEF ModbusWrite
<1>2. PICK values \in [1 .. n -> RawValues] :
         ApplyModbusWrite(kind, address, values)
  BY <1>1
<1> DEFINE index(p) == Address[p] - address + 1
           written == {p \in Writable : /\ Kind[p] = kind
                                        /\ index(p) \in DOMAIN values}
           raw == [p \in written |-> values[index(p)]]
<1>3. WriteRawPoints(raw) /\ UNCHANGED <<faults, now>>
  BY <1>2 DEF ApplyModbusWrite
<1>4. DOMAIN raw \subseteq Points /\ \A p \in DOMAIN raw : raw[p] \in Int
  BY DeviceAssumption, ImageAssumption
<1> HIDE DEF raw
<1> QED
  BY <1>3, <1>4, WriteKeepsIInv

\* Removing a fault's shadow leaves the shadows of the other points.
LEMMA ShadowWithoutFaultFacts ==
    ASSUME IInv, NEW p \in Points
    PROVE  /\ DOMAIN ShadowWithoutFault(p) = DOMAIN shadow \ {p}
           /\ \A q \in DOMAIN shadow \ {p} :
                 ShadowWithoutFault(p)[q] = shadow[q]
  BY DEF IInv, ShadowOnlyWhileStuck, ShadowWithoutFault, Without, Restrict

LEMMA NewFaultType ==
    ASSUME IInv, NEW p \in Points, NEW mode \in FaultModes, NEW rate \in Int,
           NEW amplitude \in Nat, NEW base \in Int
    PROVE  /\ NewFault(p, mode, rate, amplitude, base)
                 \in [mode : FaultModes, rate : Int, amplitude : Nat,
                      since : Nat, frozen : Int]
           /\ \/ NewFault(p, mode, rate, amplitude, base).frozen \in Value(p)
              \/ NewFault(p, mode, rate, amplitude, base).mode # "freeze"
<1>1. Normalize(p, base) \in Value(p) /\ Normalize(p, base) \in Int
  BY NormalizeInRange
<1> QED
  BY <1>1 DEF NewFault, FaultModes, IInv, TypeOK

LEMMA BaseInt ==
    ASSUME IInv, NEW shadows, DOMAIN shadows \subseteq DOMAIN shadow,
           \A q \in DOMAIN shadows : shadows[q] = shadow[q], NEW p \in Points
    PROVE  BaseWith(shadows, p) \in Int /\ BaseWith(shadows, p) \in Held(p)
<1>1. Uptime \in Int
  BY ImageAssumption DEF Uptime, IInv, TypeOK
<1>2. Uptime * Res \in Int
  BY <1>1, DeviceAssumption
<1>3. "uptime" \in Points => Value("uptime") = Int
  BY UptimeAssumption DEF Value
<1> QED
  BY <1>2, <1>3, ValuesAreHeld DEF BaseWith, IInv, TypeOK

LEMMA SetFaultKeepsIInv ==
    ASSUME IInv, NEW p \in Points, NEW mode \in FaultModes,
           NEW rate \in DriftRates, NEW amplitude \in Amplitudes,
           SetFault(p, mode, rate, amplitude)
    PROVE  IInv'
<1> DEFINE f == NewFault(p, mode, rate, amplitude, BaseWith(shadow', p))
<1>1. /\ shadow' = ShadowWithoutFault(p)
      /\ faults' = With(faults, p, f)
      /\ UNCHANGED <<state, now>>
  BY DEF SetFault
<1>2. /\ DOMAIN shadow' = DOMAIN shadow \ {p}
      /\ \A q \in DOMAIN shadow' : shadow'[q] = shadow[q]
  BY <1>1, ShadowWithoutFaultFacts
<1>3. BaseWith(shadow', p) \in Int
  BY <1>2, BaseInt
<1>4. /\ f \in [mode : FaultModes, rate : Int, amplitude : Nat,
                since : Nat, frozen : Int]
      /\ f.frozen \in Value(p) \/ f.mode # "freeze"
  <2>1. rate \in Int /\ amplitude \in Nat
    BY ImageAssumption
  <2> QED
    BY <1>3, <2>1, NewFaultType
<1> HIDE DEF f
<1>5. /\ DOMAIN faults' = DOMAIN faults \cup {p}
      /\ faults'[p] = f
      /\ \A q \in DOMAIN faults \ {p} : faults'[q] = faults[q]
  BY <1>1 DEF With
<1>6. TypeOK'
  BY <1>1, <1>2, <1>4, <1>5 DEF IInv, TypeOK
<1>7. ShadowOnlyWhileStuck'
  BY <1>2, <1>5 DEF IInv, ShadowOnlyWhileStuck, IsStuck, HasFault
<1> QED
  BY <1>6, <1>7 DEF IInv

LEMMA ClearFaultKeepsIInv ==
    ASSUME IInv, NEW p \in Points, ClearFault(p)
    PROVE  IInv'
<1>1. /\ DOMAIN shadow' = DOMAIN shadow \ {p}
      /\ \A q \in DOMAIN shadow' : shadow'[q] = shadow[q]
  BY ShadowWithoutFaultFacts DEF ClearFault
<1>2. /\ DOMAIN faults' = DOMAIN faults \ {p}
      /\ \A q \in DOMAIN faults' : faults'[q] = faults[q]
  BY DEF ClearFault, Without, Restrict
<1>3. TypeOK'
  BY <1>1, <1>2 DEF ClearFault, IInv, TypeOK
<1>4. ShadowOnlyWhileStuck'
  BY <1>1, <1>2 DEF IInv, ShadowOnlyWhileStuck, IsStuck, HasFault
<1> QED
  BY <1>3, <1>4 DEF IInv

LEMMA NextKeepsIInv == IInv /\ [Next]_vars => IInv'
<1> SUFFICES ASSUME IInv, [Next]_vars PROVE IInv'
  OBVIOUS
<1>1. CASE ModbusWrite
  BY <1>1, ModbusWriteKeepsIInv
<1>2. ASSUME NEW p \in Points, NEW mode \in FaultModes, NEW rate \in DriftRates,
             NEW amplitude \in Amplitudes, SetFault(p, mode, rate, amplitude)
      PROVE  IInv'
  BY <1>2, SetFaultKeepsIInv
<1>3. ASSUME NEW p \in Points, ClearFault(p)
      PROVE  IInv'
  BY <1>3, ClearFaultKeepsIInv
<1>4. CASE PhysicsStep
  <2>1. PointState(state')
    BY <1>4, PhysicsKeepsRange DEF PhysicsStep, PointState, IInv, TypeOK
  <2> QED
    BY <1>4, <2>1 DEF PhysicsStep, PointState, IInv, TypeOK,
                      ShadowOnlyWhileStuck, IsStuck, HasFault
<1>5. CASE Advance
  BY <1>5 DEF Advance, IInv, TypeOK, ShadowOnlyWhileStuck, IsStuck, HasFault
<1>6. CASE UNCHANGED vars
  BY <1>6 DEF vars, IInv, TypeOK, ShadowOnlyWhileStuck, IsStuck, HasFault
<1> QED
  BY <1>1, <1>2, <1>3, <1>4, <1>5, <1>6 DEF Next

\* Every variable keeps its type, and every point its range once it has left the
\* value it started with, in every reachable state of every device (ProcessImage),
\* also of one whose initial values lie outside their ranges.
THEOREM TypeCorrect == Spec => []TypeOK
<1>1. IInv => TypeOK
  BY DEF IInv
<1> QED
  BY <1>1, InitIInv, NextKeepsIInv, PTL DEF Spec

\* set_fault, clear_fault and write_raw_point, in any order, leave a shadow
\* value only on a writable point whose actuator is stuck.
THEOREM NoShadowOutlivesItsFault == Spec => []ShadowOnlyWhileStuck
<1>1. IInv => ShadowOnlyWhileStuck
  BY DEF IInv
<1> QED
  BY <1>1, InitIInv, NextKeepsIInv, PTL DEF Spec

\* A point without a fault reports its physical state.
THEOREM ClearedPointsTellTheTruth == Spec => []HealthyPointTellsThePlant
<1>1. IInv => HealthyPointTellsThePlant
  BY DEF IInv, ShadowOnlyWhileStuck, HealthyPointTellsThePlant, Exposed,
         BaseWith, IsStuck, HasFault
<1> QED
  BY <1>1, InitIInv, NextKeepsIInv, PTL DEF Spec

LEMMA ExposedInRange ==
    ASSUME IInv, NEW p \in Points
    PROVE  /\ Exposed(p) \subseteq Held(p)
           /\ p \in DOMAIN faults /\ faults[p].mode \in Distorting
                => Exposed(p) \subseteq Value(p)
<1> DEFINE base == BaseWith(shadow, p)
           f == faults[p]
<1>1. base \in Int /\ base \in Held(p)
  BY BaseInt
<1>2. CASE p \notin DOMAIN faults
  BY <1>1, <1>2 DEF Exposed
<1>3. CASE p \in DOMAIN faults
  <2>1. /\ f \in [mode : FaultModes, rate : Int, amplitude : Nat,
                  since : Nat, frozen : Int]
        /\ f.frozen \in Value(p) \/ f.mode # "freeze"
    BY <1>3 DEF IInv, TypeOK
  <2>2. f.mode \in {"freeze", "drift", "noise", "stuck_actuator"}
    BY <2>1 DEF FaultModes
  <2>3. CASE f.mode = "drift"
    <3>1. f.rate * (now - f.since) \in Int
      BY <2>1 DEF IInv, TypeOK
    <3>2. Drifted(p, base, f) \in Value(p)
      BY <1>1, <3>1, NormalizeInRange DEF Drifted
    <3>3. Exposed(p) = {Drifted(p, base, f)}
      BY <1>3, <2>3 DEF Exposed
    <3> QED
      BY <3>2, <3>3, ValuesAreHeld
  <2>4. CASE f.mode = "noise"
    <3>1. \A d \in (-f.amplitude) .. f.amplitude : base + d \in Int
      BY <1>1
    <3>2. Noisy(p, base, f) \subseteq Value(p)
      BY <3>1, NormalizeInRange DEF Noisy
    <3>3. Exposed(p) = Noisy(p, base, f)
      BY <1>3, <2>4 DEF Exposed
    <3> QED
      BY <3>2, <3>3, ValuesAreHeld
  <2>5. CASE f.mode = "freeze"
    <3>1. Exposed(p) = {f.frozen}
      BY <1>3, <2>5 DEF Exposed, FrozenReport
    <3> QED
      BY <2>1, <2>5, <3>1, ValuesAreHeld
  <2>6. CASE f.mode = "stuck_actuator"
    <3>1. Exposed(p) = {base}
      BY <1>3, <2>6 DEF Exposed
    <3> QED
      BY <1>1, <2>6, <3>1 DEF Distorting
  <2> QED
    BY <2>2, <2>3, <2>4, <2>5, <2>6
<1> QED
  BY <1>2, <1>3

LEMMA ReadRawFits ==
    ASSUME IInv, NEW p \in Points
    PROVE  ReadRaw(p) \subseteq Int /\ (IsBool(p) => ReadRaw(p) \subseteq {0, 1})
<1>1. Exposed(p) \subseteq Int
  BY ExposedInRange, ValuesAreHeld
<1> QED
  BY <1>1, EngineeringToRawInt DEF ReadRaw, EngineeringToRaw, Truth

\* Only the faults the device definition lists for a point are ever active.
FaultsAllowed == \A p \in DOMAIN faults : faults[p].mode \in Capabilities[p]

LEMMA NextKeepsFaultsAllowed ==
    ASSUME FaultsAllowed, [Next]_vars
    PROVE  FaultsAllowed'
<1>1. ASSUME NEW p \in Points, NEW mode \in FaultModes, NEW rate \in DriftRates,
             NEW amplitude \in Amplitudes, SetFault(p, mode, rate, amplitude)
      PROVE  FaultsAllowed'
  BY <1>1 DEF SetFault, CanFault, With, NewFault, FaultsAllowed
<1>2. ASSUME NEW p \in Points, ClearFault(p)
      PROVE  FaultsAllowed'
  BY <1>2 DEF ClearFault, Without, Restrict, FaultsAllowed
<1>3. CASE ModbusWrite \/ PhysicsStep \/ Advance \/ UNCHANGED vars
  BY <1>3 DEF ModbusWrite, ApplyModbusWrite, PhysicsStep, Advance, vars, FaultsAllowed
<1> QED
  BY <1>1, <1>2, <1>3 DEF Next

\* Whatever faults are active, what clients read of a distorted point lies in its
\* range, and of any other point too, unless it is the value the point started
\* with.
THEOREM ReportsAreInRange == Spec => []ReportsStayInRange
<1>1. IInv => ReportsStayInRange
  BY ExposedInRange DEF ReportsStayInRange
<1> QED
  BY <1>1, InitIInv, NextKeepsIInv, PTL DEF Spec

LEMMA FrozenIsExposed ==
    ASSUME NEW p \in Points, HasFault(p, "freeze")
    PROVE  Exposed(p) = {faults[p].frozen}
  BY DEF HasFault, Exposed, FrozenReport

\* Of the steps that give a healthy point a fault, only set_fault freezes it,
\* with the value it shows, if that lies in its range.
LEMMA FreezeTakesWhatIsShown ==
    ASSUME IInv, NEW p \in Points, p \notin DOMAIN faults,
           HasFault(p, "freeze")', Exposed(p) \subseteq Value(p), [Next]_vars
    PROVE  Exposed(p) = {faults'[p].frozen}
<1>1. PICK q \in Points, mode \in FaultModes, rate \in DriftRates,
           amplitude \in Amplitudes : SetFault(q, mode, rate, amplitude)
  <2>1. p \in DOMAIN faults'
    BY DEF HasFault
  <2>2. ASSUME NEW q \in Points, ClearFault(q) PROVE DOMAIN faults' \subseteq DOMAIN faults
    BY <2>2 DEF ClearFault, Without, Restrict
  <2>3. ~ (UNCHANGED faults)
    BY <2>1
  <2> QED
    BY <2>1, <2>2, <2>3
    DEF Next, ModbusWrite, ApplyModbusWrite, PhysicsStep, Advance, vars
<1>2. q = p /\ mode = "freeze"
  BY <1>1 DEF SetFault, With, NewFault, HasFault
<1>3. shadow' = shadow
  BY <1>1, <1>2 DEF SetFault, ShadowWithoutFault, IsStuck, HasFault
<1>4. faults'[p].frozen = Normalize(p, BaseWith(shadow', p))
  BY <1>1, <1>2 DEF SetFault, With, NewFault
<1>5. BaseWith(shadow, p) \in Value(p)
  BY DEF Exposed
<1> QED
  BY <1>3, <1>4, <1>5, NormalizeFixed DEF Exposed

\* A healthy point that freezes in its range goes on reporting what it reported, for as long
\* as that fault stands.
THEOREM FrozenPointsHold == Spec => FrozenReportHolds
<1>1. ASSUME IInv, [Next]_vars
      PROVE  \A p \in Points :
                /\ HasFault(p, "freeze")'
                /\ Exposed(p) \subseteq Value(p)
                /\ (p \in DOMAIN faults => faults'[p] = faults[p])
                => Exposed(p)' = Exposed(p)
  <2> SUFFICES ASSUME NEW p \in Points, HasFault(p, "freeze")',
                      Exposed(p) \subseteq Value(p),
                      p \in DOMAIN faults => faults'[p] = faults[p]
               PROVE  Exposed(p)' = Exposed(p)
    OBVIOUS
  <2>1. Exposed(p)' = {faults'[p].frozen}
    BY DEF HasFault, Exposed, FrozenReport
  <2>2. CASE p \notin DOMAIN faults
    BY <1>1, <2>1, <2>2, FreezeTakesWhatIsShown
  <2>3. CASE p \in DOMAIN faults
    <3>1. HasFault(p, "freeze")
      BY <2>3 DEF HasFault
    <3> QED
      BY <2>1, <2>3, <3>1, FrozenIsExposed
  <2> QED
    BY <2>2, <2>3
<1> QED
  BY <1>1, InitIInv, NextKeepsIInv, PTL DEF Spec, FrozenReportHolds

-----------------------------------------------------------------------------
\* The image implements DeviceContract.

\* A tick moves only the points of its simulation.
LEMMA OnlySimulatedMove ==
    ASSUME NEW st, PointState(st), NEW next \in PhysicsTick(st),
           NEW p \in Points \ Simulated
    PROVE  next[p] = st[p]
<1>1. CASE Simulation = "random_walk"
  BY <1>1 DEF PhysicsTick, RandomWalkTicks, SetPointValues, Simulated
<1>2. CASE Simulation = "tank_pump_valve" /\ "level" \in Points
  <2>1. next = TankTick(st)
    BY <1>2 DEF PhysicsTick
  <2>2. p \notin {"level", "flow", "level_high_sw", "level_low_sw", "alarms",
                  "alarm_ack"}
    BY <1>2 DEF Simulated
  <2> QED
    BY <2>1, <2>2 DEF TankTick, SetPointValues
<1>3. CASE Simulation = "actuator_feedback"
  <2>1. next = ActuatorTick(st)
    BY <1>3 DEF PhysicsTick
  <2>2. p \notin {"flow_rate", "motor_status"}
    BY <1>3 DEF Simulated
  <2> QED
    BY <2>1, <2>2 DEF ActuatorTick, SetPointValues
<1>4. CASE /\ Simulation \notin {"random_walk", "actuator_feedback"}
           /\ ~ (Simulation = "tank_pump_valve" /\ "level" \in Points)
  BY <1>4 DEF PhysicsTick
<1> QED
  BY <1>1, <1>2, <1>3, <1>4

\* Only a writable point that cannot be simulated is ever stuck.
StuckIsPlausible ==
    \A p \in StuckActuators : p \in Writable /\ p \notin Simulated

LEMMA StuckIsPlausibleInductive ==
    ASSUME IInv, StuckIsPlausible, [Next]_vars
    PROVE  StuckIsPlausible'
<1>1. CASE ModbusWrite
  BY <1>1 DEF ModbusWrite, ApplyModbusWrite, StuckIsPlausible, StuckActuators
<1>2. ASSUME NEW p \in Points, NEW mode \in FaultModes, NEW rate \in DriftRates,
             NEW amplitude \in Amplitudes, SetFault(p, mode, rate, amplitude)
      PROVE  StuckIsPlausible'
  <2>1. /\ DOMAIN faults' = DOMAIN faults \cup {p}
        /\ faults'[p].mode = mode
        /\ \A q \in DOMAIN faults \ {p} : faults'[q] = faults[q]
    BY <1>2 DEF SetFault, With, NewFault
  <2>2. mode = "stuck_actuator" => p \in Writable /\ p \notin Simulated
    BY <1>2, StickingAssumption DEF SetFault, CanFault
  <2> QED
    BY <2>1, <2>2 DEF StuckIsPlausible, StuckActuators
<1>3. ASSUME NEW p \in Points, ClearFault(p)
      PROVE  StuckIsPlausible'
  BY <1>3 DEF ClearFault, Without, Restrict, StuckIsPlausible, StuckActuators
<1>4. CASE PhysicsStep \/ Advance \/ UNCHANGED vars
  BY <1>4 DEF PhysicsStep, Advance, vars, StuckIsPlausible, StuckActuators
<1> QED
  BY <1>1, <1>2, <1>3, <1>4 DEF Next

\* The refinement mapping: what a client reads back of its commands.
Commanded == [p \in Points |-> IF p \in DOMAIN shadow THEN shadow[p] ELSE state[p]]

LEMMA WriteImplementsCommand ==
    ASSUME IInv, ModbusWrite
    PROVE  Contract!ContractNext
<1>1. PICK kind \in {"coil", "holding_register"},
           address \in {Address[p] : p \in Points}, n \in 1 .. MaxCount :
         \E values \in [1 .. n -> RawValues] :
            ApplyModbusWrite(kind, address, values)
  BY DEF ModbusWrite
<1>2. PICK values \in [1 .. n -> RawValues] :
         ApplyModbusWrite(kind, address, values)
  BY <1>1
<1> DEFINE index(p) == Address[p] - address + 1
           written == {p \in Writable : /\ Kind[p] = kind
                                        /\ index(p) \in DOMAIN values}
           raw == [p \in written |-> values[index(p)]]
<1>3. WriteRawPoints(raw) /\ UNCHANGED <<faults, now>>
  BY <1>2 DEF ApplyModbusWrite
<1>4. written \in SUBSET Writable /\ raw \in [written -> RawValues]
  OBVIOUS
<1>5. DOMAIN raw = written
  OBVIOUS
<1> HIDE DEF raw, written
<1>6. HeldBack(raw) = written \cap StuckActuators
  BY <1>4, <1>5 DEF HeldBack, IsStuck, HasFault, StuckActuators
<1>7. state' = [p \in Points |-> IF p \in DOMAIN raw \ StuckActuators
                                 THEN Accepted(p, raw[p]) ELSE state[p]]
  BY <1>3, <1>5, <1>6 DEF WriteRawPoints
<1>8. Commanded' = [p \in Points |-> IF p \in DOMAIN raw THEN Accepted(p, raw[p])
                                     ELSE Commanded[p]]
  BY <1>3, <1>5, <1>6, <1>7 DEF WriteRawPoints, Commanded
<1>9. UNCHANGED StuckActuators
  BY <1>3 DEF StuckActuators
<1>10. Contract!Command(raw)
  BY <1>7, <1>8, <1>9 DEF Contract!Command, Commanded
<1> QED
  BY <1>4, <1>10 DEF Contract!ContractNext

LEMMA SetFaultImplementsRestick ==
    ASSUME IInv, StuckIsPlausible, NEW p \in Points, NEW mode \in FaultModes,
           NEW rate \in DriftRates, NEW amplitude \in Amplitudes,
           SetFault(p, mode, rate, amplitude)
    PROVE  [Contract!ContractNext]_(Contract!contractVars)
<1>1. /\ DOMAIN shadow' = DOMAIN shadow \ {p}
      /\ \A q \in DOMAIN shadow \ {p} : shadow'[q] = shadow[q]
  BY ShadowWithoutFaultFacts DEF SetFault
<1>2. /\ DOMAIN faults' = DOMAIN faults \cup {p}
      /\ faults'[p].mode = mode
      /\ \A q \in DOMAIN faults \ {p} : faults'[q] = faults[q]
  BY DEF SetFault, With, NewFault
<1>3. UNCHANGED state
  BY DEF SetFault
<1>4. Commanded' = [q \in Points |-> IF q = p THEN state[p] ELSE Commanded[q]]
  BY <1>1, <1>3 DEF Commanded
<1>5. CASE mode = "stuck_actuator"
  <2>1. p \in Writable
    BY <1>5 DEF SetFault, CanFault
  <2>2. StuckActuators' = StuckActuators \cup {p}
    BY <1>2, <1>5 DEF StuckActuators
  <2> QED
    BY <1>3, <1>4, <2>1, <2>2
    DEF Contract!ContractNext, Contract!Restick, Commanded
<1>6. CASE mode # "stuck_actuator" /\ p \in StuckActuators
  <2>1. p \in Writable
    BY <1>6 DEF StuckIsPlausible
  <2>2. StuckActuators' = StuckActuators \ {p}
    BY <1>2, <1>6 DEF StuckActuators
  <2> QED
    BY <1>3, <1>4, <2>1, <2>2
    DEF Contract!ContractNext, Contract!Restick, Commanded
<1>7. CASE mode # "stuck_actuator" /\ p \notin StuckActuators
  <2>1. p \notin DOMAIN shadow
    BY <1>7 DEF IInv, ShadowOnlyWhileStuck, IsStuck, HasFault, StuckActuators
  <2>2. Commanded' = Commanded
    BY <1>4, <2>1 DEF Commanded
  <2>3. StuckActuators' = StuckActuators
    BY <1>2, <1>7 DEF StuckActuators
  <2> QED
    BY <1>3, <2>2, <2>3 DEF Contract!contractVars, Commanded
<1> QED
  BY <1>5, <1>6, <1>7

LEMMA ClearFaultImplementsRestick ==
    ASSUME IInv, StuckIsPlausible, NEW p \in Points, ClearFault(p)
    PROVE  [Contract!ContractNext]_(Contract!contractVars)
<1>1. /\ DOMAIN shadow' = DOMAIN shadow \ {p}
      /\ \A q \in DOMAIN shadow \ {p} : shadow'[q] = shadow[q]
  BY ShadowWithoutFaultFacts DEF ClearFault
<1>2. /\ DOMAIN faults' = DOMAIN faults \ {p}
      /\ \A q \in DOMAIN faults \ {p} : faults'[q] = faults[q]
  BY DEF ClearFault, Without, Restrict
<1>3. UNCHANGED state
  BY DEF ClearFault
<1>4. Commanded' = [q \in Points |-> IF q = p THEN state[p] ELSE Commanded[q]]
  BY <1>1, <1>3 DEF Commanded
<1>5. StuckActuators' = StuckActuators \ {p}
  BY <1>2 DEF StuckActuators
<1>6. CASE p \in StuckActuators
  <2>1. p \in Writable
    BY <1>6 DEF StuckIsPlausible
  <2> QED
    BY <1>3, <1>4, <1>5, <2>1
    DEF Contract!ContractNext, Contract!Restick, Commanded
<1>7. CASE p \notin StuckActuators
  <2>1. p \notin DOMAIN shadow
    BY <1>7 DEF IInv, ShadowOnlyWhileStuck, IsStuck, HasFault, StuckActuators
  <2>2. Commanded' = Commanded
    BY <1>4, <2>1 DEF Commanded
  <2> QED
    BY <1>3, <1>5, <1>7, <2>2 DEF Contract!contractVars, Commanded
<1> QED
  BY <1>6, <1>7

LEMMA PhysicsImplementsSimulate ==
    ASSUME IInv, StuckIsPlausible, PhysicsStep
    PROVE  Contract!ContractNext
<1>1. state' \in PhysicsTick(state) /\ UNCHANGED <<shadow, faults>>
  BY DEF PhysicsStep
<1>2. UNCHANGED StuckActuators
  BY <1>1 DEF StuckActuators
<1>3. ASSUME NEW p \in StuckActuators \cap Points
      PROVE  state'[p] = state[p]
  BY <1>1, OnlySimulatedMove DEF StuckIsPlausible, PointState, IInv, TypeOK
<1>4. Commanded' = [p \in Points |-> IF p \in StuckActuators THEN Commanded[p]
                                     ELSE state'[p]]
  <2>1. \A p \in DOMAIN shadow : p \in StuckActuators
    BY DEF IInv, ShadowOnlyWhileStuck, IsStuck, HasFault, StuckActuators
  <2> QED
    BY <1>1, <1>3, <2>1 DEF Commanded
<1> QED
  BY <1>1, <1>2, <1>4 DEF Contract!ContractNext, Contract!Simulate, Commanded

\* Every behaviour of the image is one of the contract: no fault moves the
\* plant, a stuck actuator acknowledges commands without obeying them, and a
\* point that is not stuck shows the plant.
THEOREM ImageImplementsContract == Spec => ImplementsContract
<1>1. Init => StuckIsPlausible /\ Contract!ContractInit
  BY DeviceAssumption
  DEF Init, StuckIsPlausible, StuckActuators, Contract!ContractInit
<1>2. IInv /\ StuckIsPlausible /\ [Next]_vars => StuckIsPlausible'
  BY StuckIsPlausibleInductive
<1>3. IInv /\ StuckIsPlausible /\ [Next]_vars
        => [Contract!ContractNext]_(Contract!contractVars)
  <2> SUFFICES ASSUME IInv, StuckIsPlausible, [Next]_vars
               PROVE  [Contract!ContractNext]_(Contract!contractVars)
    OBVIOUS
  <2>1. CASE Advance \/ UNCHANGED vars
    BY <2>1 DEF Advance, vars, Contract!contractVars, StuckActuators
  <2> QED
    BY <2>1, WriteImplementsCommand, SetFaultImplementsRestick,
       ClearFaultImplementsRestick, PhysicsImplementsSimulate DEF Next
<1> QED
  BY <1>1, <1>2, <1>3, InitIInv, NextKeepsIInv, PTL
  DEF Spec, ImplementsContract, Contract!ContractSpec
-----------------------------------------------------------------------------
\* Tanks, of every size, with every flow and every pair of thresholds.

\* What a tick stores in the level and its flags.
LEMMA TankTickFacts ==
    ASSUME IsTank, NEW st, PointState(st), NEW next, next = TankTick(st)
    PROVE  /\ next["level"] = NextLevel(st)
           /\ next["level_high_sw"] = IF LevelIsHigh(NextLevel(st)) THEN 1 ELSE 0
           /\ next["level_low_sw"] = IF LevelIsLow(NextLevel(st)) THEN 1 ELSE 0
           /\ next["alarms"] = AlarmWord(NextLevel(st), On(st, "e_stop")) * Res
           /\ On(next, "e_stop") = On(st, "e_stop")
<1>1. NextLevel(st) \in Int /\ RawMin <= NextLevel(st) /\ NextLevel(st) <= RawMax
  <2>1. NextLevel(st) \in Int
    BY NextLevelInt DEF IsTank
  <2>2. EngineeringToRaw("level", st["level"]) * Res
          + PumpFlow(st, DefaultSpeed)
          - (IF On(st, "valve_open") THEN DrainRate ELSE 0) \in Int
    <3>1. EngineeringToRaw("level", st["level"]) \in Int
      BY EngineeringToRawInt DEF IsTank, PointState
    <3>2. PumpFlow(st, DefaultSpeed) \in Int
      BY PumpFlowInt, PhysicsAssumption
    <3> QED
      BY <3>1, <3>2, DeviceAssumption, PhysicsAssumption
  <2> QED
    BY <2>1, <2>2, PhysicsAssumption DEF NextLevel, Clamp
<1>2. Normalize("level", NextLevel(st)) = NextLevel(st)
  BY <1>1, DeviceAssumption, PhysicsAssumption
  DEF IsTank, Normalize, Clamp
<1>3. next["level"] = NextLevel(st)
  BY <1>2 DEF IsTank, TankTick, SetPointValues
<1>4. /\ next["level_high_sw"] = IF LevelIsHigh(NextLevel(st)) THEN 1 ELSE 0
      /\ next["level_low_sw"] = IF LevelIsLow(NextLevel(st)) THEN 1 ELSE 0
  BY DEF IsTank, TankTick, SetPointValues, FlagLevel, Normalize, Truth
<1>5. next["alarms"] = AlarmWord(NextLevel(st), On(st, "e_stop")) * Res
  BY DEF IsTank, TankTick, SetPointValues, FlagLevel, Normalize
<1>6. On(next, "e_stop") = On(st, "e_stop")
  BY DEF On, PointValue, TankTick, SetPointValues
<1> QED
  BY <1>3, <1>4, <1>5, <1>6

\* A client's request leaves the read-only points alone.
LEMMA WritesSpareReadOnly ==
    ASSUME IInv, ModbusWrite, NEW p \in Points \ Writable
    PROVE  state'[p] = state[p]
  BY DEF ModbusWrite, ApplyModbusWrite, WriteRawPoints

\* In every reachable state of every tank the switches and the alarm word are
\* those of the level, whatever faults and writes do.
THEOREM AlarmsAlwaysDescribeLevel ==
    ASSUME IsTank PROVE Spec => []AlarmsDescribeLevel
<1>1. Init => AlarmsDescribeLevel
  <2>1. AlarmWord(Initial["level"], On(Initial, "e_stop")) = 0
    BY DEF IsTank, AlarmWord
  <2>2. 0 * Res = 0
    BY DeviceAssumption
  <2> QED
    BY <2>1, <2>2
    DEF IsTank, Init, AlarmsDescribeLevel, LevelIsHigh, LevelIsLow
<1>2. IInv /\ AlarmsDescribeLevel /\ [Next]_vars => AlarmsDescribeLevel'
  <2> SUFFICES ASSUME IInv, AlarmsDescribeLevel, [Next]_vars
               PROVE  AlarmsDescribeLevel'
    OBVIOUS
  <2>1. CASE ModbusWrite
    <3>1. \A p \in {"level", "level_high_sw", "level_low_sw", "alarms"} :
              state'[p] = state[p]
      BY <2>1, WritesSpareReadOnly DEF IsTank
    <3>2. On(state', "e_stop") = On(state, "e_stop")
      BY <2>1, WritesSpareReadOnly DEF IsTank, On, PointValue
    <3> QED
      BY <3>1, <3>2 DEF AlarmsDescribeLevel
  <2>2. CASE PhysicsStep
    <3>1. PointState(state)
      BY DEF PointState, IInv, TypeOK
    <3>2. state' = TankTick(state)
      BY <2>2 DEF IsTank, PhysicsStep, PhysicsTick
    <3> QED
      BY <3>1, <3>2, TankTickFacts DEF AlarmsDescribeLevel
  <2>3. CASE UNCHANGED state
    BY <2>3 DEF AlarmsDescribeLevel
  <2> QED
    BY <2>1, <2>2, <2>3 DEF Next, SetFault, ClearFault, Advance, vars
<1> QED
  BY <1>1, <1>2, InitIInv, NextKeepsIInv, PTL DEF Spec

\* One tick moves the level of any tank by its flows, up to the rounding.
THEOREM LevelAlwaysFollowsFlows ==
    ASSUME IsTank PROVE Spec => LevelFollowsFlows
<1>1. ASSUME IInv, PhysicsStep
      PROVE  LET drain == IF On(state, "valve_open") THEN DrainRate ELSE 0
                 exact == Clamp(RawMin, RawMax, state["level"]
                                  + PumpFlow(state, DefaultSpeed) - drain)
                 error == state'["level"] - exact
             IN  2 * error <= Res /\ -(2 * error) <= Res
  <2> DEFINE drain == IF On(state, "valve_open") THEN DrainRate ELSE 0
             level == state["level"]
             rounded == RoundHalfEven(level) * Res
             flow == PumpFlow(state, DefaultSpeed)
  <2>1. PointState(state)
    BY <1>1 DEF PointState, IInv, TypeOK
  <2>2. state' = TankTick(state)
    BY <1>1 DEF IsTank, PhysicsStep, PhysicsTick
  <2>3. state'["level"] = NextLevel(state)
    BY <2>1, <2>2, TankTickFacts
  <2>4. NextLevel(state) = Clamp(RawMin, RawMax, rounded + flow - drain)
    BY DEF IsTank, NextLevel, EngineeringToRaw
  <2>5. level \in Int /\ flow \in Int /\ drain \in Int
    BY <2>1, PumpFlowInt, PhysicsAssumption DEF IsTank, PointState
  <2>6. rounded \in Int
    <3>1. EngineeringToRaw("level", level) \in Int
      BY <2>5, EngineeringToRawInt DEF IsTank
    <3> QED
      BY <3>1, DeviceAssumption DEF IsTank, EngineeringToRaw
  <2>7. 2 * (rounded - level) <= Res /\ -(2 * (rounded - level)) <= Res
    <3>1. /\ Res * (2 * RoundHalfEven(level)) - Res <= 2 * level
          /\ 2 * level <= Res * (2 * RoundHalfEven(level)) + Res
      BY <2>5, RoundIsNear
    <3>2. Res * (2 * RoundHalfEven(level)) = 2 * rounded
      BY <2>5, RoundIsNear, DeviceAssumption
    <3> QED
      BY <2>5, <2>6, <3>1, <3>2, DeviceAssumption
  <2> HIDE DEF drain, level, rounded, flow
  <2>8. LET error == Clamp(RawMin, RawMax, rounded + flow - drain)
                       - Clamp(RawMin, RawMax, level + flow - drain)
        IN  2 * error <= Res /\ -(2 * error) <= Res
    BY <2>5, <2>6, <2>7, DeviceAssumption, PhysicsAssumption DEF Clamp
  <2> QED
    BY <2>3, <2>4, <2>8 DEF drain, level, flow
<1> QED
  BY <1>1, InitIInv, NextKeepsIInv, PTL DEF Spec, LevelFollowsFlows

-----------------------------------------------------------------------------
\* Stand-alone actuators.

\* A tick shows on the flow meter what the pump does.
LEMMA FeedbackShowsTheFlow ==
    ASSUME IsActuator, IInv, PhysicsStep
    PROVE  /\ state'["flow_rate"] = PumpFlow(state, FullSpeed)
           /\ state'["pump_run"] = state["pump_run"]
<1>1. state' = ActuatorTick(state)
  BY DEF IsActuator, PhysicsStep, PhysicsTick
<1> QED
  BY <1>1 DEF IsActuator, ActuatorTick, FeedbackFlow, SetPointValues, Normalize

\* A stuck pump goes on running, and a client of a healthy flow meter reads a flow
\* as long as the flow rounds to at least one raw unit, whatever is
\* written to it and whichever other faults come and go (emulator_core.py,
\* write_raw_point and _apply_actuator_feedback).
THEOREM StuckPumpsKeepFlowing ==
    ASSUME IsActuator PROVE Spec => StuckPumpKeepsFlowing
<1>1. ASSUME IInv, IInv', [Next]_vars, StuckRunning, IsStuck("pump_run")',
             Shows(PumpFlow(state, FullSpeed))
      PROVE  /\ StuckRunning'
             /\ "flow_rate" \notin DOMAIN faults'
                  => \A raw \in ReadRaw("flow_rate")' : raw > 0
  <2>1. state'["pump_run"] = state["pump_run"] /\ Shows(state'["flow_rate"])
    <3>1. CASE ModbusWrite
      <4>1. "flow_rate" \in Points \ Writable
        BY DEF IsActuator
      <4>2. state'["flow_rate"] = state["flow_rate"]
        BY <1>1, <3>1, <4>1, WritesSpareReadOnly
      <4>3. "pump_run" \in Points /\ IsStuck("pump_run")
        BY <1>1 DEF IsActuator, StuckRunning
      <4>4. state'["pump_run"] = state["pump_run"]
        BY <3>1, <4>3 DEF ModbusWrite, ApplyModbusWrite, WriteRawPoints, HeldBack
      <4> QED
        BY <1>1, <4>2, <4>4 DEF StuckRunning
    <3>2. CASE PhysicsStep
      BY <1>1, <3>2, FeedbackShowsTheFlow
    <3>3. CASE UNCHANGED state
      BY <1>1, <3>3 DEF StuckRunning
    <3> QED
      BY <1>1, <3>1, <3>2, <3>3 DEF Next, SetFault, ClearFault, Advance, vars
  <2>2. StuckRunning'
    BY <1>1, <2>1 DEF StuckRunning, On, PointValue, IsActuator
  <2>3. "flow_rate" \notin DOMAIN faults' => Exposed("flow_rate")' = {state'["flow_rate"]}
    BY <1>1 DEF IInv, ShadowOnlyWhileStuck, IsStuck, HasFault, Exposed, BaseWith
  <2> QED
    BY <2>1, <2>2, <2>3 DEF ReadRaw, Shows
<1> QED
  BY <1>1, InitIInv, NextKeepsIInv, PTL DEF Spec, StuckPumpKeepsFlowing
=============================================================================
