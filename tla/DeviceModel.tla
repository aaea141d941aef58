---------------------------- MODULE DeviceModel ----------------------------
(***************************************************************************)
(* One device definition (devices/*.json as device_defs.py loads it) and   *)
(* the value conversions every other part of an emulator shares.           *)
(*                                                                         *)
(* An engineering value is an integer, counted in fractions of the raw     *)
(* register unit: Res fractions make one raw unit, so engineering value v  *)
(* of a register is v / Res raw units.  The scale of a point disappears    *)
(* and what engineering_to_raw loses, the fraction, stays.  A Boolean      *)
(* point holds 0 or 1.                                                     *)
(***************************************************************************)
EXTENDS Integers, Sequences, TLC

CONSTANTS
    Points,         \* ids of the device's points
    Kind,           \* [Points -> PointKinds]
    Address,        \* [Points -> Nat]
    Writable,       \* the points whose access is "rw"
    Capabilities,   \* [Points -> SUBSET FaultModes]: points[].fault.modes
    Clamped,        \* the points _normalize_value_for_point keeps in a range
    Low, High,      \* [Clamped -> Int]: that range, in fractions
    Initial,        \* [Points -> Int]: the state __post_init__ builds, in no
                    \* range: neither it nor the loader compares them
    Res             \* fractions per raw unit

BoolKinds == {"coil", "discrete_input"}
PointKinds == BoolKinds \cup {"holding_register", "input_register"}
FaultModes == {"freeze", "drift", "noise", "stuck_actuator"}

IsBool(p) == Kind[p] \in BoolKinds

ASSUME DeviceAssumption ==
    /\ Res \in Nat \ {0}
    /\ Kind \in [Points -> PointKinds]
    /\ Address \in [Points -> Nat]
    /\ Writable \subseteq Points
    /\ Capabilities \in [Points -> SUBSET FaultModes]
    /\ Clamped \subseteq Points
    /\ \A p \in Clamped : /\ ~ IsBool(p)
                          /\ Low[p] \in Int /\ High[p] \in Int
                          /\ Low[p] <= High[p]
    /\ Initial \in [Points -> Int]
    /\ \A p \in Points : IsBool(p) => Initial[p] \in {0, 1}

\* points_by_kind_address finds at most one point.
ASSUME AddressAssumption ==
    \A p, q \in Points :
        Kind[p] = Kind[q] /\ Address[p] = Address[q] => p = q

-----------------------------------------------------------------------------
Clamp(lo, hi, v) == IF v < lo THEN lo ELSE IF v > hi THEN hi ELSE v

Truth(v) == IF v = 0 THEN 0 ELSE 1

\* The values a conversion gives point p.
Value(p) ==
    IF IsBool(p) THEN {0, 1}
    ELSE IF p \in Clamped THEN {v \in Int : Low[p] <= v /\ v <= High[p]}
    ELSE Int

\* The values point p can hold: also the one it starts with.
Held(p) == Value(p) \cup {Initial[p]}

\* Mutant: no clamp.
NormalizeUnclamped(p, v) == IF IsBool(p) THEN Truth(v) ELSE v

\* _normalize_value_for_point: bool(), or the clamp of a "%" point and of
\* scan_time_ms.
Normalize(p, v) ==
    IF IsBool(p) THEN Truth(v)
    ELSE IF p \in Clamped THEN Clamp(Low[p], High[p], v)
    ELSE v

RoundDown(v) == v \div Res      \* Mutant: int() without round()

\* Python's round(): to the nearest raw unit, a tie to the even one.
RoundHalfEven(v) ==
    LET q == v \div Res
        r == v % Res
    IN  IF 2 * r < Res \/ (2 * r = Res /\ q % 2 = 0) THEN q ELSE q + 1

EngineeringToRaw(p, v) == IF IsBool(p) THEN Truth(v) ELSE RoundHalfEven(v)

RawToEngineering(p, raw) == IF IsBool(p) THEN Truth(raw) ELSE raw * Res
=============================================================================
