---------------------------- MODULE DeviceLoader ----------------------------
(***************************************************************************)
(* The loader of device definitions (device_defs.py), as functions.        *)
(*                                                                         *)
(* A file holds a definition or malformed JSON.  Loading it yields a       *)
(* device, or an error (a ValueError, which is reported for the file), or  *)
(* it raises something the loader does not catch, which ends the loading   *)
(* of all files.  A value the checks do not expect is one of:              *)
(*   Missing    no such field, or null                                     *)
(*   Text       a string that is no number                                 *)
(*   Infinite   a JSON Infinity, which int() answers with OverflowError    *)
(*   List       a JSON list, which cannot be looked up in a set: TypeError *)
(***************************************************************************)
EXTENDS Integers, Sequences

CONSTANTS Missing, Text, Infinite, List, Malformed

BoolKinds == {"coil", "discrete_input"}
RegisterKinds == {"holding_register", "input_register"}
PointKinds == BoolKinds \cup RegisterKinds
AccessModes == {"ro", "rw"}
SimulationTypes == {"static", "random_walk", "tank_pump_valve", "actuator_feedback"}
FaultModeNames == {"freeze", "drift", "noise", "stuck_actuator"}
Ports == 1 .. 65535

\* The outcome of one check.
Fine == "fine"
ValueError == "ValueError"
Uncaught == "uncaught"
Require(ok) == IF ok THEN Fine ELSE ValueError

\* value not in SUPPORTED_..., on a value that need not be a string.
Lookup(value, supported) ==
    IF value = List THEN Uncaught ELSE Require(value \in supported)

\* int(value) and the range that is asked of it.
IntegerIn(value, range) ==
    IF value = Infinite THEN Uncaught ELSE Require(value \notin {Missing, Text} /\ value \in range)

\* The first check that is not fine decides.
FirstOf(checks) ==
    LET failed == {n \in DOMAIN checks : checks[n] # Fine}
    IN  IF failed = {} THEN Fine
        ELSE checks[CHOOSE n \in failed : \A m \in failed : n <= m]

-----------------------------------------------------------------------------
\* _validate_point, of the n-th point, after those before it.
DuplicateId(points, n) == \E k \in 1 .. n - 1 : points[k].id = points[n].id
NoDuplicate(points, n) == FALSE                 \* Mutant: addresses may repeat
DuplicateAddress(points, n) ==
    \E k \in 1 .. n - 1 :
        points[k].kind = points[n].kind /\ points[k].address = points[n].address

\* A scale that is missing is 1.0.  Nothing looks at p.initial.
PointChecks(points, n) ==
    LET p == points[n]
    IN  << Require(p.id # Missing), Require(~ DuplicateId(points, n)),
           Lookup(p.kind, PointKinds),
           IntegerIn(p.address, Nat),
           Lookup(p.access, AccessModes),
           Require(p.scale \notin {Text, 0}),
           Require(p.modes = {} \/ p.modes \subseteq FaultModeNames),
           Require(~ DuplicateAddress(points, n)) >>

\* _validate_device.
PointsOutcome(points) ==
    FirstOf([n \in DOMAIN points |-> FirstOf(PointChecks(points, n))])

DeviceChecks(d) ==
    << Require(d.id # Missing), Require(d.protocol # Missing),
       IntegerIn(d.port, Ports),
       Require(d.simulation \in SimulationTypes),
       Require(d.points # <<>>), PointsOutcome(d.points) >>

Outcome(d) == IF d = Malformed THEN ValueError ELSE FirstOf(DeviceChecks(d))

-----------------------------------------------------------------------------
\* load_device_definitions of a directory, a sequence of files in their order.
IsDuplicate(files, n) ==
    \E k \in 1 .. n - 1 : Outcome(files[k]) = Fine /\ files[k].id = files[n].id

LoadRaises(files) == \E n \in DOMAIN files : Outcome(files[n]) = Uncaught

LoadedFiles(files) ==
    {n \in DOMAIN files : Outcome(files[n]) = Fine /\ ~ IsDuplicate(files, n)}
Errors(files) ==
    {n \in DOMAIN files :
        \/ Outcome(files[n]) = ValueError
        \/ Outcome(files[n]) = Fine /\ IsDuplicate(files, n)}

LoadedIds(files) == {files[n].id : n \in LoadedFiles(files)}
Definition(files, id) == files[CHOOSE n \in LoadedFiles(files) : files[n].id = id]

-----------------------------------------------------------------------------
\* What the rest of the program relies on without looking (DeviceAssumption and
\* AddressAssumption of DeviceModel): kinds, distinct ids and addresses, known
\* fault modes, a scale to divide by.  The image may still refuse to be built:
\* float() of an initial value, and of the parameters of the simulation, raises
\* on text in the process that is started (emulator_core.py, __post_init__).
Sound(d) ==
    /\ d.port \in Ports /\ d.simulation \in SimulationTypes
    /\ \A n \in DOMAIN d.points :
          LET p == d.points[n]
          IN  /\ p.kind \in PointKinds /\ p.address \in Nat /\ p.access \in AccessModes
              /\ p.scale # 0 /\ p.modes \subseteq FaultModeNames
              /\ \A k \in DOMAIN d.points :
                    k # n => /\ d.points[k].id # p.id
                             /\ <<d.points[k].kind, d.points[k].address>>
                                   # <<p.kind, p.address>>
=============================================================================
