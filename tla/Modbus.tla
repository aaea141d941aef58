------------------------------- MODULE Modbus -------------------------------
(***************************************************************************)
(* A device served over Modbus (protocols/modbus.py) with an HMI that      *)
(* polls and commands it (hmi_client.py, class ModbusHmiClient).  A        *)
(* request reads or writes under the image's lock and is one step; a poll  *)
(* is one request for each group of contiguous points, with everything     *)
(* else going on in between.                                               *)
(***************************************************************************)
EXTENDS ProcessImage, SequencesExt

CONSTANTS
    BlockSize,      \* length of the library's data blocks
    MaxRaw,         \* 2^16 - 1: the most a register of a frame holds
    Typed,          \* values an operator enters, in fractions
    Sessions        \* bounds: the fault modes in use, and whether the clock
                    \* and the HMI run

ASSUME ModbusAssumption ==
    /\ BlockSize \in Nat /\ MaxRaw \in Nat /\ Typed \subseteq Int
    /\ Sessions \subseteq [modes : SUBSET FaultModes, clock : BOOLEAN, hmi : BOOLEAN]

VARIABLES
    poll,           \* the groups still to read, and what was read: raw_values
    session         \* one of Sessions

modbusVars == <<vars, poll, session>>

Polled(todo, read) == [todo |-> todo, read |-> read]
Nothing == Polled(<<>>, <<>>)

-----------------------------------------------------------------------------
\* The server.

\* The library refuses a request beyond its own data blocks, which start with
\* an address no request can name.
InBlock(address, count) == address + count < BlockSize

\* A 16-bit register of a frame.
Fits(raw) == raw \in 0 .. MaxRaw

\* read_modbus: every address has its point's raw value, or 0.
ReadAt(kind, address) ==
    LET found == {p \in Points : Kind[p] = kind /\ Address[p] = address}
    IN  IF found = {} THEN {0} ELSE UNION {ReadRaw(p) : p \in found}

Answers(kind, address, count) ==
    {values \in [1 .. count -> UNION {ReadAt(kind, address + n) : n \in 0 .. count - 1}] :
        \A n \in 1 .. count : values[n] \in ReadAt(kind, address + n - 1)}

\* A write request of another client.
ClientWrite ==
    /\ \E kind \in {"coil", "holding_register"} :
          \E address \in {Address[p] : p \in Points}, n \in 1 .. MaxCount :
             /\ InBlock(address, n)
             /\ \E values \in [1 .. n -> RawValues] : ApplyModbusWrite(kind, address, values)
    /\ UNCHANGED <<poll, session>>

-----------------------------------------------------------------------------
\* The HMI.

\* group_contiguous_points, kind after kind.
InOrder(kind) ==
    SetToSortSeq({p \in Points : Kind[p] = kind}, LAMBDA p, q : Address[p] < Address[q])

NeverAdjacent(group, p) == FALSE                \* Mutant: a request for each point
Adjacent(group, p) == Address[p] = Address[Last(group)] + 1

AddToGroups(groups, p) ==
    IF groups # <<>> /\ Adjacent(Last(groups), p)
    THEN Append(Front(groups), Append(Last(groups), p))
    ELSE Append(groups, <<p>>)
GroupContiguous(points) == FoldLeft(AddToGroups, <<>>, points)

Groups ==
    FlattenSeq([n \in 1 .. 4 |->
        GroupContiguous(InOrder(<<"coil", "discrete_input", "holding_register",
                                  "input_register">>[n]))])

\* One request of poll(); an error ends the poll.
Pending == IF poll.todo = <<>> THEN Polled(Groups, <<>>) ELSE poll

PollGroup ==
    /\ session.hmi
    /\ LET group == Head(Pending.todo)
           start == Address[group[1]]
       IN  \E values \in Answers(Kind[group[1]], start, Len(group)) :
              poll' =
                 IF InBlock(start, Len(group)) /\ \A n \in DOMAIN values : Fits(values[n])
                 THEN Polled(Tail(Pending.todo),
                             [p \in DOMAIN Pending.read \cup ToSet(group) |->
                                IF p \in DOMAIN Pending.read THEN Pending.read[p]
                                ELSE values[Address[p] - start + 1]])
                 ELSE Nothing
    /\ UNCHANGED <<vars, session>>

\* execute(), which the loop calls between two polls.
SentUnscaled(p, v) == v                         \* Mutant: engineering_to_raw left out
Sent(p, v) == EngineeringToRaw(p, v)
Commandable(p) == Kind[p] \in {"coil", "holding_register"}
Deliverable(p, v) == Commandable(p) /\ InBlock(Address[p], 1) /\ Fits(Sent(p, v))

Execute(p, v) ==
    /\ session.hmi /\ poll.todo = <<>>
    /\ IF Deliverable(p, v)
       THEN ApplyModbusWrite(Kind[p], Address[p], <<Sent(p, v)>>)
       ELSE UNCHANGED vars
    /\ UNCHANGED <<poll, session>>

-----------------------------------------------------------------------------
ModbusInit == Init /\ poll = Nothing /\ session \in Sessions

ImageSteps ==
    /\ \/ \E p \in Points, mode \in session.modes, rate \in DriftRates,
             amplitude \in Amplitudes : SetFault(p, mode, rate, amplitude)
       \/ \E p \in Points : ClearFault(p)
       \/ PhysicsStep
       \/ session.clock /\ Advance
    /\ UNCHANGED <<poll, session>>

ModbusNext ==
    \/ ClientWrite \/ PollGroup \/ ImageSteps
    \/ \E p \in Writable, v \in Typed : Execute(p, v)

ModbusSpec == ModbusInit /\ [][ModbusNext]_modbusVars /\ WF_vars(PhysicsStep)

-----------------------------------------------------------------------------
\* A value the operator enters comes through both conversions and the clamp to
\* within half a raw unit, if the frame can carry it and the actuator obeys.
\* A stuck actuator shows the value all the same.
TypedIsCommanded ==
    [][\A p \in Writable, v \in Typed :
          Execute(p, v) /\ Deliverable(p, v) =>
              LET became == IF p \in DOMAIN shadow' THEN shadow'[p] ELSE state'[p]
                  off == became - Normalize(p, v)
              IN  2 * off \in -Res .. Res]_modbusVars

\* Flow and motor status are neighbours, so the HMI reads them in one request:
\* whatever happens between the requests of a poll, healthy meters never show it
\* a flow without the motor that makes it.
FlowGoesWithTheMotor ==
    [][poll.todo # <<>> /\ poll'.todo = <<>>
         /\ {"flow_rate", "motor_status"} \cap DOMAIN faults = {}
         /\ "flow_rate" \in DOMAIN poll'.read /\ poll'.read["flow_rate"] > 0
         => poll'.read["motor_status"] > 0]_modbusVars
=============================================================================
