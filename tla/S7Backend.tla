----------------------------- MODULE S7Backend -----------------------------
(***************************************************************************)
(* The S7comm backend (protocols/s7comm.py): a loop that copies DB2 into   *)
(* the process image and the image into DB1, DB2 and DB900, the S7 server  *)
(* that serves the same byte arrays from its own thread, and the HMI's S7  *)
(* client (hmi_client.py, S7HmiClient.execute).                            *)
(*                                                                         *)
(* The loop, physics and fault control are tasks of one event loop: the    *)
(* last two run only while the loop sleeps.  A client's request falls      *)
(* between any two steps.  A data block is a function from its points to   *)
(* raw values.                                                             *)
(***************************************************************************)
EXTENDS ProcessImage

CONSTANT MaxU16         \* 65535

\* A client's request holds 16-bit words.
ASSUME S7Assumption == MaxU16 \in Nat \ {0} /\ RawValues \subseteq 0 .. MaxU16

VARIABLES
    pc,             \* the step of the refresh loop that comes next
    control,        \* DB2: coils and holding registers
    process,        \* DB1: discrete inputs and input registers
    engineering,    \* DB900: raw= and value= of every point
    client,         \* the client's request, and the byte a coil write copied
    commanded,      \* history: the points a client meant to command
    settled         \* history: the last raw value written to a point of DB2,
                    \* when the write fell outside a refresh

s7vars == <<vars, pc, control, process, engineering, client, commanded, settled>>

ControlPoints == {p \in Points : Kind[p] \in {"coil", "holding_register"}}
ProcessPoints == Points \ ControlPoints
Coils == {p \in Points : Kind[p] = "coil"}

Idle == [point |-> "none", value |-> 0, copy |-> <<>>]

\* set_u16 and set_bit of what a client may read of point p.
BlockValues(p) ==
    IF IsBool(p) THEN ReadRaw(p) ELSE {Clamp(0, MaxU16, v) : v \in ReadRaw(p)}

\* The value= column: uptime, or the physical state.
EngineeringValue(p) == IF p = "uptime" THEN Uptime * Res ELSE state[p]

-----------------------------------------------------------------------------
\* sync_from_s7_controls: every writable control of DB2 is written to the
\* image, changed or not.
TakeControls == WriteRawPoints([p \in ControlPoints \cap Writable |-> control[p]])

SyncFrom ==
    /\ pc = "from"
    /\ TakeControls
    /\ pc' = "zero"
    /\ UNCHANGED <<faults, now, control, process, engineering, client,
                   commanded, settled>>

\* sync_to_s7 clears both blocks before it fills them.
SyncToZero ==
    /\ pc = "zero"
    /\ control' = [p \in ControlPoints |-> 0]
    /\ process' = [p \in ProcessPoints |-> 0]
    /\ pc' = "fill"
    /\ UNCHANGED <<vars, engineering, client, commanded, settled>>

Filled(values) ==
    /\ control' = [p \in ControlPoints |-> values[p]]
    /\ process' = [p \in ProcessPoints |-> values[p]]
    /\ engineering' =
         [p \in Points |-> [raw |-> values[p], value |-> EngineeringValue(p)]]

\* Each point is read twice, for its block and for DB900; with noise the two
\* reads may differ, which no property here is about.
SyncToFill ==
    /\ pc = "fill"
    /\ \E values \in [Points -> UNION {BlockValues(p) : p \in Points}] :
          /\ \A p \in Points : values[p] \in BlockValues(p)
          /\ Filled(values)
    /\ pc' = "sleep"
    /\ UNCHANGED <<vars, client, commanded, settled>>

WakeToRefresh == pc = "sleep" /\ pc' = "zero"   \* Mutant: controls not taken
WakeToControls == pc = "sleep" /\ pc' = "from"

Wake ==
    /\ WakeToControls
    /\ UNCHANGED <<vars, control, process, engineering, client, commanded,
                   settled>>

-----------------------------------------------------------------------------
\* db_write of the client: the server's thread stores the bytes at once.
\* Only a write outside SyncFrom ... SyncToFill is sure to be taken.
DbWrite(written) ==
    /\ control' = [p \in ControlPoints |-> IF p \in DOMAIN written
                                           THEN written[p] ELSE control[p]]
    /\ settled' =
         IF pc \in {"sleep", "from"}
         THEN [p \in DOMAIN settled \cup DOMAIN written |->
                 IF p \in DOMAIN written THEN written[p] ELSE settled[p]]
         ELSE Restrict(settled, DOMAIN settled \ DOMAIN written)
    /\ UNCHANGED <<vars, pc, process, engineering>>

ClientWriteRegister ==
    /\ client = Idle
    /\ \E p \in (Writable \cap ControlPoints) \ Coils, raw \in RawValues :
          /\ DbWrite([q \in {p} |-> raw])
          /\ commanded' = commanded \cup {p}
    /\ UNCHANGED client

\* Writing a coil is a read of its byte, if that is byte 0 ...
Byte(p) == {q \in Coils : Address[q] \div 8 = Address[p] \div 8}

ClientReadByte ==
    /\ client = Idle
    /\ \E p \in Writable \cap Coils, value \in {0, 1} :
          client' = [point |-> p, value |-> value,
                     copy |-> [q \in Byte(p) |->
                                IF Address[p] \div 8 = 0 THEN control[q] ELSE 0]]
    /\ UNCHANGED <<vars, pc, control, process, engineering, commanded, settled>>

\* ... and a write of the byte with the coil's bit set or cleared in it.
ClientWriteByte ==
    /\ client # Idle
    /\ DbWrite([client.copy EXCEPT ![client.point] = client.value])
    /\ commanded' = commanded \cup {client.point}
    /\ client' = Idle

-----------------------------------------------------------------------------
\* The tasks of the event loop run while the backend sleeps.
OtherTasks ==
    /\ pc = "sleep"
    /\ \/ \E p \in Points, mode \in FaultModes, rate \in DriftRates,
             amplitude \in Amplitudes : SetFault(p, mode, rate, amplitude)
       \/ \E p \in Points : ClearFault(p)
       \/ PhysicsStep
       \/ Advance
    /\ UNCHANGED <<pc, control, process, engineering, client, commanded, settled>>

\* serve fills the blocks before it starts the server: no fault is active, so
\* each point has one value.
FirstValue(p) == CHOOSE v \in BlockValues(p) : TRUE

S7Init ==
    /\ Init
    /\ pc = "from"
    /\ control = [p \in ControlPoints |-> FirstValue(p)]
    /\ process = [p \in ProcessPoints |-> FirstValue(p)]
    /\ engineering = [p \in Points |-> [raw |-> FirstValue(p), value |-> EngineeringValue(p)]]
    /\ client = Idle
    /\ commanded = {}
    /\ settled = <<>>

S7Next ==
    \/ SyncFrom
    \/ SyncToZero
    \/ SyncToFill
    \/ Wake
    \/ ClientWriteRegister
    \/ ClientReadByte
    \/ ClientWriteByte
    \/ OtherTasks

S7Spec == S7Init /\ [][S7Next]_s7vars

-----------------------------------------------------------------------------
\* Types of the blocks and of the loop's control, with the image's own.
S7TypeOK ==
    /\ TypeOK
    /\ pc \in {"from", "zero", "fill", "sleep"}
    /\ control \in [ControlPoints -> 0 .. MaxU16]
    /\ process \in [ProcessPoints -> 0 .. MaxU16]
    /\ DOMAIN engineering = Points
    /\ commanded \subseteq Writable
    /\ DOMAIN settled \subseteq ControlPoints

\* The points whose only fault is to get stuck: the rw points of every device
\* in devices/.  Any other fault is written back with what clients read.
OnlySticks(p) == Capabilities[p] \subseteq {"stuck_actuator"}

Commanding(p, raw) == EngineeringToRaw(p, Accepted(p, raw))

\* What a client wrote outside a refresh stays in DB2, clamped to the point's
\* range, cycle after cycle, however often the actuator sticks and comes loose
\* in between: the round trip through the image neither wears the value down
\* nor loses it with the shadow.
CommandsPersist ==
    pc = "sleep" =>
        \A p \in DOMAIN settled \cap Writable :
            OnlySticks(p) => Commanding(p, control[p]) = Commanding(p, settled[p])

\* On the S7 backend, too, a stuck actuator's physical value does not move
\* while it is stuck, although the loop writes DB2 to the image in each cycle.
StuckPlantHolds ==
    [][\A p \in Writable \ Simulated :
          IsStuck(p) /\ IsStuck(p)' => state'[p] = state[p]]_s7vars

\* README, simulation types, static: "values stay at their current or initial
\* state unless a writable point is changed externally".
UncommandedPointsRest ==
    Simulation = "static" =>
        \A p \in Points \ commanded : state[p] = Initial[p]
=============================================================================
