----------------------------- MODULE S7Proofs -----------------------------
(***************************************************************************)
(* Theorems about the S7comm backend, for every device, every interleaving *)
(* of the loop with any number of requests, and every fault.               *)
(***************************************************************************)
EXTENDS S7Backend, ProcessImageProofs

\* The blocks hold 16-bit words, in and between refreshes; a coil write that
\* is under way holds a copy of a byte.
BlocksOK ==
    /\ pc \in {"from", "zero", "fill", "sleep"}
    /\ control \in [ControlPoints -> 0 .. MaxU16]
    /\ process \in [ProcessPoints -> 0 .. MaxU16]
    /\ DOMAIN engineering = Points
HistoryOK ==
    /\ commanded \subseteq Writable
    /\ DOMAIN settled \subseteq ControlPoints
ClientOK ==
    client # Idle =>
        /\ client.point \in Writable \cap Coils
        /\ client.value \in {0, 1}
        /\ client.copy \in [Byte(client.point) -> 0 .. MaxU16]

S7Inv == IInv /\ BlocksOK /\ HistoryOK /\ ClientOK

-----------------------------------------------------------------------------
LEMMA BlockValuesFit ==
    ASSUME IInv, NEW p \in Points
    PROVE  BlockValues(p) \subseteq 0 .. MaxU16 /\ BlockValues(p) \subseteq Int
BY ReadRawFits, S7Assumption DEF BlockValues, Clamp

\* Only noise makes a read random, so at the start there is one value.
LEMMA FirstValueFits ==
    ASSUME Init, NEW p \in Points
    PROVE  FirstValue(p) \in 0 .. MaxU16
<1>1. IInv
  BY InitIInv
<1>2. Exposed(p) # {}
  BY DEF Init, Exposed
<1>3. BlockValues(p) # {}
  BY <1>2 DEF BlockValues, ReadRaw
<1> QED
  BY <1>1, <1>3, BlockValuesFit DEF FirstValue

LEMMA InitS7Inv == S7Init => S7Inv
<1> SUFFICES ASSUME S7Init PROVE S7Inv
  OBVIOUS
<1>1. IInv
  BY InitIInv DEF S7Init
<1>2. BlocksOK
  BY FirstValueFits DEF S7Init, BlocksOK, ControlPoints, ProcessPoints
<1>3. HistoryOK /\ ClientOK
  BY DEF S7Init, HistoryOK, ClientOK
<1> QED
  BY <1>1, <1>2, <1>3 DEF S7Inv

\* sync_from_s7_controls writes words to points.
LEMMA TakeControlsKeepsIInv ==
    ASSUME S7Inv, TakeControls, UNCHANGED <<faults, now>>
    PROVE  IInv'
<1> DEFINE raw == [p \in ControlPoints \cap Writable |-> control[p]]
<1>1. DOMAIN raw \subseteq Points /\ \A p \in DOMAIN raw : raw[p] \in Int
  <2>1. \A p \in ControlPoints : control[p] \in 0 .. MaxU16 /\ p \in Points
    BY DEF S7Inv, BlocksOK, ControlPoints
  <2> QED
    BY <2>1, S7Assumption
<1>2. WriteRawPoints(raw)
  BY DEF TakeControls
<1> HIDE DEF raw
<1> QED
  BY <1>1, <1>2, WriteKeepsIInv DEF S7Inv

LEMMA DbWriteKeepsBlocks ==
    ASSUME S7Inv, NEW written, DOMAIN written \subseteq ControlPoints,
           \A p \in DOMAIN written : written[p] \in 0 .. MaxU16, DbWrite(written)
    PROVE  BlocksOK' /\ DOMAIN settled' \subseteq ControlPoints /\ IInv'
<1>1. BlocksOK'
  BY DEF DbWrite, S7Inv, BlocksOK
<1>2. DOMAIN settled' \subseteq ControlPoints
  BY DEF DbWrite, Restrict, S7Inv, HistoryOK
<1>3. IInv'
  BY DEF DbWrite, vars, S7Inv, IInv, TypeOK, ShadowOnlyWhileStuck, IsStuck, HasFault
<1> QED
  BY <1>1, <1>2, <1>3

LEMMA ClientKeepsS7Inv ==
    ASSUME S7Inv, ClientWriteRegister \/ ClientReadByte \/ ClientWriteByte
    PROVE  S7Inv'
<1>1. CASE ClientWriteRegister
  <2>1. PICK p \in (Writable \cap ControlPoints) \ Coils, raw \in RawValues :
          DbWrite([q \in {p} |-> raw]) /\ commanded' = commanded \cup {p}
    BY <1>1 DEF ClientWriteRegister
  <2>2. BlocksOK' /\ DOMAIN settled' \subseteq ControlPoints /\ IInv'
    BY <2>1, DbWriteKeepsBlocks, S7Assumption
  <2>3. ClientOK'
    BY <1>1 DEF ClientWriteRegister, S7Inv, ClientOK
  <2> QED
    BY <2>1, <2>2, <2>3 DEF S7Inv, HistoryOK
<1>2. CASE ClientReadByte
  <2>1. PICK p \in Writable \cap Coils, value \in {0, 1} :
          client' = [point |-> p, value |-> value,
                     copy |-> [q \in Byte(p) |->
                                IF Address[p] \div 8 = 0 THEN control[q] ELSE 0]]
    BY <1>2 DEF ClientReadByte
  <2>2. [q \in Byte(p) |-> IF Address[p] \div 8 = 0 THEN control[q] ELSE 0]
            \in [Byte(p) -> 0 .. MaxU16]
    <3>1. \A q \in Byte(p) : control[q] \in 0 .. MaxU16
      BY DEF Byte, Coils, ControlPoints, S7Inv, BlocksOK
    <3> QED
      BY <3>1, S7Assumption
  <2>3. ClientOK'
    BY <2>1, <2>2 DEF ClientOK, Byte
  <2> QED
    BY <1>2, <2>3 DEF ClientReadByte, vars, S7Inv, IInv, TypeOK, ShadowOnlyWhileStuck,
                      IsStuck, HasFault, BlocksOK, HistoryOK
<1>3. CASE ClientWriteByte
  <2> DEFINE written == [client.copy EXCEPT ![client.point] = client.value]
  <2>1. /\ client.point \in Writable \cap Coils
        /\ client.value \in {0, 1}
        /\ client.copy \in [Byte(client.point) -> 0 .. MaxU16]
    BY <1>3 DEF ClientWriteByte, S7Inv, ClientOK
  <2>2. DOMAIN written \subseteq ControlPoints /\ \A p \in DOMAIN written : written[p] \in 0 .. MaxU16
    BY <2>1, S7Assumption DEF Byte, Coils, ControlPoints
  <2>3. BlocksOK' /\ DOMAIN settled' \subseteq ControlPoints /\ IInv'
    <3>1. DbWrite(written)
      BY <1>3 DEF ClientWriteByte
    <3> HIDE DEF written
    <3> QED
      BY <2>2, <3>1, DbWriteKeepsBlocks
  <2> QED
    BY <1>3, <2>1, <2>3 DEF ClientWriteByte, S7Inv, HistoryOK, ClientOK
<1> QED
  BY <1>1, <1>2, <1>3

\* Every step of the fault and physics tasks is one of the image.
LEMMA OtherTasksAreTheImages ==
    ASSUME OtherTasks
    PROVE  [Next]_vars /\ UNCHANGED <<pc, control, process, engineering, client,
                                      commanded, settled>>
BY DEF OtherTasks, Next

LEMMA LoopKeepsS7Inv ==
    ASSUME S7Inv, SyncFrom \/ SyncToZero \/ SyncToFill \/ Wake
    PROVE  S7Inv'
<1>1. CASE SyncFrom
  BY <1>1, TakeControlsKeepsIInv
     DEF SyncFrom, S7Inv, BlocksOK, HistoryOK, ClientOK
<1>2. CASE SyncToZero \/ SyncToFill \/ Wake
  <2>1. IInv'
    BY <1>2 DEF SyncToZero, SyncToFill, Wake, vars, S7Inv, IInv, TypeOK,
                ShadowOnlyWhileStuck, IsStuck, HasFault
  <2>2. HistoryOK' /\ ClientOK'
    BY <1>2 DEF SyncToZero, SyncToFill, Wake, S7Inv, HistoryOK, ClientOK
  <2>3. BlocksOK'
    <3>1. CASE SyncToZero
      BY <3>1, S7Assumption DEF SyncToZero, S7Inv, BlocksOK
    <3>2. CASE SyncToFill
      <4>1. PICK values : /\ \A p \in Points : values[p] \in BlockValues(p)
                          /\ Filled(values)
        BY <3>2 DEF SyncToFill
      <4>2. \A p \in Points : values[p] \in 0 .. MaxU16
        BY <4>1, BlockValuesFit DEF S7Inv
      <4> QED
        BY <3>2, <4>1, <4>2 DEF SyncToFill, Filled, BlocksOK, ControlPoints, ProcessPoints
    <3>3. CASE Wake
      BY <3>3 DEF Wake, WakeToControls, S7Inv, BlocksOK
    <3> QED
      BY <1>2, <3>1, <3>2, <3>3
  <2> QED
    BY <2>1, <2>2, <2>3 DEF S7Inv
<1> QED
  BY <1>1, <1>2

LEMMA NextKeepsS7Inv == S7Inv /\ [S7Next]_s7vars => S7Inv'
<1> SUFFICES ASSUME S7Inv, [S7Next]_s7vars PROVE S7Inv'
  OBVIOUS
<1>1. CASE OtherTasks
  BY <1>1, OtherTasksAreTheImages, NextKeepsIInv
     DEF S7Inv, BlocksOK, HistoryOK, ClientOK
<1>2. CASE UNCHANGED s7vars
  BY <1>2 DEF s7vars, vars, S7Inv, IInv, TypeOK, ShadowOnlyWhileStuck, IsStuck, HasFault,
              BlocksOK, HistoryOK, ClientOK
<1> QED
  BY <1>1, <1>2, LoopKeepsS7Inv, ClientKeepsS7Inv DEF S7Next

\* Image, blocks and requests keep their types, and the blocks' words fit, on
\* every interleaving of the loop and the server's clients (protocols/s7comm.py).
THEOREM S7TypeCorrect == S7Spec => []S7TypeOK
<1>1. S7Inv => S7TypeOK
  BY DEF S7Inv, IInv, BlocksOK, HistoryOK, S7TypeOK
<1> QED
  BY <1>1, InitS7Inv, NextKeepsS7Inv, PTL DEF S7Spec

\* However often the loop writes DB2 to the image and the clients write DB2, a
\* stuck actuator does not move (emulator_core.py, sync_from_s7_controls and
\* write_raw_point).
THEOREM StuckPlantsHold == S7Spec => StuckPlantHolds
<1>1. ASSUME S7Inv, [S7Next]_s7vars
      PROVE  [\A p \in Writable \ Simulated :
                IsStuck(p) /\ IsStuck(p)' => state'[p] = state[p]]_s7vars
  <2> SUFFICES ASSUME NEW p \in Writable \ Simulated, IsStuck(p)
               PROVE  state'[p] = state[p]
    OBVIOUS
  <2>1. p \in Points
    BY DeviceAssumption
  <2>2. CASE SyncFrom
    BY <2>1, <2>2 DEF SyncFrom, TakeControls, WriteRawPoints, HeldBack
  <2>3. CASE OtherTasks
    <3>1. UNCHANGED state \/ PhysicsStep
      BY <2>3 DEF OtherTasks, SetFault, ClearFault, Advance
    <3>2. CASE PhysicsStep
      <4>1. PointState(state) /\ state' \in PhysicsTick(state)
        BY <1>1, <3>2 DEF PhysicsStep, PointState, S7Inv, IInv, TypeOK
      <4> QED
        BY <2>1, <4>1, OnlySimulatedMove
    <3> QED
      BY <3>1, <3>2
  <2>4. CASE \/ SyncToZero \/ SyncToFill \/ Wake
             \/ ClientWriteRegister \/ ClientReadByte \/ ClientWriteByte
             \/ UNCHANGED s7vars
    BY <2>4 DEF SyncToZero, SyncToFill, Wake, ClientWriteRegister, ClientReadByte,
                ClientWriteByte, DbWrite, s7vars, vars
  <2> QED
    BY <1>1, <2>2, <2>3, <2>4 DEF S7Next
<1> QED
  BY <1>1, InitS7Inv, NextKeepsS7Inv, PTL DEF S7Spec, StuckPlantHolds
-----------------------------------------------------------------------------
\* Commands persist.  A command is in DB2 while the loop sleeps and until it
\* has been taken; from then until the blocks are filled again it is in the
\* image, in the shadow if the actuator is stuck and in the state if not.

\* A word read back from the block commands what the word commanded that the
\* block was filled for, although the point's range and the block's clamp it.
LEMMA RoundTripKeepsCommand ==
    ASSUME NEW p \in Points, NEW raw \in 0 .. MaxU16, NEW word,
           word = IF IsBool(p) THEN Commanding(p, raw)
                  ELSE Clamp(0, MaxU16, Commanding(p, raw))
    PROVE  Commanding(p, word) = Commanding(p, raw)
<1>1. CASE IsBool(p)
  BY <1>1 DEF Commanding, Accepted, Normalize, EngineeringToRaw, RawToEngineering, Truth
<1>2. CASE ~ IsBool(p) /\ p \notin Clamped
  <2>1. \A v \in 0 .. MaxU16 : Commanding(p, v) = v
    BY <1>2, RoundKeepsUnits, S7Assumption
       DEF Commanding, Accepted, Normalize, EngineeringToRaw, RawToEngineering
  <2> QED
    BY <1>2, <2>1, S7Assumption DEF Clamp
<1>3. CASE ~ IsBool(p) /\ p \in Clamped
  <2> DEFINE lo == Low[p]
             hi == High[p]
             l == RoundHalfEven(lo)
             h == RoundHalfEven(hi)
  <2>1. lo \in Int /\ hi \in Int /\ lo <= hi /\ l \in Int /\ h \in Int /\ l <= h
    BY <1>3, DeviceAssumption, RoundIsNear, RoundKeepsOrder
  <2>2. ASSUME NEW v \in Int
        PROVE  Commanding(p, v) = IF v * Res < lo THEN l ELSE IF v * Res > hi THEN h ELSE v
    BY <1>3, RoundKeepsUnits
       DEF Commanding, Accepted, Normalize, EngineeringToRaw, RawToEngineering, Clamp
  <2>3. ASSUME NEW v \in Int
        PROVE  /\ v * Res \in Int
               /\ v * Res <= lo => v <= l
               /\ lo <= v * Res => l <= v
               /\ v * Res <= hi => v <= h
               /\ hi <= v * Res => h <= v
    BY <2>1, RoundKeepsUnits, RoundKeepsOrder
  <2>4. 0 * Res = 0 /\ MaxU16 \in Int /\ 0 <= raw /\ raw <= MaxU16 /\ raw \in Int
    BY DeviceAssumption, S7Assumption
  <2>5. 0 * Res <= raw * Res /\ raw * Res <= MaxU16 * Res
    BY <2>4, DeviceAssumption
  <2> HIDE DEF lo, hi, l, h
  <2>6. CASE raw * Res < lo
    <3>1. Commanding(p, raw) = l /\ 0 <= l
      BY <2>1, <2>2, <2>3, <2>4, <2>5, <2>6
    <3>2. word = IF l > MaxU16 THEN MaxU16 ELSE l
      BY <1>3, <2>1, <2>4, <3>1 DEF Clamp
    <3>3. CASE l > MaxU16
      <4>1. MaxU16 * Res < lo
        BY <2>1, <2>3, <2>4, <3>3
      <4> QED
        BY <2>2, <2>4, <3>1, <3>2, <3>3, <4>1
    <3>4. CASE l <= MaxU16
      <4>1. word = l
        BY <2>1, <2>4, <3>2, <3>4
      <4>2. l * Res > hi => h = l
        BY <2>1, <2>3
      <4> QED
        BY <2>1, <2>2, <3>1, <4>1, <4>2
    <3> QED
      BY <2>1, <2>4, <3>3, <3>4
  <2>7. CASE raw * Res >= lo /\ raw * Res > hi
    <3>1. Commanding(p, raw) = h /\ h <= MaxU16
      BY <2>1, <2>2, <2>3, <2>4, <2>7
    <3>2. word = IF h < 0 THEN 0 ELSE h
      BY <1>3, <2>1, <2>4, <3>1 DEF Clamp
    <3>3. CASE h < 0
      <4>1. 0 * Res > hi /\ ~ (0 * Res < lo)
        BY <2>1, <2>3, <2>4, <3>3
      <4> QED
        BY <2>2, <2>4, <3>1, <3>2, <3>3, <4>1
    <3>4. CASE h >= 0
      <4>1. word = h
        BY <2>1, <3>2, <3>4
      <4>2. h * Res < lo => l = h
        BY <2>1, <2>3
      <4> QED
        BY <2>1, <2>2, <3>1, <4>1, <4>2
    <3> QED
      BY <2>1, <3>3, <3>4
  <2>8. CASE ~ (raw * Res < lo) /\ ~ (raw * Res > hi)
    <3>1. Commanding(p, raw) = raw
      BY <2>2, <2>4, <2>8
    <3>2. word = raw
      BY <1>3, <2>4, <3>1 DEF Clamp
    <3> QED
      BY <3>2
  <2> QED
    BY <2>1, <2>3, <2>4, <2>6, <2>7, <2>8
<1> QED
  BY <1>1, <1>2, <1>3

Commands == {p \in DOMAIN settled \cap Writable : OnlySticks(p)}

SettledAreWords == \A p \in DOMAIN settled : settled[p] \in 0 .. MaxU16
CommandsInBlock ==
    pc \in {"sleep", "from"} =>
        \A p \in Commands : Commanding(p, control[p]) = Commanding(p, settled[p])
CommandsInImage ==
    pc \in {"zero", "fill"} =>
        \A p \in Commands :
            EngineeringToRaw(p, BaseWith(shadow, p)) = Commanding(p, settled[p])

CommandsKept ==
    /\ FaultsAllowed
    /\ SettledAreWords
    /\ CommandsInBlock
    /\ CommandsInImage

LEMMA SyncFromKeepsCommands ==
    ASSUME S7Inv, CommandsKept, SyncFrom
    PROVE  CommandsKept'
<1> DEFINE raw == [p \in ControlPoints \cap Writable |-> control[p]]
<1>1. WriteRawPoints(raw) /\ pc = "from" /\ pc' = "zero"
      /\ UNCHANGED <<faults, control, settled>>
  BY DEF SyncFrom, TakeControls
<1>2. ASSUME NEW p \in ControlPoints \cap Writable
      PROVE  BaseWith(shadow, p)' = Accepted(p, control[p])
  <2>1. p \in Points /\ p # "uptime"
    BY UptimeAssumption DEF ControlPoints
  <2>2. p \in DOMAIN raw /\ raw[p] = control[p]
    OBVIOUS
  <2> HIDE DEF raw
  <2> QED
    BY <1>1, <2>1, <2>2 DEF WriteRawPoints, HeldBack, BaseWith
<1>3. Commands \subseteq ControlPoints \cap Writable
  BY DEF Commands, S7Inv, HistoryOK
<1>4. CommandsInImage'
  BY <1>1, <1>2, <1>3
  DEF CommandsInImage, CommandsKept, CommandsInBlock, Commands, Commanding, Accepted
<1> QED
  BY <1>1, <1>4 DEF CommandsKept, FaultsAllowed, SettledAreWords, CommandsInBlock

\* A point that can only stick is read as the image has it.
LEMMA StickingPointReads ==
    ASSUME S7Inv, FaultsAllowed, NEW p \in Points, OnlySticks(p)
    PROVE  ReadRaw(p) = {EngineeringToRaw(p, BaseWith(shadow, p))}
<1>1. p \in DOMAIN faults => faults[p].mode = "stuck_actuator"
  BY DEF FaultsAllowed, OnlySticks
<1>2. Exposed(p) = {BaseWith(shadow, p)}
  BY <1>1 DEF Exposed
<1> QED
  BY <1>2 DEF ReadRaw

LEMMA SyncToFillKeepsCommands ==
    ASSUME S7Inv, CommandsKept, SyncToFill
    PROVE  CommandsKept'
<1>1. PICK values : /\ \A p \in Points : values[p] \in BlockValues(p)
                    /\ control' = [p \in ControlPoints |-> values[p]]
  BY DEF SyncToFill, Filled
<1>2. pc = "fill" /\ pc' = "sleep" /\ UNCHANGED <<faults, shadow, settled>>
  BY DEF SyncToFill, vars
<1>3. ASSUME NEW p \in Commands
      PROVE  Commanding(p, control'[p]) = Commanding(p, settled[p])
  <2>1. /\ p \in Points /\ p \in ControlPoints /\ OnlySticks(p)
        /\ settled[p] \in 0 .. MaxU16
    BY DEF Commands, S7Inv, HistoryOK, CommandsKept, SettledAreWords, ControlPoints
  <2>2. ReadRaw(p) = {Commanding(p, settled[p])}
    BY <1>2, <2>1, StickingPointReads DEF CommandsKept, CommandsInImage
  <2>3. control'[p] = IF IsBool(p) THEN Commanding(p, settled[p])
                      ELSE Clamp(0, MaxU16, Commanding(p, settled[p]))
    BY <1>1, <2>1, <2>2 DEF BlockValues
  <2> QED
    BY <2>1, <2>3, RoundTripKeepsCommand
<1>4. CommandsInBlock'
  BY <1>2, <1>3 DEF CommandsInBlock, Commands, OnlySticks, Commanding, Accepted
<1> QED
  BY <1>2, <1>4 DEF CommandsKept, FaultsAllowed, SettledAreWords, CommandsInImage

\* A write is a command, unless the refresh under way would overwrite it.
LEMMA DbWriteKeepsCommands ==
    ASSUME S7Inv, CommandsKept, NEW written, DOMAIN written \subseteq ControlPoints,
           \A p \in DOMAIN written : written[p] \in 0 .. MaxU16, DbWrite(written)
    PROVE  CommandsKept'
<1>1. UNCHANGED <<pc, faults, shadow, state, now>>
  BY DEF DbWrite, vars
<1>2. \A p \in ControlPoints : control'[p] = IF p \in DOMAIN written THEN written[p]
                                             ELSE control[p]
  BY DEF DbWrite
<1>3. DOMAIN settled \subseteq ControlPoints
  BY DEF S7Inv, HistoryOK
<1>4. CASE pc \in {"sleep", "from"}
  <2>1. /\ DOMAIN settled' = DOMAIN settled \cup DOMAIN written
        /\ \A p \in DOMAIN settled' :
              settled'[p] = IF p \in DOMAIN written THEN written[p] ELSE settled[p]
    BY <1>4 DEF DbWrite
  <2>2. SettledAreWords'
    BY <2>1 DEF CommandsKept, SettledAreWords
  <2>3. CommandsInBlock'
    <3> SUFFICES ASSUME NEW p \in Commands'
                 PROVE  Commanding(p, control'[p]) = Commanding(p, settled'[p])
      BY DEF CommandsInBlock, Commanding, Accepted
    <3>1. p \in ControlPoints
      BY <1>3, <2>1 DEF Commands
    <3>2. CASE p \in DOMAIN written
      BY <1>2, <2>1, <3>1, <3>2
    <3>3. CASE p \notin DOMAIN written
      <4>1. p \in Commands /\ settled'[p] = settled[p] /\ control'[p] = control[p]
        BY <1>2, <2>1, <3>1, <3>3 DEF Commands, OnlySticks
      <4> QED
        BY <1>4, <4>1 DEF CommandsKept, CommandsInBlock
    <3> QED
      BY <3>2, <3>3
  <2> QED
    BY <1>1, <1>4, <2>2, <2>3 DEF CommandsKept, FaultsAllowed, CommandsInImage
<1>5. CASE pc \notin {"sleep", "from"}
  <2>1. /\ DOMAIN settled' = DOMAIN settled \ DOMAIN written
        /\ \A p \in DOMAIN settled' : settled'[p] = settled[p]
    BY <1>5 DEF DbWrite, Restrict
  <2>2. SettledAreWords'
    BY <2>1 DEF CommandsKept, SettledAreWords
  <2>3. CommandsInImage'
    BY <1>1, <2>1 DEF CommandsKept, CommandsInImage, Commands, OnlySticks, Commanding,
                      Accepted, BaseWith, Uptime
  <2> QED
    BY <1>1, <1>5, <2>2, <2>3 DEF CommandsKept, FaultsAllowed, CommandsInBlock
<1> QED
  BY <1>4, <1>5

LEMMA ClientKeepsCommands ==
    ASSUME S7Inv, CommandsKept, ClientWriteRegister \/ ClientReadByte \/ ClientWriteByte
    PROVE  CommandsKept'
<1>1. CASE ClientWriteRegister
  <2>1. PICK p \in (Writable \cap ControlPoints) \ Coils, raw \in RawValues :
          DbWrite([q \in {p} |-> raw])
    BY <1>1 DEF ClientWriteRegister
  <2> QED
    BY <2>1, DbWriteKeepsCommands, S7Assumption
<1>2. CASE ClientReadByte
  BY <1>2 DEF ClientReadByte, vars, CommandsKept, FaultsAllowed, SettledAreWords,
              CommandsInBlock, CommandsInImage, Commands, OnlySticks, Commanding,
              Accepted, BaseWith, Uptime
<1>3. CASE ClientWriteByte
  <2> DEFINE written == [client.copy EXCEPT ![client.point] = client.value]
  <2>1. DbWrite(written)
    BY <1>3 DEF ClientWriteByte
  <2>2. /\ DOMAIN written \subseteq ControlPoints
        /\ \A p \in DOMAIN written : written[p] \in 0 .. MaxU16
    BY <1>3, S7Assumption DEF ClientWriteByte, S7Inv, ClientOK, Byte, Coils, ControlPoints
  <2> HIDE DEF written
  <2> QED
    BY <2>1, <2>2, DbWriteKeepsCommands
<1> QED
  BY <1>1, <1>2, <1>3

\* Whatever sticks, comes loose or moves while the loop sleeps, DB2 still holds
\* the commands.
LEMMA OtherTasksKeepCommands ==
    ASSUME S7Inv, CommandsKept, OtherTasks
    PROVE  CommandsKept'
<1>1. pc = "sleep" /\ UNCHANGED <<pc, control, settled>>
  BY DEF OtherTasks
<1>2. FaultsAllowed'
  BY OtherTasksAreTheImages, NextKeepsFaultsAllowed DEF CommandsKept
<1>3. CommandsInBlock' /\ SettledAreWords' /\ CommandsInImage'
  BY <1>1 DEF CommandsKept, CommandsInBlock, SettledAreWords, CommandsInImage, Commands,
              OnlySticks, Commanding, Accepted
<1> QED
  BY <1>2, <1>3 DEF CommandsKept

LEMMA NextKeepsCommands == S7Inv /\ CommandsKept /\ [S7Next]_s7vars => CommandsKept'
<1> SUFFICES ASSUME S7Inv, CommandsKept, [S7Next]_s7vars PROVE CommandsKept'
  OBVIOUS
<1>1. CASE SyncToZero \/ Wake \/ UNCHANGED s7vars
  BY <1>1 DEF SyncToZero, Wake, WakeToControls, s7vars, vars, CommandsKept, FaultsAllowed,
              SettledAreWords, CommandsInBlock, CommandsInImage, Commands, OnlySticks,
              Commanding, Accepted, BaseWith, Uptime
<1> QED
  BY <1>1, SyncFromKeepsCommands, SyncToFillKeepsCommands, ClientKeepsCommands,
     OtherTasksKeepCommands DEF S7Next

\* On every interleaving of the refresh, the clients' writes, the faults and
\* the physics, DB2 goes on commanding what was last written to it outside a
\* refresh (protocols/s7comm.py, sync_from_s7_controls and sync_to_s7).
THEOREM CommandsArePersistent == S7Spec => []CommandsPersist
<1>1. S7Init => CommandsKept
  BY DEF S7Init, Init, CommandsKept, FaultsAllowed, SettledAreWords, CommandsInBlock,
         CommandsInImage, Commands
<1>2. CommandsKept => CommandsPersist
  BY DEF CommandsKept, CommandsInBlock, Commands, CommandsPersist
<1> QED
  BY <1>1, <1>2, InitS7Inv, NextKeepsS7Inv, NextKeepsCommands, PTL DEF S7Spec
=============================================================================
