-------------------------------- MODULE Fins --------------------------------
(***************************************************************************)
(* The FINS/UDP backend (protocols/fins.py): memory reads and writes of    *)
(* the peers, and the loop that pushes read-only telemetry to the last     *)
(* peer when it changed.  Datagrams and loop ticks run on one event loop   *)
(* without a pause, so each is one step.  Time is counted in ticks of the  *)
(* loop (half a second), apart from the clock that drift and uptime are    *)
(* computed from.  Framing and SIDs are left out.                          *)
(***************************************************************************)
EXTENDS ProcessImage

CONSTANTS
    Peers,          \* addresses datagrams come from
    NoPeer,         \* last_peer before the first datagram
    Interval,       \* fins_unsolicited_interval, in ticks
    MaxU16          \* 65535, the largest word struct.pack takes

ASSUME FinsAssumption == NoPeer \notin Peers /\ Interval \in Nat \ {0}

VARIABLES
    lastPeer,       \* last_peer
    wait,           \* ticks until next_unsolicited_due
    unsolicited,    \* unsolicited_state: the telemetry of the last push
    pending,        \* pending_unsolicited
    loop,           \* "running", or "dead" after an exception
    pushed,         \* history: what each peer was sent last
    told,           \* history: the peer the last push went to
    steady          \* history: what read the same all through the last push

history == <<pushed, told, steady>>
finsVars == <<vars, lastPeer, wait, unsolicited, pending, loop, history>>

Telemetry == {p \in Points : Kind[p] \in {"discrete_input", "input_register"}}
WatchedWords == {p \in Points : Kind[p] = "input_register"} \* Mutant: no bits
Watched == Telemetry

\* raw_state: one read of every point of S.
RawStates(S) ==
    {r \in [S -> UNION {ReadRaw(p) : p \in S}] : \A p \in S : r[p] \in ReadRaw(p)}

\* The same while the clock goes on: each point is read sooner or later.
LaterRawStates(S) ==
    LET readings(p) == ReadRaw(p) \cup ReadRaw(p)'
    IN  {r \in [S -> UNION {readings(p) : p \in S}] : \A p \in S : r[p] \in readings(p)}

\* What no fault and no clock moves between two reads.
Steady == {p \in Telemetry \ {"uptime"} : ~ HasFault(p, "noise") /\ ~ HasFault(p, "drift")}

\* What struct.pack and bytes can encode.
Encodable(r) == \A p \in DOMAIN r : r[p] \in 0 .. MaxU16

Sooner(n, m) == IF n < m THEN n ELSE m

-----------------------------------------------------------------------------
\* datagram_received: whatever a well-formed frame asks for, its sender
\* becomes last_peer; the first one brings the next push within 0.2 s.
RegisterPeer(q) ==
    /\ lastPeer' = q
    /\ wait' \in IF lastPeer = NoPeer THEN {Sooner(wait, 1), Sooner(wait, 2)}
                 ELSE {wait}
    /\ UNCHANGED <<unsolicited, pending, loop, history>>

MemoryRead(q) ==
    /\ RegisterPeer(q)
    /\ UNCHANGED vars

\* _write_bits and _write_words: consecutive coils or holding registers, what
\* is no writable point skipped, which is what apply_modbus_write does.
WriteItems == ModbusWrite

MemoryWrite(q) ==
    /\ RegisterPeer(q)
    /\ WriteItems

\* An unsupported command, an unknown or read-only area, a bad count or
\* length: an end code, or no answer, and nothing else.
Reject(q) ==
    /\ RegisterPeer(q)
    /\ UNCHANGED vars

-----------------------------------------------------------------------------
\* unsolicited_loop, after each sleep.
Remaining == IF wait = 0 THEN 0 ELSE wait - 1
Due == Remaining = 0
PendingNow(current) == pending \/ current # unsolicited

WaitForPeer ==
    /\ lastPeer = NoPeer
    /\ wait' = Remaining
    /\ UNCHANGED <<unsolicited, pending, loop, history>>

WaitForDue(current) ==
    /\ ~ Due
    /\ pending' = PendingNow(current)
    /\ wait' = Remaining
    /\ UNCHANGED <<unsolicited, loop, history>>

NothingNew(current) ==
    /\ Due /\ ~ PendingNow(current)
    /\ wait' = Interval
    /\ UNCHANGED <<unsolicited, pending, loop, history>>

\* unsolicited_packets reads every point again, and sends these readings; the
\* loop remembers the others.
Push(current, sent) ==
    /\ Due /\ PendingNow(current)
    /\ Encodable(sent)
    /\ pushed' = [pushed EXCEPT ![lastPeer] = sent]
    /\ told' = lastPeer /\ steady' = Steady
    /\ unsolicited' = current
    /\ pending' = FALSE
    /\ wait' = Interval
    /\ UNCHANGED loop

\* struct.error ends the task; no packet has been sent.
PushFails(current, sent) ==
    /\ Due /\ PendingNow(current)
    /\ ~ Encodable(sent)
    /\ pending' = TRUE
    /\ loop' = "dead"
    /\ UNCHANGED <<wait, unsolicited, history>>

LoopTick ==
    /\ loop = "running"
    /\ UNCHANGED vars \/ Advance
    /\ \/ WaitForPeer
       \/ /\ lastPeer # NoPeer
          /\ \E current \in RawStates(Watched) :
                \/ WaitForDue(current)
                \/ NothingNew(current)
                \/ \E sent \in LaterRawStates(Telemetry) :
                      Push(current, sent) \/ PushFails(current, sent)
    /\ UNCHANGED lastPeer

\* The physics and fault control tasks.
OtherTasks ==
    /\ \/ \E p \in Points, mode \in FaultModes, rate \in DriftRates,
             amplitude \in Amplitudes : SetFault(p, mode, rate, amplitude)
       \/ \E p \in DOMAIN faults : ClearFault(p)
       \/ PhysicsStep
       \/ Advance
    /\ UNCHANGED <<lastPeer, wait, unsolicited, pending, loop, history>>

-----------------------------------------------------------------------------
FinsInit ==
    /\ Init
    /\ lastPeer = NoPeer /\ told = NoPeer
    /\ wait = Interval
    /\ unsolicited \in RawStates(Watched)
    /\ pending = FALSE
    /\ loop = "running"
    /\ pushed = [q \in Peers |-> <<>>] /\ steady = {}

FinsNext ==
    \/ \E q \in Peers : MemoryRead(q) \/ MemoryWrite(q) \/ Reject(q)
    \/ LoopTick
    \/ OtherTasks

FinsSpec == FinsInit /\ [][FinsNext]_finsVars

\* The loop sleeps and runs for as long as the backend serves.
FairFinsSpec == FinsSpec /\ WF_finsVars(LoopTick)

-----------------------------------------------------------------------------
\* Types, and a loop whose only ways are those of unsolicited_loop.
FinsTypeOK ==
    /\ TypeOK
    /\ lastPeer \in Peers \cup {NoPeer}
    /\ wait \in 0 .. Interval
    /\ unsolicited \in [Telemetry -> Int]
    /\ pending \in BOOLEAN
    /\ loop \in {"running", "dead"}
    /\ \A q \in Peers : pushed[q] = <<>> \/ pushed[q] \in [Telemetry -> 0 .. MaxU16]
    /\ steady \subseteq Telemetry

\* When the loop sees nothing new, the peer it served last was sent what the
\* points read now: no change of telemetry slips between the comparison, the
\* push, which reads the points again, and the state the loop remembers.
\* README, fault injection, on a cleared fault: "observe the reported `level`
\* jump back to the real process state".  A point that was noisy or drifting at
\* the push is excepted: of it the loop may remember what it did not send.
NothingMissed ==
    ~ pending /\ told \in Peers /\ unsolicited \in RawStates(Watched)
        => \A p \in steady : pushed[told][p] \in ReadRaw(p)

\* q was last sent what the points read, as far as a push is sure to send it.
UpToDate(q) ==
    pushed[q] # <<>> /\ \A p \in steady : pushed[q][p] \in ReadRaw(p)

\* While the loop runs, a peer that stays the last peer and has been served is
\* up to date again and again with what was neither noisy nor drifting at its
\* last push, however the process moves, whatever the other peer was told before
\* and whatever this one asks for.
TelemetryReachesThePeer ==
    \A q \in Peers :
        <>[](lastPeer = q /\ told = q /\ loop = "running") => []<>UpToDate(q)

\* README, FINS backend scope: "the emulator sends periodic unsolicited 0102
\* memory writes for read-only telemetry to the last peer", whatever a device
\* that is served happens to read.
TelemetryGoesOn ==
    \A q \in Peers : <>[](lastPeer = q /\ told = q) => []<>UpToDate(q)
=============================================================================
