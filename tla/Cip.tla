-------------------------------- MODULE Cip --------------------------------
(***************************************************************************)
(* The EtherNet/IP backend (protocols/cip.py): sessions over TCP, explicit *)
(* writes to the image, the one implicit connection a Forward Open makes   *)
(* and the task that pushes the input assembly to its originator.  The     *)
(* requests and the task share an event loop and pause only between        *)
(* requests and pushes, so each is one step.  Time is counted in ticks of  *)
(* the task (5 ms).  Encapsulation, identity and paths are left out.       *)
(***************************************************************************)
EXTENDS ProcessImage

CONSTANTS
    Clients,        \* hosts that connect
    Serials,        \* connection serial numbers originators use
    NoConnection,   \* active_connection = None
    Rpi,            \* requested packet interval, in ticks
    MaxHandles,     \* bound: sessions registered
    SeqWrap,        \* 2^16: sequence numbers
    MaxU16          \* 65535, the largest word struct.pack_into takes

ASSUME CipAssumption ==
    /\ {Rpi, SeqWrap} \subseteq Nat \ {0}
    /\ 0 \notin Serials
    /\ NoConnection \notin [session : Nat, originator : Clients, serial : Serials]

VARIABLES
    connected,      \* the clients with an open TCP connection
    sessions,       \* the registered handles
    nextHandle,     \* next_session_handle
    active,         \* active_connection: its session, originator and serial
    sequence, wait, \* of the active connection; ticks until next_due
    producer,       \* "running", or "dead" after an exception
    wanted          \* history: [sessions -> serial, or 0]: what was opened under
                    \* the session, unless a frame of that session or another
                    \* session's Forward Open has ended it

connVars == <<active, sequence, wait, wanted>>
sessionVars == <<connected, sessions, nextHandle>>
cipVars == <<vars, connVars, sessionVars, producer>>

Registers == {p \in Points : Kind[p] = "holding_register"}
ControlPoints == {p \in Points : Kind[p] = "coil"} \cup Registers
Inputs == Points \ ControlPoints

\* A frame carries the handle it acts under.  The server asks only that it is
\* registered, not by whom (EnipSession.peer is never read), and handles count
\* up from 1: any peer may send any of them.
HasSession(c, h) == c \in connected /\ h \in sessions

-----------------------------------------------------------------------------
Connect(c) ==
    /\ c \notin connected
    /\ connected' = connected \cup {c}
    /\ UNCHANGED <<vars, connVars, sessions, nextHandle, producer>>

RegisterSession(c) ==
    /\ c \in connected
    /\ nextHandle <= MaxHandles
    /\ sessions' = sessions \cup {nextHandle}
    /\ wanted' = With(wanted, nextHandle, 0)
    /\ nextHandle' = nextHandle + 1
    /\ UNCHANGED <<vars, active, sequence, wait, connected, producer>>

\* Unregistering a session closes the implicit connection it opened ...
ActiveKept(h) == active                     \* Mutant: ... but leaves it open
ActiveWithout(h) ==
    IF active # NoConnection /\ active.session = h THEN NoConnection ELSE active

\* ... and leaves the TCP connection open: the answer None skips the break.
UnregisterSession(c, h) ==
    /\ HasSession(c, h)
    /\ sessions' = sessions \ {h}
    /\ active' = ActiveWithout(h)
    /\ wanted' = Without(wanted, h)
    /\ UNCHANGED <<vars, connected, nextHandle, sequence, wait, producer>>

\* The client leaves, or a request of its raised an exception: the server
\* closes the socket and keeps the session and the connection.
Close(c) ==
    /\ c \in connected
    /\ connected' = connected \ {c}
    /\ UNCHANGED <<connVars, sessions, nextHandle, producer>>

Disconnect(c) == Close(c) /\ UNCHANGED vars

-----------------------------------------------------------------------------
\* set_point_attribute: one writable point.
SetPoint(c, h) ==
    /\ HasSession(c, h)
    /\ \E p \in Writable, raw \in RawValues : WriteRawPoints([q \in {p} |-> raw])
    /\ UNCHANGED <<faults, now, connVars, sessionVars, producer>>

\* set_assembly_attribute: every writable coil and holding register at once.
SetAssembly(c, h) ==
    /\ HasSession(c, h)
    /\ \E raw \in [ControlPoints \cap Writable -> RawValues] : WriteRawPoints(raw)
    /\ UNCHANGED <<faults, now, connVars, sessionVars, producer>>

\* The length that is asked of the payload counts the registers, and each is
\* read at its address.  One beyond the count may lie outside the payload:
\* struct.error, with the coils and the registers before it written.
SetAssemblyRaises(c, h) ==
    /\ HasSession(c, h)
    /\ \E p \in {q \in Registers : Address[q] >= Cardinality(Registers)} :
          LET before == {q \in ControlPoints : q \in Registers => Address[q] < Address[p]}
          IN  \E raw \in [before \cap Writable -> RawValues] : WriteRawPoints(raw)
    /\ Close(c)
    /\ UNCHANGED <<faults, now>>

\* There is one implicit connection: a Forward Open replaces it.  Its packets go
\* to the peer that sent the frame.
ForwardOpen(c, h, serial) ==
    /\ HasSession(c, h)
    /\ active' = [session |-> h, originator |-> c, serial |-> serial]
    /\ sequence' = 0
    /\ wait' = 0
    /\ wanted' = [k \in sessions |-> IF k = h THEN serial ELSE 0]
    /\ UNCHANGED <<vars, sessionVars, producer>>

\* Forward Close names the connection by the session in the frame and by the
\* originator's serial.
MatchesAnySession(h, serial) == active.serial = serial      \* Mutant
MatchesAnySerial(h, serial) == active.session = h           \* Mutant
Matches(h, serial) == active.session = h /\ active.serial = serial

\* One that matches no connection is answered with a conflict.
ForwardClose(c, h, serial) ==
    /\ HasSession(c, h)
    /\ active' = IF active # NoConnection /\ Matches(h, serial)
                 THEN NoConnection ELSE active
    /\ wanted' = [wanted EXCEPT ![h] = IF @ = serial THEN 0 ELSE @]
    /\ UNCHANGED <<vars, sessionVars, sequence, wait, producer>>

-----------------------------------------------------------------------------
\* produced_udp_payload packs every input, as clients read it.
Assemblies ==
    {r \in [Inputs -> UNION {ReadRaw(p) : p \in Inputs}] :
        \A p \in Inputs : r[p] \in ReadRaw(p)}
Encodable(r) == \A p \in DOMAIN r : r[p] \in 0 .. MaxU16

NextSequence == (sequence + 1) % SeqWrap

Await ==
    /\ active # NoConnection
    /\ wait > 0
    /\ wait' = wait - 1
    /\ UNCHANGED <<vars, sessionVars, active, sequence, wanted, producer>>

Produce(c) ==
    /\ active # NoConnection /\ active.originator = c
    /\ wait = 0
    /\ producer = "running"
    /\ \E r \in Assemblies : Encodable(r)
    /\ sequence' = NextSequence
    /\ wait' = Rpi
    /\ UNCHANGED <<vars, sessionVars, active, wanted, producer>>

\* struct.error: nothing restarts the task.
ProducerDies ==
    /\ active # NoConnection
    /\ wait = 0
    /\ producer = "running"
    /\ \E r \in Assemblies : ~ Encodable(r)
    /\ producer' = "dead"
    /\ UNCHANGED <<vars, sessionVars, connVars>>

\* A turn of _udp_producer_loop that has a connection.
ProducerTick == Await \/ (\E c \in Clients : Produce(c)) \/ ProducerDies

\* The physics and fault control tasks.
OtherTasks ==
    /\ \/ \E p \in Points, mode \in FaultModes, rate \in DriftRates,
             amplitude \in Amplitudes : SetFault(p, mode, rate, amplitude)
       \/ \E p \in DOMAIN faults : ClearFault(p)
       \/ PhysicsStep
       \/ Advance
    /\ UNCHANGED <<connVars, sessionVars, producer>>

-----------------------------------------------------------------------------
CipInit ==
    /\ Init
    /\ connected = {} /\ sessions = {}
    /\ nextHandle = 1
    /\ active = NoConnection
    /\ sequence = 0 /\ wait = 0
    /\ producer = "running"
    /\ wanted = <<>>

ExplicitRequest(c, h) ==
    \/ SetPoint(c, h)
    \/ SetAssembly(c, h)
    \/ SetAssemblyRaises(c, h)
    \/ \E serial \in Serials : ForwardOpen(c, h, serial) \/ ForwardClose(c, h, serial)

CipNext ==
    \/ \E c \in Clients : \/ Connect(c)
                          \/ RegisterSession(c)
                          \/ Disconnect(c)
                          \/ \E h \in sessions : \/ UnregisterSession(c, h)
                                                 \/ ExplicitRequest(c, h)
    \/ ProducerTick
    \/ OtherTasks

CipSpec == CipInit /\ [][CipNext]_cipVars

\* The task runs for as long as the backend serves.
FairCipSpec == CipSpec /\ WF_cipVars(ProducerTick)

-----------------------------------------------------------------------------
\* Types; handles are never handed out twice, sequence numbers are 16 bits.
CipTypeOK ==
    /\ TypeOK
    /\ connected \subseteq Clients
    /\ sessions \subseteq 1 .. nextHandle - 1
    /\ wanted \in [sessions -> Serials \cup {0}]
    /\ active = NoConnection
         \/ active \in [session : Nat, originator : Clients, serial : Serials]
    /\ sequence \in 0 .. SeqWrap - 1
    /\ wait \in 0 .. Rpi
    /\ producer \in {"running", "dead"}

\* The implicit connection never outlives the session it was opened under
\* (_unregister_session), whatever was registered, opened, replaced or left
\* in between.
ConnectionHasItsSession == active # NoConnection => active.session \in sessions

\* A connection ends only under its own session: no Forward Close or Unregister
\* under another one, with the same serial number or after a replaced connection
\* of that session, takes it down (_forward_close).  Who sends the frame is not
\* checked: any peer that names the session and the serial ends the connection.
OnlyItsSessionCloses ==
    [][active # NoConnection /\ active' = NoConnection /\ active.session \in sessions'
         => wanted'[active.session] # active.serial]_cipVars

\* While its task runs, a connection that is opened, and that neither a frame of
\* its session gives up nor another session's Forward Open replaces, is pushed to
\* again and again, whatever became of the connections before it and of the peer.
\* README, CIP backend scope: "after a successful Forward Open, the emulator
\* pushes the current produced assembly to the originator".
OpenedIsServed ==
    \A h \in 1 .. MaxHandles :
        <>[](h \in sessions /\ wanted[h] # 0 /\ producer = "running")
            => []<><<\E c \in Clients : Produce(c) /\ active.session = h>>_cipVars
=============================================================================
