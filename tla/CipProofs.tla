----------------------------- MODULE CipProofs -----------------------------
(***************************************************************************)
(* Theorems about the EtherNet/IP backend, for every device, any number of *)
(* clients and sessions, and every order of their requests.                *)
(***************************************************************************)
EXTENDS Cip, ProcessImageProofs

\* Handles count up, and the session of the implicit connection is a registered
\* one, under which the history knows what was opened.
SessionsOK ==
    /\ connected \subseteq Clients
    /\ nextHandle \in Nat \ {0}
    /\ sessions \subseteq 1 .. nextHandle - 1
    /\ wanted \in [sessions -> Serials \cup {0}]
ActiveOK ==
    active # NoConnection =>
        /\ active \in [session : Nat, originator : Clients, serial : Serials]
        /\ active.session \in sessions
ProducerOK ==
    /\ sequence \in 0 .. SeqWrap - 1
    /\ wait \in 0 .. Rpi
    /\ producer \in {"running", "dead"}

ConnInv == SessionsOK /\ ActiveOK /\ ProducerOK

-----------------------------------------------------------------------------
LEMMA InitConnInv == CipInit => IInv /\ ConnInv
<1> SUFFICES ASSUME CipInit PROVE IInv /\ ConnInv
  OBVIOUS
<1>1. IInv
  BY InitIInv DEF CipInit
<1> QED
  BY <1>1, CipAssumption DEF CipInit, ConnInv, SessionsOK, ActiveOK, ProducerOK

LEMMA CloseKeepsConnInv ==
    ASSUME ConnInv, NEW c \in Clients, Close(c)
    PROVE  ConnInv'
  BY DEF Close, connVars, ConnInv, SessionsOK, ActiveOK, ProducerOK

LEMMA UnregisterKeepsConnInv ==
    ASSUME ConnInv, NEW c \in Clients, NEW h \in sessions, UnregisterSession(c, h)
    PROVE  ConnInv'
<1>1. /\ sessions' = sessions \ {h}
      /\ active' = IF active # NoConnection /\ active.session = h
                   THEN NoConnection ELSE active
      /\ UNCHANGED <<connected, nextHandle, sequence, wait, producer>>
  BY DEF UnregisterSession, ActiveWithout
<1>2. wanted' \in [sessions' -> Serials \cup {0}]
  BY <1>1 DEF UnregisterSession, Without, Restrict, ConnInv, SessionsOK
<1>3. SessionsOK' /\ ActiveOK'
  BY <1>1, <1>2 DEF ConnInv, SessionsOK, ActiveOK
<1> QED
  BY <1>1, <1>3 DEF ConnInv, ProducerOK

LEMMA SessionStepsKeepConnInv ==
    ASSUME ConnInv, NEW c \in Clients,
           Connect(c) \/ RegisterSession(c) \/ Disconnect(c)
    PROVE  ConnInv'
<1>1. CASE Connect(c)
  BY <1>1 DEF Connect, connVars, ConnInv, SessionsOK, ActiveOK, ProducerOK
<1>2. CASE RegisterSession(c)
  <2>1. /\ sessions' = sessions \cup {nextHandle} /\ nextHandle' = nextHandle + 1
        /\ wanted' = With(wanted, nextHandle, 0)
        /\ UNCHANGED <<connected, active, sequence, wait, producer>>
    BY <1>2 DEF RegisterSession
  <2>2. wanted' \in [sessions' -> Serials \cup {0}]
    BY <2>1 DEF With, ConnInv, SessionsOK
  <2>3. SessionsOK' /\ ActiveOK'
    BY <2>1, <2>2 DEF ConnInv, SessionsOK, ActiveOK
  <2> QED
    BY <2>1, <2>3 DEF ConnInv, ProducerOK
<1>3. CASE Disconnect(c)
  BY <1>3, CloseKeepsConnInv DEF Disconnect
<1> QED
  BY <1>1, <1>2, <1>3

LEMMA RequestsKeepConnInv ==
    ASSUME ConnInv, NEW c \in Clients, NEW h \in sessions, ExplicitRequest(c, h)
    PROVE  ConnInv'
<1>1. CASE SetPoint(c, h) \/ SetAssembly(c, h)
  BY <1>1 DEF SetPoint, SetAssembly, connVars, sessionVars, ConnInv, SessionsOK, ActiveOK,
              ProducerOK
<1>2. CASE SetAssemblyRaises(c, h)
  BY <1>2, CloseKeepsConnInv DEF SetAssemblyRaises
<1>3. ASSUME NEW serial \in Serials, ForwardOpen(c, h, serial)
      PROVE  ConnInv'
  <2>1. /\ active' = [session |-> h, originator |-> c, serial |-> serial]
        /\ sequence' = 0 /\ wait' = 0
        /\ wanted' \in [sessions -> Serials \cup {0}]
        /\ UNCHANGED <<connected, sessions, nextHandle, producer>>
    BY <1>3 DEF ForwardOpen, sessionVars
  <2>2. SessionsOK' /\ ActiveOK'
    BY <2>1 DEF ConnInv, SessionsOK, ActiveOK
  <2> QED
    BY <2>1, <2>2, CipAssumption DEF ConnInv, ProducerOK
<1>4. ASSUME NEW serial \in Serials, ForwardClose(c, h, serial)
      PROVE  ConnInv'
  BY <1>4 DEF ForwardClose, sessionVars, ConnInv, SessionsOK, ActiveOK, ProducerOK
<1> QED
  BY <1>1, <1>2, <1>3, <1>4 DEF ExplicitRequest

LEMMA ProducerKeepsConnInv ==
    ASSUME ConnInv, ProducerTick
    PROVE  ConnInv'
<1>1. UNCHANGED <<connected, sessions, nextHandle, active, wanted>>
  BY DEF ProducerTick, Await, Produce, ProducerDies, sessionVars, connVars
<1>2. ProducerOK'
  <2>1. CASE Await
    BY <2>1, CipAssumption DEF Await, ConnInv, ProducerOK
  <2>2. ASSUME NEW c \in Clients, Produce(c)
        PROVE  ProducerOK'
    <3>1. (sequence + 1) % SeqWrap \in 0 .. SeqWrap - 1
      BY CipAssumption DEF ConnInv, ProducerOK
    <3> QED
      BY <2>2, <3>1, CipAssumption DEF Produce, NextSequence, ConnInv, ProducerOK
  <2>3. CASE ProducerDies
    BY <2>3 DEF ProducerDies, connVars, ConnInv, ProducerOK
  <2> QED
    BY <2>1, <2>2, <2>3 DEF ProducerTick
<1> QED
  BY <1>1, <1>2 DEF ConnInv, SessionsOK, ActiveOK

LEMMA NextKeepsConnInv == ConnInv /\ [CipNext]_cipVars => ConnInv'
<1> SUFFICES ASSUME ConnInv, [CipNext]_cipVars PROVE ConnInv'
  OBVIOUS
<1>1. CASE OtherTasks \/ UNCHANGED cipVars
  BY <1>1 DEF OtherTasks, cipVars, connVars, sessionVars, ConnInv, SessionsOK, ActiveOK,
              ProducerOK
<1> QED
  BY <1>1, SessionStepsKeepConnInv, UnregisterKeepsConnInv, RequestsKeepConnInv,
     ProducerKeepsConnInv DEF CipNext

\* Explicit writes are writes of words to points; all else is the image's own.
LEMMA NextKeepsImage == IInv /\ [CipNext]_cipVars => IInv'
<1> SUFFICES ASSUME IInv, [CipNext]_cipVars PROVE IInv'
  OBVIOUS
<1>1. CASE \E c \in Clients, h \in sessions : SetPoint(c, h)
  <2>1. PICK p \in Writable, raw \in RawValues :
          WriteRawPoints([q \in {p} |-> raw]) /\ UNCHANGED <<faults, now>>
    BY <1>1 DEF SetPoint
  <2>2. /\ DOMAIN [q \in {p} |-> raw] \subseteq Points
        /\ \A q \in {p} : [r \in {p} |-> raw][q] \in Int
    BY DeviceAssumption, ImageAssumption
  <2> QED
    BY <2>1, <2>2, WriteKeepsIInv
<1>2. CASE \E c \in Clients, h \in sessions : SetAssembly(c, h)
  <2>1. PICK raw \in [ControlPoints \cap Writable -> RawValues] :
          WriteRawPoints(raw) /\ UNCHANGED <<faults, now>>
    BY <1>2 DEF SetAssembly
  <2>2. DOMAIN raw \subseteq Points /\ \A q \in DOMAIN raw : raw[q] \in Int
    BY DeviceAssumption, ImageAssumption DEF ControlPoints
  <2> QED
    BY <2>1, <2>2, WriteKeepsIInv
<1>3. CASE \E c \in Clients, h \in sessions : SetAssemblyRaises(c, h)
  <2>1. PICK S \in SUBSET Writable :
          \E raw \in [S -> RawValues] : WriteRawPoints(raw) /\ UNCHANGED <<faults, now>>
    BY <1>3 DEF SetAssemblyRaises
  <2> PICK raw \in [S -> RawValues] : WriteRawPoints(raw) /\ UNCHANGED <<faults, now>>
    BY <2>1
  <2>2. DOMAIN raw \subseteq Points /\ \A q \in DOMAIN raw : raw[q] \in Int
    BY DeviceAssumption, ImageAssumption
  <2> QED
    BY <2>2, WriteKeepsIInv
<1>4. CASE OtherTasks
  <2>1. [Next]_vars
    <3>1. ASSUME NEW p \in DOMAIN faults, ClearFault(p)
          PROVE  Next
      BY <3>1 DEF Next, IInv, TypeOK
    <3> QED
      BY <1>4, <3>1 DEF OtherTasks, Next
  <2> QED
    BY <2>1, NextKeepsIInv
<1>5. CASE \/ \E c \in Clients :
                \/ Connect(c) \/ RegisterSession(c) \/ Disconnect(c)
                \/ \E h \in sessions :
                      \/ UnregisterSession(c, h)
                      \/ \E serial \in Serials :
                            ForwardOpen(c, h, serial) \/ ForwardClose(c, h, serial)
           \/ ProducerTick \/ UNCHANGED cipVars
  <2>1. UNCHANGED vars
    BY <1>5 DEF Connect, RegisterSession, UnregisterSession, Disconnect, Close, ForwardOpen,
                ForwardClose, ProducerTick, Await, Produce, ProducerDies, cipVars
  <2> QED
    BY <2>1, NextKeepsIInv
<1> QED
  BY <1>1, <1>2, <1>3, <1>4, <1>5 DEF CipNext, ExplicitRequest

\* Image, sessions and connection keep their types; sequence numbers wrap at 16
\* bits (protocols/cip.py).
THEOREM CipTypeCorrect == CipSpec => []CipTypeOK
<1>1. IInv /\ ConnInv => CipTypeOK
  BY DEF IInv, ConnInv, SessionsOK, ActiveOK, ProducerOK, CipTypeOK
<1> QED
  BY <1>1, InitConnInv, NextKeepsConnInv, NextKeepsImage, PTL DEF CipSpec

\* The implicit connection does not outlive its session (protocols/cip.py,
\* _unregister_session).
THEOREM ConnectionsHaveSessions == CipSpec => []ConnectionHasItsSession
<1>1. ConnInv => ConnectionHasItsSession
  BY DEF ConnInv, ActiveOK, ConnectionHasItsSession
<1> QED
  BY <1>1, InitConnInv, NextKeepsConnInv, PTL DEF CipSpec

\* Whatever takes the implicit connection down is a frame of its own session that
\* means this connection, whoever sends it (protocols/cip.py, _forward_close and
\* _unregister_session).
THEOREM ConnectionsEndUnderTheirSession == CipSpec => OnlyItsSessionCloses
<1>1. ASSUME ConnInv, [CipNext]_cipVars
      PROVE  [active # NoConnection /\ active' = NoConnection /\ active.session \in sessions'
                => wanted'[active.session] # active.serial]_cipVars
  <2> SUFFICES ASSUME active # NoConnection, active' = NoConnection,
                      active.session \in sessions'
               PROVE  wanted'[active.session] # active.serial
    OBVIOUS
  <2>1. active.serial \in Serials /\ active.session \in sessions
    BY <1>1 DEF ConnInv, ActiveOK
  <2>2. ASSUME NEW c \in Clients, NEW h \in sessions, UnregisterSession(c, h)
        PROVE  FALSE
    BY <2>2 DEF UnregisterSession, ActiveWithout
  <2>3. ASSUME NEW c \in Clients, NEW h \in sessions, NEW serial \in Serials,
               ForwardClose(c, h, serial)
        PROVE  wanted'[active.session] # active.serial
    <3>1. h = active.session /\ serial = active.serial
      BY <2>3 DEF ForwardClose, Matches
    <3>2. wanted'[h] = IF wanted[h] = serial THEN 0 ELSE wanted[h]
      BY <1>1, <2>3 DEF ForwardClose, ConnInv, SessionsOK
    <3> QED
      BY <2>1, <3>1, <3>2, CipAssumption
  <2>4. ASSUME NEW c \in Clients, NEW h \in sessions, NEW serial \in Serials,
               ForwardOpen(c, h, serial)
        PROVE  FALSE
    <3>1. NoConnection = [session |-> h, originator |-> c, serial |-> serial]
      BY <2>4 DEF ForwardOpen
    <3>2. h \in Nat
      BY <1>1 DEF ConnInv, SessionsOK
    <3> QED
      BY <3>1, <3>2, CipAssumption
  <2>5. CASE \/ \E c \in Clients : \/ Connect(c) \/ RegisterSession(c) \/ Disconnect(c)
                                   \/ \E h \in sessions : \/ SetPoint(c, h)
                                                          \/ SetAssembly(c, h)
                                                          \/ SetAssemblyRaises(c, h)
             \/ ProducerTick \/ OtherTasks \/ UNCHANGED cipVars
    <3>1. active' = active
      BY <2>5 DEF Connect, RegisterSession, Disconnect, Close, SetPoint, SetAssembly,
                  SetAssemblyRaises, ProducerTick, Await, Produce, ProducerDies, OtherTasks,
                  cipVars, connVars
    <3> QED
      BY <3>1
  <2> QED
    BY <1>1, <2>2, <2>3, <2>4, <2>5 DEF CipNext, ExplicitRequest
<1> QED
  BY <1>1, InitConnInv, NextKeepsConnInv, PTL DEF CipSpec, OnlyItsSessionCloses
=============================================================================
