----------------------------- MODULE FinsProofs -----------------------------
(***************************************************************************)
(* Theorems about the FINS backend, for every device, any number of peers  *)
(* and every order of datagrams, loop ticks, faults and physics.           *)
(***************************************************************************)
EXTENDS Fins, ProcessImageProofs

\* What the loop remembers and has sent.
LoopOK ==
    /\ lastPeer \in Peers \cup {NoPeer}
    /\ told \in Peers \cup {NoPeer}
    /\ unsolicited \in [Telemetry -> Int]
    /\ pending \in BOOLEAN
    /\ loop \in {"running", "dead"}
    /\ DOMAIN pushed = Peers /\ steady \subseteq Telemetry
    /\ \A q \in Peers : pushed[q] = <<>> \/ pushed[q] \in [Telemetry -> 0 .. MaxU16]

WaitOK == wait \in 0 .. Interval

\* The peer served last was sent what the loop remembers, as far as the two
\* reads of a push are sure to agree.
SentIsRemembered ==
    told \in Peers => \A p \in steady : pushed[told][p] = unsolicited[p]

FinsInv == IInv /\ LoopOK /\ WaitOK /\ SentIsRemembered

LEMMA RawStatesFit ==
    ASSUME IInv, NEW S \in SUBSET Points, NEW r \in RawStates(S)
    PROVE  r \in [S -> Int] /\ \A p \in S : r[p] \in ReadRaw(p)
  BY ReadRawFits DEF RawStates

\* What clients read are integers, in this state and in the next.
ReadIntegers == \A p \in Points : ReadRaw(p) \subseteq Int

LEMMA ReadsAreIntegers == IInv => ReadIntegers
  BY ReadRawFits DEF ReadIntegers

LEMMA ReadsStayIntegers == IInv' => ReadIntegers'
  BY ReadsAreIntegers, PTL

LEMMA TelemetryIsPoints == Telemetry \subseteq Points /\ Steady \subseteq Telemetry
  BY DEF Telemetry, Steady

\* A read of a steady point has one outcome, now and when the clock has gone on.
LEMMA SteadyReads ==
    ASSUME IInv, NEW p \in Steady, UNCHANGED vars \/ Advance
    PROVE  /\ ReadRaw(p)' = ReadRaw(p)
           /\ \E v : ReadRaw(p) = {v}
<1>1. /\ p \in Points /\ p # "uptime"
      /\ p \in DOMAIN faults => faults[p].mode \in {"freeze", "stuck_actuator"}
  BY TelemetryIsPoints DEF Steady, HasFault, IInv, TypeOK, FaultModes
<1>2. UNCHANGED <<state, shadow, faults>>
  BY DEF vars, Advance
<1>3. PICK v : Exposed(p) = {v} /\ Exposed(p)' = {v}
  <2>1. CASE p \notin DOMAIN faults
    BY <1>1, <1>2, <2>1 DEF Exposed, BaseWith
  <2>2. CASE HasFault(p, "freeze")
    BY <1>2, <2>2 DEF HasFault, Exposed, FrozenReport
  <2>3. CASE IsStuck(p)
    BY <1>1, <1>2, <2>3 DEF IsStuck, HasFault, Exposed, BaseWith
  <2> QED
    BY <1>1, <2>1, <2>2, <2>3 DEF IsStuck, HasFault
<1> QED
  BY <1>3 DEF ReadRaw

LEMMA InitFinsInv == FinsInit => FinsInv
<1> SUFFICES ASSUME FinsInit PROVE FinsInv
  OBVIOUS
<1>1. IInv
  BY InitIInv DEF FinsInit
<1>2. LoopOK
  <2>1. unsolicited \in [Telemetry -> Int]
    BY <1>1, RawStatesFit, TelemetryIsPoints DEF FinsInit, Watched
  <2> QED
    BY <2>1 DEF FinsInit, LoopOK
<1>3. SentIsRemembered
  BY FinsAssumption DEF FinsInit, SentIsRemembered
<1>4. WaitOK
  BY FinsAssumption DEF FinsInit, WaitOK
<1> QED
  BY <1>1, <1>2, <1>3, <1>4 DEF FinsInv

\* datagram_received moves last_peer and the next push, and the image only as
\* the image may move.
LEMMA DatagramKeepsFinsInv ==
    ASSUME FinsInv, NEW q \in Peers, MemoryRead(q) \/ MemoryWrite(q) \/ Reject(q)
    PROVE  FinsInv'
<1>1. RegisterPeer(q) /\ [Next]_vars
  BY DEF MemoryRead, MemoryWrite, Reject, WriteItems, Next
<1>2. IInv'
  BY <1>1, NextKeepsIInv DEF FinsInv
<1>3. WaitOK'
  BY <1>1, FinsAssumption DEF RegisterPeer, Sooner, FinsInv, WaitOK
<1>4. LoopOK' /\ SentIsRemembered'
  BY <1>1 DEF RegisterPeer, history, FinsInv, LoopOK, SentIsRemembered
<1> QED
  BY <1>2, <1>3, <1>4 DEF FinsInv

\* A push sends what the loop then remembers.
LEMMA PushKeepsFinsInv ==
    ASSUME FinsInv, IInv', lastPeer # NoPeer, UNCHANGED vars \/ Advance, UNCHANGED lastPeer,
           NEW current \in RawStates(Watched), NEW sent \in LaterRawStates(Telemetry),
           Push(current, sent)
    PROVE  LoopOK' /\ SentIsRemembered'
<1>1. /\ current \in [Telemetry -> Int] /\ sent \in [Telemetry -> Int]
      /\ \A p \in Telemetry : /\ current[p] \in ReadRaw(p)
                              /\ sent[p] \in ReadRaw(p) \cup ReadRaw(p)'
  <2>1. \A p \in Telemetry : ReadRaw(p) \subseteq Int /\ ReadRaw(p)' \subseteq Int
    BY ReadsAreIntegers, ReadsStayIntegers, TelemetryIsPoints DEF FinsInv, ReadIntegers
  <2>2. \A p \in Telemetry : sent[p] \in ReadRaw(p) \cup ReadRaw(p)'
    BY DEF LaterRawStates
  <2>3. sent \in [Telemetry -> Int]
    BY <2>1, <2>2 DEF LaterRawStates
  <2>4. current \in [Telemetry -> Int] /\ \A p \in Telemetry : current[p] \in ReadRaw(p)
    BY RawStatesFit, TelemetryIsPoints DEF FinsInv, Watched
  <2> QED
    BY <2>2, <2>3, <2>4
<1>2. \A p \in Steady : sent[p] = current[p]
  BY <1>1, SteadyReads, TelemetryIsPoints DEF FinsInv
<1>3. lastPeer \in Peers
  BY DEF FinsInv, LoopOK
<1>4. sent \in [Telemetry -> 0 .. MaxU16]
  BY <1>1 DEF Push, Encodable
<1>5. /\ DOMAIN pushed' = Peers /\ pushed'[lastPeer] = sent
      /\ \A q \in Peers \ {lastPeer} : pushed'[q] = pushed[q]
  BY <1>3 DEF Push, FinsInv, LoopOK
<1>6. LoopOK'
  BY <1>1, <1>3, <1>4, <1>5, TelemetryIsPoints DEF Push, FinsInv, LoopOK
<1>7. SentIsRemembered'
  BY <1>2, <1>5 DEF Push, SentIsRemembered
<1> QED
  BY <1>6, <1>7

LEMMA LoopTickKeepsFinsInv ==
    ASSUME FinsInv, LoopTick
    PROVE  FinsInv'
<1>1. (UNCHANGED vars \/ Advance) /\ UNCHANGED lastPeer
  BY DEF LoopTick
<1>2. IInv'
  BY <1>1, NextKeepsIInv DEF FinsInv, Next
<1>3. WaitOK'
  <2>1. wait' \in {Remaining, Interval, wait}
    BY DEF LoopTick, WaitForPeer, WaitForDue, NothingNew, Push, PushFails
  <2> QED
    BY <2>1, FinsAssumption DEF Remaining, FinsInv, WaitOK
<1>4. ASSUME WaitForPeer PROVE LoopOK' /\ SentIsRemembered'
  BY <1>1, <1>4 DEF WaitForPeer, history, FinsInv, LoopOK, SentIsRemembered
<1>5. ASSUME lastPeer # NoPeer, NEW current \in RawStates(Watched),
             WaitForDue(current) \/ NothingNew(current)
      PROVE  LoopOK' /\ SentIsRemembered'
  <2>1. pending' \in BOOLEAN
    BY <1>5 DEF WaitForDue, NothingNew, PendingNow, FinsInv, LoopOK
  <2> QED
    BY <1>1, <1>5, <2>1
    DEF WaitForDue, NothingNew, history, FinsInv, LoopOK, SentIsRemembered
<1>6. ASSUME lastPeer # NoPeer, NEW current \in RawStates(Watched),
             NEW sent \in LaterRawStates(Telemetry), PushFails(current, sent)
      PROVE  LoopOK' /\ SentIsRemembered'
  BY <1>1, <1>6 DEF PushFails, history, FinsInv, LoopOK, SentIsRemembered
<1>7. LoopOK' /\ SentIsRemembered'
  BY <1>1, <1>2, <1>4, <1>5, <1>6, PushKeepsFinsInv DEF LoopTick
<1> QED
  BY <1>2, <1>3, <1>7 DEF FinsInv

LEMMA NextKeepsFinsInv == FinsInv /\ [FinsNext]_finsVars => FinsInv'
<1> SUFFICES ASSUME FinsInv, [FinsNext]_finsVars PROVE FinsInv'
  OBVIOUS
<1>1. CASE OtherTasks
  <2>1. [Next]_vars
    <3>1. DOMAIN faults \subseteq Points
      BY DEF FinsInv, IInv, TypeOK
    <3> QED
      BY <1>1, <3>1 DEF OtherTasks, Next
  <2> QED
    BY <1>1, <2>1, NextKeepsIInv DEF OtherTasks, history, FinsInv, LoopOK, WaitOK, SentIsRemembered
<1>2. CASE UNCHANGED finsVars
  BY <1>2, NextKeepsIInv DEF finsVars, history, FinsInv, LoopOK, WaitOK, SentIsRemembered
<1> QED
  BY <1>1, <1>2, DatagramKeepsFinsInv, LoopTickKeepsFinsInv DEF FinsNext

\* Whatever the peers send and the points read, the loop's state and what it
\* sends keep their types: no packet holds more than a word can
\* (protocols/fins.py, unsolicited_packets).
THEOREM FinsTypeCorrect == FinsSpec => []FinsTypeOK
<1>1. FinsInv => FinsTypeOK
  BY DEF FinsInv, IInv, LoopOK, WaitOK, FinsTypeOK
<1> QED
  BY <1>1, InitFinsInv, NextKeepsFinsInv, PTL DEF FinsSpec

\* When the loop sees nothing new, the peer it served last knows what every
\* point reads that was neither noisy nor drifting at the last push, whoever asked
\* for what in between and however the clock went on during the push (protocols/fins.py, unsolicited_loop and datagram_received).
THEOREM NoChangeIsMissed == FinsSpec => []NothingMissed
<1>1. FinsInv => NothingMissed
  <2> SUFFICES ASSUME FinsInv, told \in Peers, unsolicited \in RawStates(Watched),
                      NEW p \in steady
               PROVE  pushed[told][p] \in ReadRaw(p)
    BY DEF NothingMissed
  <2>1. unsolicited[p] \in ReadRaw(p)
    BY RawStatesFit, TelemetryIsPoints DEF FinsInv, LoopOK, Watched
  <2> QED
    BY <2>1 DEF FinsInv, SentIsRemembered
<1> QED
  BY <1>1, InitFinsInv, NextKeepsFinsInv, PTL DEF FinsSpec
=============================================================================
