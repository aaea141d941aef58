------------------------- MODULE FaultControlProofs -------------------------
(***************************************************************************)
(* Theorems about fault control, for every device, every length of the     *)
(* command file, every batching and any number of runs of the process.     *)
(***************************************************************************)
EXTENDS FaultControl, ProcessImageProofs

\* The commands for point p among those this run has obeyed: all up to k.
Mine(p, k) == {n \in opened + 1 .. k : queue[n].point = p}
Obeyed == offset - Len(batch)

\* The faults are those the last of these commands left.
FaultsFollow(k) ==
    \A p \in Points :
        /\ Mine(p, k) = {} => p \notin DOMAIN faults
        /\ Mine(p, k) # {} =>
              \E m \in Mine(p, k) :
                 /\ \A n \in Mine(p, k) : n <= m
                 /\ queue[m].action = "clear" => p \notin DOMAIN faults
                 /\ queue[m].action # "clear" => HasFault(p, queue[m].mode)

FilesOK ==
    /\ queue \in Seq(AcceptedCommands) /\ Len(queue) <= MaxCommands
    /\ opened \in Nat /\ offset \in Nat
    /\ opened <= offset /\ offset <= Len(queue)
    /\ applied \subseteq 1 .. offset
BatchOK ==
    /\ batch \in Seq(AcceptedCommands)
    /\ Len(batch) <= offset - opened
    /\ \A i \in DOMAIN batch : batch[i] = queue[Obeyed + i]
    /\ task # "applying" => batch = <<>>
ProcessOK ==
    /\ process \in {"down", "booting", "up"}
    /\ task \in {"off", "asleep", "applying", "dead"}
    /\ process # "up" => task = "off" /\ faults = <<>> /\ ~ changed
    /\ process = "up" => task # "off"
    /\ changed \in BOOLEAN
    /\ boots \in 0 .. MaxBoots
    /\ process = "down" => boots < MaxBoots
\* The status is behind only while a batch that changed the image is applied.
StatusOK ==
    /\ task = "asleep" => ~ changed
    /\ task \in {"asleep", "applying"} /\ ~ changed => status = Reported
FollowsOK == task \in {"asleep", "applying"} => FaultsFollow(Obeyed)

FCInv == IInv /\ FilesOK /\ BatchOK /\ ProcessOK /\ StatusOK /\ FollowsOK

-----------------------------------------------------------------------------
LEMMA ReportedOfNone == ASSUME faults = <<>> PROVE Reported = <<>>
BY DEF Reported

LEMMA InitFCInv == FCInit => FCInv
<1> SUFFICES ASSUME FCInit PROVE FCInv
  OBVIOUS
<1>1. IInv
  BY InitIInv DEF FCInit
<1>2. FilesOK
  BY FaultControlAssumption DEF FCInit, FilesOK
<1>3. BatchOK
  BY DEF FCInit, BatchOK
<1>4. ProcessOK
  <2>1. 0 \in 0 .. MaxBoots /\ 0 < MaxBoots
    BY FaultControlAssumption
  <2>2. process = "down" /\ task = "off" /\ faults = <<>> /\ changed = FALSE /\ boots = 0
    BY DEF FCInit, Init
  <2> QED
    BY <2>1, <2>2 DEF ProcessOK
<1>5. StatusOK /\ FollowsOK
  BY DEF FCInit, Init, StatusOK, FollowsOK
<1> QED
  BY <1>1, <1>2, <1>3, <1>4, <1>5 DEF FCInv

\* Steps of the image that leave the faults alone.
LEMMA SameFaults ==
    ASSUME FCInv, IInv', UNCHANGED <<faults, taskVars, webVars>>
    PROVE  FCInv'
<1>1. FilesOK' /\ BatchOK' /\ ProcessOK'
  BY DEF taskVars, webVars, FCInv, FilesOK, BatchOK, ProcessOK, Obeyed
<1>2. StatusOK'
  BY DEF taskVars, FCInv, StatusOK, Reported
<1>3. FollowsOK'
  BY DEF taskVars, webVars, FCInv, FollowsOK, FaultsFollow, Mine, Obeyed, HasFault
<1> QED
  BY <1>1, <1>2, <1>3 DEF FCInv

LEMMA AcceptKeepsFCInv ==
    ASSUME FCInv, AcceptCommand
    PROVE  FCInv'
<1>1. PICK c \in AcceptedCommands : queue' = Append(queue, c)
  BY DEF AcceptCommand
<1>2. /\ Len(queue) \in Nat /\ Len(queue') = Len(queue) + 1
      /\ queue' \in Seq(AcceptedCommands)
      /\ \A n \in 1 .. Len(queue) : queue'[n] = queue[n]
  BY <1>1 DEF FCInv, FilesOK
<1>3. UNCHANGED <<state, shadow, faults, now, task, offset, batch, changed, status, applied,
                  process, boots, opened>>
  BY DEF AcceptCommand, vars, taskVars
<1>4. FilesOK'
  BY <1>2, <1>3, FaultControlAssumption DEF AcceptCommand, FCInv, FilesOK
<1>5. BatchOK'
  <2>1. \A i \in DOMAIN batch : Obeyed + i \in 1 .. Len(queue)
    BY DEF FCInv, FilesOK, BatchOK, Obeyed
  <2> QED
    BY <1>2, <1>3, <2>1 DEF FCInv, BatchOK, Obeyed
<1>6. FollowsOK'
  <2>1. Obeyed \in Nat /\ Obeyed <= Len(queue)
    BY DEF FCInv, FilesOK, BatchOK, Obeyed
  <2>2. \A n \in opened + 1 .. Obeyed : queue'[n] = queue[n]
    BY <1>2, <2>1 DEF FCInv, FilesOK
  <2>3. Obeyed' = Obeyed /\ \A p : Mine(p, Obeyed)' = Mine(p, Obeyed)
    BY <1>3, <2>2 DEF Obeyed, Mine
  <2>4. \A p : \A m \in Mine(p, Obeyed) : queue'[m] = queue[m]
    BY <2>2 DEF Mine
  <2> QED
    BY <1>3, <2>3, <2>4 DEF FCInv, FollowsOK, FaultsFollow, HasFault
<1>7. IInv' /\ ProcessOK' /\ StatusOK'
  BY <1>3 DEF FCInv, ProcessOK, StatusOK, Reported, IInv, TypeOK, ShadowOnlyWhileStuck,
              IsStuck, HasFault
<1> QED
  BY <1>4, <1>5, <1>6, <1>7 DEF FCInv

LEMMA StartKeepsFCInv ==
    ASSUME FCInv, StartProcess
    PROVE  FCInv'
<1>1. UNCHANGED <<state, shadow, faults, now, task, offset, batch, changed, status, applied,
                  queue, opened>>
  BY DEF StartProcess, vars, taskVars
<1>2. FilesOK' /\ BatchOK' /\ StatusOK'
  BY <1>1 DEF FCInv, FilesOK, BatchOK, StatusOK, Obeyed, Reported
<1>5. FollowsOK'
  BY <1>1 DEF FCInv, FollowsOK, FaultsFollow, Mine, Obeyed, HasFault
<1>3. ProcessOK'
  BY <1>1, FaultControlAssumption DEF StartProcess, FCInv, ProcessOK
<1>4. IInv'
  BY <1>1, NextKeepsIInv DEF FCInv, vars
<1> QED
  BY <1>2, <1>3, <1>4, <1>5 DEF FCInv

\* A fresh image has no faults, and nothing of the file was obeyed yet.
LEMMA BootKeepsFCInv ==
    ASSUME FCInv, Boot
    PROVE  FCInv'
<1>1. /\ process' = "up" /\ task' = "asleep" /\ status' = <<>>
      /\ offset' = Len(queue) /\ opened' = Len(queue)
      /\ batch = <<>> /\ ~ changed /\ faults = <<>>
      /\ UNCHANGED <<state, shadow, faults, now, batch, changed, applied, queue, boots>>
  BY DEF Boot, OpenedAt, vars, FCInv, ProcessOK, BatchOK
<1>2. /\ Len(queue) \in Nat /\ offset \in Nat /\ offset <= Len(queue) /\ opened <= offset
      /\ Len(batch) = 0 /\ DOMAIN batch = {}
  BY <1>1 DEF FCInv, FilesOK
<1>3. FilesOK' /\ BatchOK'
  BY <1>1, <1>2 DEF FCInv, FilesOK, BatchOK, Obeyed
<1>4. ProcessOK'
  BY <1>1 DEF Boot, FCInv, ProcessOK
<1>5. StatusOK'
  BY <1>1, ReportedOfNone DEF StatusOK, Reported
<1>6. FollowsOK'
  <2>1. Obeyed' = Len(queue) /\ \A p : Mine(p, Len(queue))' = {}
    BY <1>1, <1>2 DEF Obeyed, Mine
  <2>2. DOMAIN faults' = {}
    BY <1>1
  <2> QED
    BY <1>1, <2>1, <2>2 DEF FollowsOK, FaultsFollow
<1>7. IInv'
  BY <1>1, NextKeepsIInv DEF FCInv, vars
<1> QED
  BY <1>3, <1>4, <1>5, <1>6, <1>7 DEF FCInv

LEMMA ExitKeepsFCInv ==
    ASSUME FCInv, Exit
    PROVE  FCInv'
<1>1. /\ process' = "down" /\ task' = "off" /\ batch' = <<>> /\ changed' = FALSE
      /\ Init' /\ faults' = <<>> /\ boots < MaxBoots
      /\ UNCHANGED <<offset, status, applied, queue, boots, opened>>
  BY DEF Exit, Init
<1>2. IInv'
  BY <1>1, DeviceAssumption, ImageAssumption
     DEF Init, IInv, TypeOK, ShadowOnlyWhileStuck, Held
<1>3. FilesOK' /\ BatchOK'
  BY <1>1 DEF FCInv, FilesOK, BatchOK
<1>4. ProcessOK' /\ StatusOK' /\ FollowsOK'
  BY <1>1 DEF FCInv, ProcessOK, StatusOK, FollowsOK
<1> QED
  BY <1>2, <1>3, <1>4 DEF FCInv

-----------------------------------------------------------------------------
\* The fault task.

LEMMA ReadPendingKeepsFCInv ==
    ASSUME FCInv, ReadPending
    PROVE  FCInv'
<1>1. /\ batch' = SubSeq(queue, offset + 1, Len(queue)) /\ offset' = Len(queue)
      /\ task = "asleep" /\ task' = "applying" /\ batch = <<>>
      /\ UNCHANGED <<state, shadow, faults, now, process, queue, boots, opened, changed,
                      status, applied>>
  BY DEF ReadPending, Pending, vars, webVars, FCInv, BatchOK
<1>2. /\ queue \in Seq(AcceptedCommands) /\ Len(queue) \in Nat /\ offset \in Nat
      /\ opened \in Nat /\ opened <= offset /\ offset <= Len(queue) /\ Len(batch) = 0
      /\ applied \subseteq 1 .. offset /\ Len(queue) <= MaxCommands
  BY <1>1 DEF FCInv, FilesOK
<1>3. /\ batch' \in Seq(AcceptedCommands) /\ Len(batch') = Len(queue) - offset
      /\ DOMAIN batch' = 1 .. Len(queue) - offset
      /\ \A i \in 1 .. Len(queue) - offset : batch'[i] = queue[offset + i]
  <2>1. \A i \in offset + 1 .. Len(queue) : queue[i] \in AcceptedCommands
    BY <1>2
  <2> QED
    BY <1>1, <1>2, <2>1
<1>4. Obeyed' = offset /\ Obeyed = offset
  BY <1>1, <1>2, <1>3 DEF Obeyed
<1>5. FilesOK' /\ BatchOK'
  BY <1>1, <1>2, <1>3, <1>4 DEF FilesOK, BatchOK
<1>6. ProcessOK' /\ StatusOK'
  BY <1>1 DEF FCInv, ProcessOK, StatusOK, Reported
<1>7. FollowsOK'
  BY <1>1, <1>4 DEF FCInv, FollowsOK, FaultsFollow, Mine, HasFault
<1>8. IInv'
  BY <1>1, NextKeepsIInv DEF FCInv, vars
<1> QED
  BY <1>5, <1>6, <1>7, <1>8 DEF FCInv

\* What obeying a command does to the faults.
LEMMA ObeyFacts ==
    ASSUME FCInv, NEW c \in AcceptedCommands, Obey(c)
    PROVE  /\ IInv' /\ c.point \in Points
           /\ c.action = "clear" => c.point \notin DOMAIN faults'
           /\ c.action # "clear" => HasFault(c.point, c.mode)'
           /\ \A q \in Points \ {c.point} :
                 /\ q \in DOMAIN faults' <=> q \in DOMAIN faults
                 /\ q \in DOMAIN faults => faults'[q] = faults[q]
<1>1. /\ c.point \in Points
      /\ c.action \in {"set", "clear"}
      /\ c.action = "set" => c.mode \in FaultModes
  BY DEF AcceptedCommands
<1>2. CASE c.action = "set" /\ \E rate \in DriftRates, amplitude \in Amplitudes :
                                  SetFault(c.point, c.mode, rate, amplitude)
  <2>1. PICK rate \in DriftRates, amplitude \in Amplitudes :
          SetFault(c.point, c.mode, rate, amplitude)
    BY <1>2
  <2>2. IInv'
    BY <1>1, <1>2, <2>1, SetFaultKeepsIInv DEF FCInv
  <2>3. faults' = With(faults, c.point,
                       NewFault(c.point, c.mode, rate, amplitude, BaseWith(shadow', c.point)))
    BY <2>1 DEF SetFault
  <2>4. HasFault(c.point, c.mode)'
    BY <2>3 DEF HasFault, With, NewFault
  <2> QED
    BY <1>1, <1>2, <2>2, <2>3, <2>4 DEF With
<1>3. CASE c.action = "clear" /\ ClearFault(c.point)
  <2>1. IInv'
    BY <1>1, <1>3, ClearFaultKeepsIInv DEF FCInv
  <2>2. /\ DOMAIN faults' = DOMAIN faults \ {c.point}
        /\ \A q \in DOMAIN faults' : faults'[q] = faults[q]
    BY <1>3 DEF ClearFault, Without, Restrict
  <2> QED
    BY <1>1, <1>3, <2>1, <2>2
<1> QED
  BY <1>2, <1>3 DEF Obey

\* The command obeyed becomes the last one for its point.
LEMMA FollowsOneMore ==
    ASSUME NEW k \in Nat, NEW c, opened \in Nat, opened < k, queue[k] = c,
           UNCHANGED <<queue, opened>>,
           FaultsFollow(k - 1),
           c.point \in Points,
           c.action = "clear" => c.point \notin DOMAIN faults',
           c.action # "clear" => HasFault(c.point, c.mode)',
           \A q \in Points \ {c.point} :
              /\ q \in DOMAIN faults' <=> q \in DOMAIN faults
              /\ q \in DOMAIN faults => faults'[q] = faults[q]
    PROVE  FaultsFollow(k)'
<1>1. \A p : Mine(p, k)' = Mine(p, k)
  BY DEF Mine
<1>2. \A p : p # c.point => Mine(p, k) = Mine(p, k - 1)
  BY DEF Mine
<1>3. k \in Mine(c.point, k) /\ \A n \in Mine(c.point, k) : n <= k
  BY DEF Mine
<1>4. ASSUME NEW p \in Points
      PROVE  /\ Mine(p, k) = {} => p \notin DOMAIN faults'
             /\ Mine(p, k) # {} =>
                   \E m \in Mine(p, k) :
                      /\ \A n \in Mine(p, k) : n <= m
                      /\ queue[m].action = "clear" => p \notin DOMAIN faults'
                      /\ queue[m].action # "clear" => HasFault(p, queue[m].mode)'
  <2>1. CASE p = c.point
    BY <1>3, <2>1
  <2>2. CASE p # c.point
    <3>1. Mine(p, k) = Mine(p, k - 1)
      BY <1>2, <2>2
    <3>2. \A mode : HasFault(p, mode) => HasFault(p, mode)'
      BY <2>2 DEF HasFault
    <3>3. p \in DOMAIN faults' <=> p \in DOMAIN faults
      BY <2>2
    <3> QED
      BY <3>1, <3>2, <3>3 DEF FaultsFollow
  <2> QED
    BY <2>1, <2>2
<1> QED
  BY <1>1, <1>4 DEF FaultsFollow

\* The command obeyed is the one that follows those obeyed before.
LEMMA ApplyKeepsFCInv ==
    ASSUME FCInv, ApplyCommand
    PROVE  FCInv'
<1>1. /\ batch \in Seq(AcceptedCommands) /\ Len(batch) \in Nat /\ Len(batch) > 0
      /\ Head(batch) = batch[1] /\ 1 \in DOMAIN batch
      /\ offset \in Nat /\ opened \in Nat /\ Len(batch) <= offset - opened
      /\ offset <= Len(queue) /\ Len(queue) \in Nat /\ applied \subseteq 1 .. offset
  BY DEF ApplyCommand, FCInv, FilesOK, BatchOK
<1>2. /\ task = "applying" /\ Obey(Head(batch)) /\ batch' = Tail(batch) /\ changed' = TRUE
      /\ applied' = applied \cup {offset - Len(batch) + 1}
      /\ UNCHANGED <<process, queue, boots, opened, task, offset, status>>
  BY DEF ApplyCommand, webVars
<1>3. PICK k : k = Obeyed + 1
  OBVIOUS
<1>4. PICK c : c = Head(batch)
  OBVIOUS
<1>5. /\ k \in Nat /\ k - 1 = Obeyed /\ opened < k /\ k <= offset /\ k \in 1 .. offset
      /\ k = offset - Len(batch) + 1
  BY <1>1, <1>3 DEF Obeyed
<1>6. queue[k] = c /\ c \in AcceptedCommands
  <2>1. batch[1] = queue[Obeyed + 1]
    BY <1>1 DEF FCInv, BatchOK
  <2> QED
    BY <1>1, <1>3, <1>4, <2>1
<1>7. /\ Tail(batch) \in Seq(AcceptedCommands) /\ Len(Tail(batch)) = Len(batch) - 1
      /\ DOMAIN Tail(batch) = 1 .. Len(batch) - 1
      /\ \A i \in DOMAIN Tail(batch) : Tail(batch)[i] = batch[i + 1] /\ i + 1 \in DOMAIN batch
  BY <1>1
<1>8. Obeyed' = k
  BY <1>1, <1>2, <1>5, <1>7 DEF Obeyed
<1>9. FilesOK'
  <2>1. applied' \subseteq 1 .. offset
    BY <1>1, <1>2, <1>5
  <2> QED
    BY <1>2, <2>1 DEF FCInv, FilesOK
<1>10. BatchOK'
  <2>1. \A i \in DOMAIN Tail(batch) : Tail(batch)[i] = queue[k + i]
    <3> SUFFICES ASSUME NEW i \in DOMAIN Tail(batch) PROVE Tail(batch)[i] = queue[k + i]
      OBVIOUS
    <3>1. Tail(batch)[i] = queue[Obeyed + (i + 1)]
      BY <1>7 DEF FCInv, BatchOK
    <3>2. Obeyed + (i + 1) = k + i
      BY <1>3, <1>5, <1>7
    <3> QED
      BY <3>1, <3>2
  <2>2. \A i \in DOMAIN batch' : batch'[i] = queue'[Obeyed' + i]
    BY <1>2, <1>8, <2>1
  <2>3. batch' \in Seq(AcceptedCommands) /\ Len(batch') <= offset' - opened'
    BY <1>1, <1>2, <1>7
  <2> QED
    BY <1>2, <2>2, <2>3 DEF BatchOK
<1>11. /\ IInv' /\ c.point \in Points
       /\ c.action = "clear" => c.point \notin DOMAIN faults'
       /\ c.action # "clear" => HasFault(c.point, c.mode)'
       /\ \A q \in Points \ {c.point} :
             /\ q \in DOMAIN faults' <=> q \in DOMAIN faults
             /\ q \in DOMAIN faults => faults'[q] = faults[q]
  <2>1. Obey(c)
    BY <1>2, <1>4
  <2> QED
    BY <1>6, <2>1, ObeyFacts
<1>12. FollowsOK'
  <2>1. FaultsFollow(k - 1)
    BY <1>2, <1>5 DEF FCInv, FollowsOK
  <2>2. FaultsFollow(k)'
    BY <1>1, <1>2, <1>5, <1>6, <1>11, <2>1, FollowsOneMore
  <2> QED
    BY <1>8, <2>2 DEF FollowsOK, FaultsFollow, Mine
<1>13. ProcessOK' /\ StatusOK'
  <2>1. process = "up"
    BY <1>2 DEF FCInv, ProcessOK
  <2>2. StatusOK'
    BY <1>2 DEF StatusOK
  <2> QED
    BY <1>2, <2>1, <2>2 DEF FCInv, ProcessOK
<1> QED
  BY <1>9, <1>10, <1>11, <1>12, <1>13 DEF FCInv

LEMMA FailKeepsFCInv ==
    ASSUME FCInv, FailCommand
    PROVE  FCInv'
<1>1. /\ task = "applying" /\ task' = "dead" /\ batch' = <<>>
      /\ UNCHANGED <<state, shadow, faults, now, process, queue, boots, opened, offset,
                      changed, status, applied>>
  BY DEF FailCommand, vars, webVars
<1>2. FilesOK'
  BY <1>1 DEF FCInv, FilesOK
<1>3. BatchOK'
  BY <1>1 DEF FCInv, FilesOK, BatchOK
<1>4. ProcessOK' /\ StatusOK' /\ FollowsOK'
  BY <1>1 DEF FCInv, ProcessOK, StatusOK, FollowsOK
<1>5. IInv'
  BY <1>1, NextKeepsIInv DEF FCInv, vars
<1> QED
  BY <1>2, <1>3, <1>4, <1>5 DEF FCInv

LEMMA FinishKeepsFCInv ==
    ASSUME FCInv, FinishBatch
    PROVE  FCInv'
<1>1. /\ task = "applying" /\ task' = "asleep" /\ batch = <<>> /\ changed' = FALSE
      /\ status' = IF changed THEN Reported ELSE status
      /\ UNCHANGED <<state, shadow, faults, now, process, queue, boots, opened, offset,
                      batch, applied>>
  BY DEF FinishBatch, StatusAfterBatch, vars, webVars
<1>2. FilesOK' /\ BatchOK'
  BY <1>1 DEF FCInv, FilesOK, BatchOK, Obeyed
<1>3. ProcessOK'
  BY <1>1 DEF FCInv, ProcessOK
<1>4. StatusOK'
  <2>1. status' = Reported /\ Reported' = Reported
    BY <1>1 DEF FCInv, StatusOK, Reported
  <2> QED
    BY <1>1, <2>1 DEF StatusOK
<1>5. FollowsOK'
  BY <1>1 DEF FCInv, FollowsOK, FaultsFollow, Mine, Obeyed, HasFault
<1>6. IInv'
  BY <1>1, NextKeepsIInv DEF FCInv, vars
<1> QED
  BY <1>2, <1>3, <1>4, <1>5, <1>6 DEF FCInv

LEMMA OthersKeepFCInv ==
    ASSUME FCInv, OtherTasks
    PROVE  FCInv'
<1>1. IInv'
  BY NextKeepsIInv DEF FCInv, OtherTasks, Next
<1>2. UNCHANGED faults
  BY DEF OtherTasks, ModbusWrite, ApplyModbusWrite, PhysicsStep, Advance
<1> QED
  BY <1>1, <1>2, SameFaults DEF OtherTasks

LEMMA NextKeepsFCInv == FCInv /\ [FCNext]_fcVars => FCInv'
<1> SUFFICES ASSUME FCInv, [FCNext]_fcVars PROVE FCInv'
  OBVIOUS
<1>1. CASE UNCHANGED fcVars
  <2>1. IInv'
    BY <1>1, NextKeepsIInv DEF FCInv, fcVars
  <2> QED
    BY <1>1, <2>1, SameFaults DEF fcVars, vars
<1>2. CASE AcceptCommand \/ StartProcess \/ Boot \/ Exit
  BY <1>2, AcceptKeepsFCInv, StartKeepsFCInv, BootKeepsFCInv, ExitKeepsFCInv
<1>3. CASE FaultTask
  BY <1>3, ReadPendingKeepsFCInv, ApplyKeepsFCInv, FailKeepsFCInv, FinishKeepsFCInv
     DEF FaultTask
<1>4. CASE OtherTasks
  BY <1>4, OthersKeepFCInv
<1> QED
  BY <1>1, <1>2, <1>3, <1>4 DEF FCNext

LEMMA FCInvHolds == FCSpec => []FCInv
BY InitFCInv, NextKeepsFCInv, PTL DEF FCSpec

-----------------------------------------------------------------------------
\* The files, the task and the process keep their types: the batch is never
\* longer than what was read, and nothing beyond the offset takes effect.
THEOREM FaultControlTypeCorrect == FCSpec => []FCTypeOK
<1>1. FCInv => FCTypeOK
  <2> SUFFICES ASSUME FCInv PROVE FCTypeOK
    OBVIOUS
  <2>1. TypeOK
    BY DEF FCInv, IInv
  <2> QED
    BY <2>1 DEF FCInv, FilesOK, BatchOK, ProcessOK, FCTypeOK
<1> QED
  BY <1>1, FCInvHolds, PTL

\* emulator_core.py, run_fault_control: the status file names exactly the
\* active faults whenever the task sleeps, whatever batches were applied and
\* however often the process was restarted.
THEOREM StatusAlwaysTells == FCSpec => []StatusTellsTheFaults
<1>1. FCInv => StatusTellsTheFaults
  BY DEF FCInv, StatusOK, StatusTellsTheFaults
<1> QED
  BY <1>1, FCInvHolds, PTL

\* A task that has read everything has obeyed everything of its own run, in
\* order: the last command for each point is what the image shows.
THEOREM LastCommandAlwaysWins == FCSpec => []LastCommandWins
<1>1. ASSUME FCInv, task = "asleep", offset = Len(queue), NEW p \in Points,
             NEW mine, mine = {n \in opened + 1 .. Len(queue) : queue[n].point = p}
      PROVE  IF mine = {} \/ queue[Max(mine)].action = "clear"
             THEN p \notin DOMAIN faults
             ELSE HasFault(p, queue[Max(mine)].mode)
  <2>1. Obeyed = Len(queue)
    BY <1>1 DEF FCInv, FilesOK, BatchOK, Obeyed
  <2>2. mine = Mine(p, Obeyed)
    BY <1>1, <2>1 DEF Mine
  <2>3. FaultsFollow(Obeyed)
    BY <1>1 DEF FCInv, FollowsOK
  <2>4. CASE mine = {}
    BY <2>2, <2>3, <2>4 DEF FaultsFollow
  <2>5. CASE mine # {}
    <3>1. PICK m \in mine :
            /\ \A n \in mine : n <= m
            /\ queue[m].action = "clear" => p \notin DOMAIN faults
            /\ queue[m].action # "clear" => HasFault(p, queue[m].mode)
      BY <2>2, <2>3, <2>5 DEF FaultsFollow
    <3>2. mine \subseteq Int
      BY <1>1 DEF FCInv, FilesOK
    <3>3. Max(mine) = m
      <4>1. m \in mine /\ \A n \in mine : m >= n
        BY <3>1, <3>2
      <4>2. \A x \in mine : (\A n \in mine : x >= n) => x = m
        BY <3>2, <4>1
      <4> QED
        BY <4>1, <4>2, Zenon DEF Max
    <3> QED
      BY <2>5, <3>1, <3>3
  <2> QED
    BY <2>4, <2>5
<1>2. FCInv => LastCommandWins
  BY <1>1 DEF LastCommandWins
<1> QED
  BY <1>2, FCInvHolds, PTL
=============================================================================
